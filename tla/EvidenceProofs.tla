--------------------------- MODULE EvidenceProofs ---------------------------
(***************************************************************************)
(* How evidence comes about, for every configuration: one perception with  *)
(* its cache, its backends and its population shared with others           *)
(* (Perception), and the session that keeps what perceptions and transforms*)
(* found in its two stores (Evidence).                                     *)
(***************************************************************************)
EXTENDS Perception, Evidence, SequenceTheorems, FiniteSetTheorems, WellFoundedInduction, TLAPS

\* What a population that stores or has ended leaves behind.
WorkConsistent ==
  \A r \in Runs :
    /\ work[r] = "storing" => result[r] \in Backends
    /\ work[r] = "ended" => result[r] \in Backends \cup Causes

\* The runs attached to a key are those that share it, and while there are any
\* the key has a leader.
AttachedConsistent ==
  \A k \in Backends :
    /\ attached[k] = {r \in Runs : run[r] = "sharing" /\ KeyOf(r) = k}
    /\ attached[k] # {} => leader[k] \in Runs

\* A leader asked for the key it leads; it still waits, or is over, and never
\* works for itself alone.
LeaderConsistent ==
  \A k \in Backends : leader[k] \in Runs =>
    /\ KeyOf(leader[k]) = k
    /\ run[leader[k]] \in {"sharing"} \cup Over

IInv == /\ TypeOK
        /\ WorkConsistent
        /\ AttachedConsistent
        /\ LeaderConsistent
        /\ CacheHonest
        /\ ProvenanceHonest
        /\ AttemptsAreCharged
        /\ WorkIsWanted

-------------------------------------------------------------------------------
USE RouteAssumption

\* A run's key is a backend, and so is each of its candidates.
LEMMA CandidatesAreBackends ==
  ASSUME NEW r \in Runs
  PROVE  /\ KeyOf(r) \in Backends
         /\ Len(RouteOf[r]) \in Nat \ {0}
         /\ \A i \in 1 .. Len(RouteOf[r]) : RouteOf[r][i] \in Backends
BY DEF KeyOf

LEMMA AnswersTyped ==
  /\ \A p, c \in Backends, h \in BOOLEAN : Success(p, c, h) \in Answers
  /\ \A c \in Causes, r \in Runs : Failure(c, r) \in Answers
  /\ NoAnswer \in Answers
<1>1. ASSUME NEW p \in Backends, NEW c \in Backends, NEW h \in BOOLEAN
      PROVE  Success(p, c, h) \in Answers
  BY Zenon DEF Success, Answers
<1>2. ASSUME NEW c \in Causes, NEW r \in Runs
      PROVE  Failure(c, r) \in Answers
  BY Zenon DEF Failure, Answers
<1>3. NoAnswer \in Answers
  BY Zenon DEF NoAnswer, Answers
<1>4. QED
  BY <1>1, <1>2, <1>3

LEMMA InitIInv == Init => IInv
<1> SUFFICES ASSUME Init PROVE IInv
  OBVIOUS
<1> USE DEF Init
<1>1. TypeOK
  BY CandidatesAreBackends, AnswersTyped DEF TypeOK
<1>2. WorkConsistent
  BY DEF WorkConsistent
<1>3. AttachedConsistent
  BY DEF AttachedConsistent
<1>4. LeaderConsistent
  BY DEF LeaderConsistent
<1>5. CacheHonest /\ ProvenanceHonest
  BY DEF CacheHonest, ProvenanceHonest, NoAnswer
<1>6. AttemptsAreCharged /\ WorkIsWanted
  BY DEF AttemptsAreCharged, WorkIsWanted, Wanted, Working
<1>7. QED
  BY <1>1, <1>2, <1>3, <1>4, <1>5, <1>6 DEF IInv

-------------------------------------------------------------------------------
\* Up to the flight.

LEMMA BeginIInv ==
  ASSUME IInv, NEW r \in Runs, Begin(r)
  PROVE  IInv'
<1> USE DEF IInv, Begin, Goto, flights, filled, budgets
<1>1. TypeOK'
  BY DEF TypeOK, Waiting
<1>2. WorkConsistent'
  BY DEF WorkConsistent
<1>3. AttachedConsistent' /\ LeaderConsistent'
  BY DEF TypeOK, AttachedConsistent, LeaderConsistent, KeyOf, Over
<1>4. CacheHonest' /\ ProvenanceHonest' /\ AttemptsAreCharged'
  BY DEF CacheHonest, ProvenanceHonest, AttemptsAreCharged
<1>5. WorkIsWanted'
  BY DEF TypeOK, WorkIsWanted, Wanted, KeyOf
<1>6. QED
  BY <1>1, <1>2, <1>3, <1>4, <1>5

LEMMA CacheHitIInv ==
  ASSUME IInv, NEW r \in Runs, CacheHit(r)
  PROVE  IInv'
<1> USE DEF IInv, CacheHit, Goto, Answer, flights, filled, budgets
<1>0. KeyOf(r) \in Backends /\ cache[KeyOf(r)] = KeyOf(r)
  BY CandidatesAreBackends DEF CacheHonest
<1>1. TypeOK'
  BY <1>0, AnswersTyped DEF TypeOK, Over
<1>2. WorkConsistent'
  BY DEF WorkConsistent
<1>3. AttachedConsistent' /\ LeaderConsistent'
  BY DEF TypeOK, AttachedConsistent, LeaderConsistent, KeyOf, Over
<1>4. ProvenanceHonest'
  BY <1>0 DEF TypeOK, ProvenanceHonest, Success
<1>5. CacheHonest' /\ AttemptsAreCharged'
  BY DEF CacheHonest, AttemptsAreCharged
<1>6. WorkIsWanted'
  BY DEF TypeOK, WorkIsWanted, Wanted, KeyOf
<1>7. QED
  BY <1>1, <1>2, <1>3, <1>4, <1>5, <1>6

LEMMA CacheMissIInv ==
  ASSUME IInv, NEW r \in Runs, CacheMiss(r)
  PROVE  IInv'
<1> USE DEF IInv, CacheMiss, Goto, flights, filled, budgets
<1>1. TypeOK'
  BY DEF TypeOK, Waiting
<1>2. WorkConsistent'
  BY DEF WorkConsistent
<1>3. AttachedConsistent' /\ LeaderConsistent'
  BY DEF TypeOK, AttachedConsistent, LeaderConsistent, KeyOf, Over
<1>4. CacheHonest' /\ ProvenanceHonest' /\ AttemptsAreCharged'
  BY DEF CacheHonest, ProvenanceHonest, AttemptsAreCharged
<1>5. WorkIsWanted'
  BY DEF TypeOK, WorkIsWanted, Wanted, KeyOf
<1>6. QED
  BY <1>1, <1>2, <1>3, <1>4, <1>5

LEMMA LeadIInv ==
  ASSUME IInv, NEW r \in Runs, Lead(r)
  PROVE  IInv'
<1> USE DEF IInv, Lead, Goto, StartWork, budgets
<1>0. KeyOf(r) \in Backends /\ KeyOf(r)' = KeyOf(r)
  BY CandidatesAreBackends DEF KeyOf
<1>1. TypeOK'
  BY <1>0, CandidatesAreBackends DEF TypeOK, Waiting, Working
<1>2. WorkConsistent'
  BY DEF TypeOK, WorkConsistent
<1>3. AttachedConsistent'
  BY <1>0 DEF TypeOK, AttachedConsistent, KeyOf
<1>4. LeaderConsistent'
  BY <1>0 DEF TypeOK, LeaderConsistent, KeyOf, Over
<1>5. CacheHonest' /\ ProvenanceHonest' /\ AttemptsAreCharged'
  BY DEF CacheHonest, ProvenanceHonest, AttemptsAreCharged
<1>6. WorkIsWanted'
  <2> SUFFICES ASSUME NEW l \in Runs, work'[l] \in Working, run'[l] # "alone", l \notin deaf
               PROVE  leader'[KeyOf(l)] = l /\ attached'[KeyOf(l)] # {}
    BY DEF WorkIsWanted, Wanted, KeyOf
  <2>1. CASE l = r
    BY <1>0, <2>1 DEF TypeOK
  <2>2. CASE l # r
    <3>1. leader[KeyOf(l)] = l /\ attached[KeyOf(l)] # {}
      BY <2>2 DEF TypeOK, WorkIsWanted, Wanted
    <3>2. KeyOf(l) \in Backends /\ KeyOf(l) # KeyOf(r)
      BY <3>1, CandidatesAreBackends
    <3>3. QED
      BY <3>1, <3>2 DEF TypeOK
  <2>3. QED
    BY <2>1, <2>2
<1>7. QED
  BY <1>1, <1>2, <1>3, <1>4, <1>5, <1>6

LEMMA JoinIInv ==
  ASSUME IInv, NEW r \in Runs, Join(r)
  PROVE  IInv'
<1> USE DEF IInv, Join, Goto, filled, budgets
<1>0. KeyOf(r) \in Backends
  BY CandidatesAreBackends
<1>1. TypeOK'
  BY <1>0 DEF TypeOK, Waiting
<1>2. WorkConsistent'
  BY DEF WorkConsistent
<1>3. AttachedConsistent'
  BY <1>0 DEF TypeOK, AttachedConsistent, KeyOf
<1>4. LeaderConsistent'
  BY DEF TypeOK, LeaderConsistent, KeyOf, Over
<1>5. CacheHonest' /\ ProvenanceHonest' /\ AttemptsAreCharged'
  BY DEF CacheHonest, ProvenanceHonest, AttemptsAreCharged
<1>6. WorkIsWanted'
  BY SMTT(30), <1>0 DEF TypeOK, WorkIsWanted, Wanted, KeyOf
<1>7. QED
  BY <1>1, <1>2, <1>3, <1>4, <1>5, <1>6

-------------------------------------------------------------------------------
\* populate(): its steps leave flights, runs and answers alone.

\* Where work does not begin, flights and runs stay as they are and work is
\* still wanted.
LEMMA WorkStaysWanted ==
  ASSUME IInv, UNCHANGED <<flights, run>>,
         \A l \in Runs : work'[l] \in Working => work[l] \in Working
  PROVE  AttachedConsistent' /\ LeaderConsistent' /\ WorkIsWanted'
BY DEF IInv, flights, AttachedConsistent, LeaderConsistent, WorkIsWanted, Wanted, KeyOf

LEMMA StartAttemptIInv ==
  ASSUME IInv, NEW r \in Runs, NEW late \in BOOLEAN, StartAttempt(r, late)
  PROVE  IInv'
<1> USE DEF IInv, StartAttempt, EndWork, Charge, budgets
<1>1. TypeOK'
  <2>1. work' \in [Runs -> {"none", "cancelling", "ended"} \cup Working]
    <3>1. work \in [Runs -> {"none", "cancelling", "ended"} \cup Working]
      BY DEF TypeOK
    <3>2. \E v \in {"ended", "attempting"} : work' = [work EXCEPT ![r] = v]
      OBVIOUS
    <3>3. QED
      BY <3>1, <3>2 DEF Working
  <2>2. result' \in [Runs -> Backends \cup Causes \cup {Nobody}]
    BY DEF TypeOK, Causes
  <2>3. charged' \in [Runs -> Nat] /\ started' \in [Runs -> Nat]
    <3>1. charged \in [Runs -> Nat] /\ started \in [Runs -> Nat]
      BY DEF TypeOK
    <3>2. charged' = charged \/ charged' = [charged EXCEPT ![r] = @ + 1]
      OBVIOUS
    <3>3. started' = started \/ started' = [started EXCEPT ![r] = @ + 1]
      OBVIOUS
    <3>4. charged' \in [Runs -> Nat]
      BY <3>1, <3>2
    <3>5. started' \in [Runs -> Nat]
      BY <3>1, <3>3
    <3>6. QED
      BY <3>4, <3>5
  <2>4. UNCHANGED <<cache, attached, leader, deaf, run, attempt, open, answer>>
    BY DEF flights
  <2>5. QED
    BY <2>1, <2>2, <2>3, <2>4 DEF TypeOK
<1>2. WorkConsistent'
  BY SMTT(30) DEF TypeOK, WorkConsistent, Causes
<1>3. AttachedConsistent' /\ LeaderConsistent' /\ WorkIsWanted'
  <2>1. \A l \in Runs : work'[l] \in Working => work[l] \in Working
    BY DEF TypeOK, Working
  <2>2. QED
    BY <2>1, WorkStaysWanted
<1>4. CacheHonest' /\ ProvenanceHonest'
  BY DEF CacheHonest, ProvenanceHonest
<1>5. AttemptsAreCharged'
  <2>0. MaxBackends \in Nat /\ charged \in [Runs -> Nat] /\ started \in [Runs -> Nat]
    BY DEF TypeOK
  <2>1. CASE UNCHANGED budgets
    BY <2>1 DEF AttemptsAreCharged
  <2>2. CASE /\ charged[r] < MaxBackends
             /\ charged' = [charged EXCEPT ![r] = @ + 1]
             /\ \/ started' = [started EXCEPT ![r] = @ + 1]
                \/ started' = started
    BY <2>0, <2>2 DEF AttemptsAreCharged
  <2>3. QED
    BY <2>0, <2>1, <2>2
<1>6. QED
  BY <1>1, <1>2, <1>3, <1>4, <1>5

LEMMA AttemptSucceedsIInv ==
  ASSUME IInv, NEW r \in Runs, AttemptSucceeds(r)
  PROVE  IInv'
<1> USE DEF IInv, AttemptSucceeds, budgets
<1>0. RouteOf[r][attempt[r]] \in Backends
  BY CandidatesAreBackends DEF TypeOK
<1>1. TypeOK'
  BY <1>0 DEF TypeOK, Working, flights
<1>2. WorkConsistent'
  BY <1>0 DEF TypeOK, WorkConsistent
<1>3. AttachedConsistent' /\ LeaderConsistent' /\ WorkIsWanted'
  <2>1. \A l \in Runs : work'[l] \in Working => work[l] \in Working
    BY DEF TypeOK, Working
  <2>2. QED
    BY <2>1, WorkStaysWanted
<1>4. CacheHonest' /\ ProvenanceHonest' /\ AttemptsAreCharged'
  BY DEF CacheHonest, ProvenanceHonest, AttemptsAreCharged
<1>5. QED
  BY <1>1, <1>2, <1>3, <1>4

LEMMA AttemptExpiresIInv ==
  ASSUME IInv, NEW r \in Runs, AttemptExpires(r)
  PROVE  IInv'
<1> USE DEF IInv, AttemptExpires, budgets
<1>1. TypeOK'
  BY DEF TypeOK, Working, flights
<1>2. WorkConsistent'
  BY DEF TypeOK, WorkConsistent
<1>3. AttachedConsistent' /\ LeaderConsistent' /\ WorkIsWanted'
  <2>1. \A l \in Runs : work'[l] \in Working => work[l] \in Working
    BY DEF TypeOK, Working
  <2>2. QED
    BY <2>1, WorkStaysWanted
<1>4. CacheHonest' /\ ProvenanceHonest' /\ AttemptsAreCharged'
  BY DEF CacheHonest, ProvenanceHonest, AttemptsAreCharged
<1>5. QED
  BY <1>1, <1>2, <1>3, <1>4

LEMMA AttemptFailsIInv ==
  ASSUME IInv, NEW r \in Runs, NEW retryable \in BOOLEAN, AttemptFails(r, retryable)
  PROVE  IInv'
<1> USE DEF IInv, AttemptFails, EndWork, budgets
<1>1. TypeOK'
  <2>1. work' \in [Runs -> {"none", "cancelling", "ended"} \cup Working]
    <3>1. work \in [Runs -> {"none", "cancelling", "ended"} \cup Working]
      BY DEF TypeOK
    <3>2. \E v \in {"ended", "routing"} : work' = [work EXCEPT ![r] = v]
      OBVIOUS
    <3>3. QED
      BY <3>1, <3>2 DEF Working
  <2>2. result' \in [Runs -> Backends \cup Causes \cup {Nobody}]
    BY DEF TypeOK, Causes
  <2>3. /\ attempt' \in [Runs -> Nat]
        /\ \A q \in Runs : attempt'[q] \in 1 .. Len(RouteOf[q])
    <3>1. attempt \in [Runs -> Nat] /\ \A q \in Runs : attempt[q] \in 1 .. Len(RouteOf[q])
      BY DEF TypeOK
    <3>2. CASE UNCHANGED attempt
      BY <3>1, <3>2
    <3>3. CASE /\ attempt[r] < Len(RouteOf[r])
               /\ attempt' = [attempt EXCEPT ![r] = @ + 1]
      BY <3>1, <3>3, CandidatesAreBackends
    <3>4. QED
      BY <3>2, <3>3 DEF CanFallback
  <2>4. UNCHANGED <<cache, attached, leader, deaf, run, charged, started, open, answer>>
    BY DEF flights
  <2>5. QED
    BY <2>1, <2>2, <2>3, <2>4 DEF TypeOK
<1>2. WorkConsistent'
  BY DEF TypeOK, WorkConsistent, Causes
<1>3. AttachedConsistent' /\ LeaderConsistent' /\ WorkIsWanted'
  <2>1. \A l \in Runs : work'[l] \in Working => work[l] \in Working
    BY DEF TypeOK, Working
  <2>2. QED
    BY <2>1, WorkStaysWanted
<1>4. CacheHonest' /\ ProvenanceHonest' /\ AttemptsAreCharged'
  BY DEF CacheHonest, ProvenanceHonest, AttemptsAreCharged
<1>5. QED
  BY <1>1, <1>2, <1>3, <1>4

LEMMA StoreIInv ==
  ASSUME IInv, NEW r \in Runs, NEW kept \in BOOLEAN, Store(r, kept)
  PROVE  IInv'
<1> USE DEF IInv, Store, StoreKey, budgets
<1>0. result[r] \in Backends
  BY DEF WorkConsistent
<1>1. TypeOK'
  BY <1>0 DEF TypeOK, flights
<1>2. WorkConsistent'
  BY <1>0 DEF TypeOK, WorkConsistent
<1>3. AttachedConsistent' /\ LeaderConsistent' /\ WorkIsWanted'
  <2>1. \A l \in Runs : work'[l] \in Working => work[l] \in Working
    BY DEF TypeOK, Working
  <2>2. QED
    BY <2>1, WorkStaysWanted
<1>4. CacheHonest'
  <2>1. cache \in [Backends -> Backends \cup {Nobody}]
    BY DEF TypeOK
  <2>2. QED
    BY <1>0, <2>1 DEF CacheHonest
<1>5. ProvenanceHonest' /\ AttemptsAreCharged'
  BY DEF ProvenanceHonest, AttemptsAreCharged
<1>6. QED
  BY <1>1, <1>2, <1>3, <1>4, <1>5

LEMMA StoreFailsIInv ==
  ASSUME IInv, NEW r \in Runs, StoreFails(r)
  PROVE  IInv'
<1> USE DEF IInv, StoreFails, EndWork, budgets
<1>0. result[r] \in Backends
  BY DEF WorkConsistent
<1>1. TypeOK'
  BY <1>0 DEF TypeOK, Causes, flights
<1>2. WorkConsistent'
  BY <1>0 DEF TypeOK, WorkConsistent, Causes
<1>3. AttachedConsistent' /\ LeaderConsistent' /\ WorkIsWanted'
  <2>1. \A l \in Runs : work'[l] \in Working => work[l] \in Working
    BY DEF TypeOK, Working
  <2>2. QED
    BY <2>1, WorkStaysWanted
<1>4. CacheHonest' /\ ProvenanceHonest' /\ AttemptsAreCharged'
  BY DEF CacheHonest, ProvenanceHonest, AttemptsAreCharged
<1>5. QED
  BY <1>1, <1>2, <1>3, <1>4

LEMMA UnwindIInv ==
  ASSUME IInv, NEW r \in Runs, NEW stored \in BOOLEAN, Unwind(r, stored)
  PROVE  IInv'
<1> USE DEF IInv, Unwind, EndWork, StoreKey, budgets
<1>1. TypeOK'
  BY DEF TypeOK, Causes, flights
<1>2. WorkConsistent'
  BY DEF TypeOK, WorkConsistent, Causes
<1>3. AttachedConsistent' /\ LeaderConsistent' /\ WorkIsWanted'
  <2>1. \A l \in Runs : work'[l] \in Working => work[l] \in Working
    BY DEF TypeOK, Working
  <2>2. QED
    BY <2>1, WorkStaysWanted
<1>4. CacheHonest'
  <2>1. cache \in [Backends -> Backends \cup {Nobody}]
    BY DEF TypeOK
  <2>2. QED
    BY <2>1 DEF CacheHonest
<1>5. ProvenanceHonest' /\ AttemptsAreCharged'
  BY DEF ProvenanceHonest, AttemptsAreCharged
<1>6. QED
  BY <1>1, <1>2, <1>3, <1>4, <1>5

-------------------------------------------------------------------------------
\* Back in _perceive.

\* Who shares a flight knows its leader, who asked for the same key.
LEMMA SharingHasLeader ==
  ASSUME IInv, NEW r \in Runs, run[r] = "sharing"
  PROVE  /\ KeyOf(r) \in Backends
         /\ r \in attached[KeyOf(r)]
         /\ leader[KeyOf(r)] \in Runs
         /\ KeyOf(leader[KeyOf(r)]) = KeyOf(r)
BY CandidatesAreBackends DEF IInv, AttachedConsistent, LeaderConsistent

\* Whoever gives its share of a flight back goes on to the end, or to work alone
\* if it has not led the flight.
LEMMA DetachConsistent ==
  ASSUME IInv, NEW r \in Runs, run[r] = "sharing", Detach(r, KeyOf(r)),
         NEW p \in Over \cup {"alone"}, run' = [run EXCEPT ![r] = p],
         p = "alone" => leader[KeyOf(r)] # r
  PROVE  /\ attached' \in [Backends -> SUBSET Runs]
         /\ leader' \in [Backends -> Runs \cup {Nobody}]
         /\ run' \in [Runs -> {"idle"} \cup Waiting \cup Over]
         /\ AttachedConsistent' /\ LeaderConsistent'
<1> DEFINE k == KeyOf(r)
<1>1. /\ attached \in [Backends -> SUBSET Runs]
      /\ leader \in [Backends -> Runs \cup {Nobody}]
      /\ run \in [Runs -> {"idle"} \cup Waiting \cup Over]
  BY DEF IInv, TypeOK
<1>2. k \in Backends /\ p # "sharing"
  BY SharingHasLeader DEF Over
<1>3. /\ attached' \in [Backends -> SUBSET Runs]
      /\ leader' \in [Backends -> Runs \cup {Nobody}]
  BY <1>1, <1>2 DEF Detach
<1>4. run' \in [Runs -> {"idle"} \cup Waiting \cup Over]
  BY <1>1 DEF Waiting, Over
<1>5. AttachedConsistent'
  <2> SUFFICES ASSUME NEW q \in Backends
               PROVE  /\ attached'[q] = {x \in Runs : run'[x] = "sharing" /\ KeyOf(x) = q}
                      /\ attached'[q] # {} => leader'[q] \in Runs
    BY DEF AttachedConsistent, KeyOf
  <2>1. /\ attached[q] = {x \in Runs : run[x] = "sharing" /\ KeyOf(x) = q}
        /\ attached[q] # {} => leader[q] \in Runs
    BY DEF IInv, AttachedConsistent
  <2>2. attached'[q] = IF q = k THEN attached[q] \ {r} ELSE attached[q]
    BY <1>1, <1>2 DEF Detach
  <2>3. leader'[q] = IF q = k /\ attached[q] = {r} THEN Nobody ELSE leader[q]
    BY <1>1, <1>2 DEF Detach
  <2>4. \A x \in Runs : run'[x] = "sharing" <=> run[x] = "sharing" /\ x # r
    BY <1>1, <1>2
  <2>5. attached'[q] = {x \in Runs : run'[x] = "sharing" /\ KeyOf(x) = q}
    BY <2>1, <2>2, <2>4
  <2>6. QED
    BY <2>1, <2>2, <2>3, <2>5
<1>6. LeaderConsistent'
  <2> SUFFICES ASSUME NEW q \in Backends, leader'[q] \in Runs
               PROVE  /\ KeyOf(leader'[q]) = q
                      /\ run'[leader'[q]] \in {"sharing"} \cup Over
    BY DEF LeaderConsistent, KeyOf
  <2>1. leader'[q] = leader[q]
    BY <1>1, <1>2 DEF Detach
  <2>2. KeyOf(leader[q]) = q /\ run[leader[q]] \in {"sharing"} \cup Over
    BY <2>1 DEF IInv, LeaderConsistent
  <2>3. QED
    BY <1>1, <2>1, <2>2
<1>7. QED
  BY <1>3, <1>4, <1>5, <1>6

LEMMA ReceiveIInv ==
  ASSUME IInv, NEW r \in Runs, Receive(r)
  PROVE  IInv'
<1> DEFINE k == KeyOf(r)
           l == leader[k]
<1>1. /\ k \in Backends /\ r \in attached[k]
      /\ l \in Runs /\ KeyOf(l) = k
      /\ run[r] = "sharing" /\ work[l] = "ended" /\ Detach(r, k)
  BY SharingHasLeader DEF Receive, Told
<1>2. result[l] \in Backends \cup Causes
  BY <1>1 DEF IInv, WorkConsistent
<1>3. UNCHANGED <<cache, deaf, charged, started, open>>
  BY DEF Receive, budgets
<1>4. \/ /\ UNCHANGED <<work, attempt, result>>
         /\ \E p \in {"done", "failed"} : run' = [run EXCEPT ![r] = p]
         /\ \E a \in Answers : /\ a.ok => a.producer = a.credit
                               /\ answer' = [answer EXCEPT ![r] = a]
      \/ /\ l # r /\ StartWork(r)
         /\ run' = [run EXCEPT ![r] = "alone"] /\ UNCHANGED answer
  <2>1. CASE result[l] \notin Backends
    <3>1. Failure(result[l], l) \in Answers /\ ~ Failure(result[l], l).ok
      BY <1>1, <1>2, <2>1, AnswersTyped DEF Failure
    <3>2. QED
      BY <2>1, <3>1 DEF Receive, Answer, Goto, filled
  <2>2. CASE result[l] \in Backends /\ l = r
    <3> DEFINE a == Success(result[l], result[l], FALSE)
    <3>1. a \in Answers /\ a.producer = a.credit
      BY <2>2, AnswersTyped DEF Success
    <3>2. QED
      BY <2>2, <3>1 DEF Receive, Answer, Goto, filled
  <2>3. CASE result[l] \in Backends /\ l # r /\ Reproduces(r, l)
    <3> DEFINE a == Success(result[l], k, TRUE)
    <3>1. a \in Answers /\ a.producer = a.credit
      BY <1>1, <2>3, AnswersTyped DEF Success, Reproduces
    <3>2. QED
      BY <2>3, <3>1 DEF Receive, Answer, Goto, filled
  <2>4. CASE result[l] \in Backends /\ l # r /\ ~Reproduces(r, l)
    BY <2>4 DEF Receive, Goto
  <2>5. QED
    BY <2>1, <2>2, <2>3, <2>4
<1>5. PICK p \in Over \cup {"alone"} :
         /\ run' = [run EXCEPT ![r] = p]
         /\ p = "alone" => l # r /\ StartWork(r)
         /\ p # "alone" => work' = work /\ attempt' = attempt /\ result' = result
  BY <1>4 DEF Over
<1>6. /\ attached' \in [Backends -> SUBSET Runs]
      /\ leader' \in [Backends -> Runs \cup {Nobody}]
      /\ run' \in [Runs -> {"idle"} \cup Waiting \cup Over]
      /\ AttachedConsistent' /\ LeaderConsistent'
  BY <1>1, <1>5, DetachConsistent
<1>7. /\ work' \in [Runs -> {"none", "cancelling", "ended"} \cup Working]
      /\ attempt' \in [Runs -> Nat]
      /\ \A q \in Runs : attempt'[q] \in 1 .. Len(RouteOf[q])
      /\ result' \in [Runs -> Backends \cup Causes \cup {Nobody}]
  <2>1. CASE p = "alone"
    <3>1. /\ work \in [Runs -> {"none", "cancelling", "ended"} \cup Working]
          /\ attempt \in [Runs -> Nat]
          /\ \A q \in Runs : attempt[q] \in 1 .. Len(RouteOf[q])
          /\ result \in [Runs -> Backends \cup Causes \cup {Nobody}]
      BY DEF IInv, TypeOK
    <3>2. /\ work' = [work EXCEPT ![r] = "routing"]
          /\ attempt' = [attempt EXCEPT ![r] = 1]
          /\ result' = [result EXCEPT ![r] = Nobody]
      BY <1>5, <2>1 DEF StartWork
    <3>3. work' \in [Runs -> {"none", "cancelling", "ended"} \cup Working]
      BY <3>1, <3>2 DEF Working
    <3>4. attempt' \in [Runs -> Nat] /\ \A q \in Runs : attempt'[q] \in 1 .. Len(RouteOf[q])
      BY <3>1, <3>2, CandidatesAreBackends
    <3>5. result' \in [Runs -> Backends \cup Causes \cup {Nobody}]
      BY <3>1, <3>2
    <3>6. QED
      BY <3>3, <3>4, <3>5
  <2>2. CASE p # "alone"
    BY <1>5, <2>2 DEF IInv, TypeOK
  <2>3. QED
    BY <2>1, <2>2
<1>8. answer' \in [Runs -> Answers]
  <2>1. answer \in [Runs -> Answers]
    BY DEF IInv, TypeOK
  <2>2. \/ UNCHANGED answer
        \/ \E a \in Answers : answer' = [answer EXCEPT ![r] = a]
    BY <1>4
  <2>3. QED
    BY <2>1, <2>2
<1>9. TypeOK'
  BY <1>3, <1>6, <1>7, <1>8 DEF IInv, TypeOK
<1>10. WorkConsistent'
  <2>1. CASE p = "alone"
    BY <1>5, <2>1 DEF IInv, TypeOK, WorkConsistent, StartWork
  <2>2. CASE p # "alone"
    BY <1>5, <2>2 DEF IInv, WorkConsistent
  <2>3. QED
    BY <2>1, <2>2
<1>11. ProvenanceHonest'
  <2>1. answer \in [Runs -> Answers]
    BY DEF IInv, TypeOK
  <2>2. QED
    BY <1>4, <2>1 DEF IInv, ProvenanceHonest
<1>12. CacheHonest' /\ AttemptsAreCharged'
  BY <1>3 DEF IInv, CacheHonest, AttemptsAreCharged
<1>13. WorkIsWanted'
  <2> SUFFICES ASSUME NEW m \in Runs, work'[m] \in Working, run'[m] # "alone", m \notin deaf
               PROVE  leader'[KeyOf(m)] = m /\ attached'[KeyOf(m)] # {}
    BY <1>3 DEF WorkIsWanted, Wanted, KeyOf
  <2>1. /\ attached \in [Backends -> SUBSET Runs]
        /\ leader \in [Backends -> Runs \cup {Nobody}]
        /\ run \in [Runs -> {"idle"} \cup Waiting \cup Over]
        /\ work \in [Runs -> {"none", "cancelling", "ended"} \cup Working]
    BY DEF IInv, TypeOK
  <2>2. work[m] \in Working /\ run[m] # "alone"
    BY <1>1, <1>5, <2>1 DEF StartWork
  <2>3. leader[KeyOf(m)] = m /\ attached[KeyOf(m)] # {}
    BY <2>2 DEF IInv, WorkIsWanted, Wanted
  <2>4. KeyOf(m) # k
    BY <1>1, <2>2, <2>3 DEF Working
  <2>5. QED
    BY <2>1, <2>3, <2>4 , <1>1, CandidatesAreBackends DEF Detach
<1>14. QED
  BY <1>6, <1>9, <1>10, <1>11, <1>12, <1>13 DEF IInv

LEMMA ReceiveOwnIInv ==
  ASSUME IInv, NEW r \in Runs, ReceiveOwn(r)
  PROVE  IInv'
<1> USE DEF IInv, flights, filled, budgets
<1>1. /\ run[r] = "alone" /\ work[r] = "ended"
      /\ result[r] \in Backends \cup Causes
  BY DEF ReceiveOwn, WorkConsistent
<1>2. PICK p \in {"done", "failed"} : run' = [run EXCEPT ![r] = p]
  BY DEF ReceiveOwn, Goto
<1>3. PICK a \in Answers : /\ a.ok => a.producer = a.credit
                           /\ answer' = [answer EXCEPT ![r] = a]
  <2>1. CASE result[r] \in Backends
    <3> DEFINE a == Success(result[r], result[r], FALSE)
    <3>1. a \in Answers /\ a.producer = a.credit
      BY <2>1, AnswersTyped DEF Success
    <3>2. QED
      BY <2>1, <3>1 DEF ReceiveOwn, Answer
  <2>2. CASE result[r] \notin Backends
    <3>1. Failure(result[r], r) \in Answers /\ ~ Failure(result[r], r).ok
      BY <1>1, <2>2, AnswersTyped DEF Failure
    <3>2. QED
      BY <2>2, <3>1 DEF ReceiveOwn, Answer
  <2>3. QED
    BY <2>1, <2>2
<1>4. UNCHANGED <<cache, attached, leader, deaf, work, attempt, result, charged, started, open>>
  BY DEF ReceiveOwn
<1>5. TypeOK'
  BY <1>2, <1>3, <1>4 DEF TypeOK, Over
<1>6. WorkConsistent'
  BY <1>4 DEF WorkConsistent
<1>7. AttachedConsistent' /\ LeaderConsistent'
  BY <1>1, <1>2, <1>4 DEF TypeOK, AttachedConsistent, LeaderConsistent, KeyOf, Over
<1>8. ProvenanceHonest'
  <2>1. answer \in [Runs -> Answers]
    BY DEF TypeOK
  <2>2. QED
    BY <1>3, <2>1 DEF ProvenanceHonest
<1>9. CacheHonest' /\ AttemptsAreCharged'
  BY <1>4 DEF CacheHonest, AttemptsAreCharged
<1>10. WorkIsWanted'
  BY <1>1, <1>2, <1>4 DEF TypeOK, WorkIsWanted, Wanted, KeyOf, Working
<1>11. QED
  BY <1>5, <1>6, <1>7, <1>8, <1>9, <1>10

LEMMA FinalizeTraceIInv ==
  ASSUME IInv, NEW r \in Runs, FinalizeTrace(r)
  PROVE  IInv'
<1> USE DEF IInv, FinalizeTrace, flights, filled, budgets
<1>1. TypeOK'
  BY DEF TypeOK
<1>2. WorkConsistent' /\ CacheHonest' /\ ProvenanceHonest' /\ AttemptsAreCharged'
  BY DEF WorkConsistent, CacheHonest, ProvenanceHonest, AttemptsAreCharged
<1>3. AttachedConsistent' /\ LeaderConsistent' /\ WorkIsWanted'
  BY DEF AttachedConsistent, LeaderConsistent, WorkIsWanted, Wanted, KeyOf
<1>4. QED
  BY <1>1, <1>2, <1>3

LEMMA LeaveIInv ==
  ASSUME IInv, NEW r \in Runs, Leave(r)
  PROVE  IInv'
<1>1. /\ run[r] \in Waiting
      /\ work' = [l \in Runs |-> IF l \in Abandoned(r) /\ work[l] # "expiring"
                                THEN "cancelling" ELSE work[l]]
      /\ deaf' = deaf \cup {l \in Abandoned(r) : work[l] = "expiring"}
      /\ UNCHANGED <<cache, attempt, result, charged, started, open, answer>>
  BY DEF Leave, budgets
<1>2. /\ attached \in [Backends -> SUBSET Runs]
      /\ leader \in [Backends -> Runs \cup {Nobody}]
      /\ run \in [Runs -> {"idle"} \cup Waiting \cup Over]
      /\ work \in [Runs -> {"none", "cancelling", "ended"} \cup Working]
  BY DEF IInv, TypeOK
<1>3. \A l \in Runs : work'[l] # work[l] => work'[l] = "cancelling"
  BY <1>1, <1>2
<1>4. /\ attached' \in [Backends -> SUBSET Runs]
      /\ leader' \in [Backends -> Runs \cup {Nobody}]
      /\ run' \in [Runs -> {"idle"} \cup Waiting \cup Over]
      /\ AttachedConsistent' /\ LeaderConsistent'
  <2>1. CASE run[r] = "sharing"
    <3>1. run' = [run EXCEPT ![r] = "left"] /\ Detach(r, KeyOf(r)) /\ "left" \in Over
      BY <2>1 DEF Leave, Goto, Over
    <3>2. QED
      BY <2>1, <3>1, DetachConsistent
  <2>2. CASE run[r] # "sharing"
    <3>1. attached' = attached /\ leader' = leader
      BY <2>2 DEF Leave, flights
    <3>2. run' = run \/ run' = [run EXCEPT ![r] = "left"]
      BY DEF Leave, Goto
    <3>3. \A x \in Runs : /\ run'[x] = "sharing" <=> run[x] = "sharing"
                          /\ run'[x] \in Over \/ run'[x] = run[x]
      BY <1>2, <2>2, <3>2 DEF Over
    <3>4. run' \in [Runs -> {"idle"} \cup Waiting \cup Over]
      BY <1>2, <3>2 DEF Waiting, Over
    <3>5. AttachedConsistent'
      BY <3>1, <3>3 DEF IInv, AttachedConsistent, KeyOf
    <3>6. LeaderConsistent'
      BY <3>1, <3>3 DEF IInv, LeaderConsistent, KeyOf
    <3>7. QED
      BY <1>2, <3>1, <3>4, <3>5, <3>6
  <2>3. QED
    BY <2>1, <2>2
<1>5. TypeOK'
  <2>1. work' \in [Runs -> {"none", "cancelling", "ended"} \cup Working]
    BY <1>1, <1>2
  <2>2. deaf' \subseteq Runs
    BY <1>1 DEF IInv, TypeOK, Abandoned
  <2>3. QED
    BY <1>1, <1>4, <2>1, <2>2 DEF IInv, TypeOK
<1>6. WorkConsistent'
  BY <1>1, <1>3 DEF IInv, WorkConsistent
<1>7. CacheHonest' /\ ProvenanceHonest' /\ AttemptsAreCharged'
  BY <1>1 DEF IInv, CacheHonest, ProvenanceHonest, AttemptsAreCharged
<1>8. WorkIsWanted'
  <2> SUFFICES ASSUME NEW m \in Runs, work'[m] \in Working, run'[m] # "alone", m \notin deaf'
               PROVE  leader'[KeyOf(m)] = m /\ attached'[KeyOf(m)] # {}
    BY DEF WorkIsWanted, Wanted, KeyOf
  <2>1. work[m] \in Working /\ m \notin Abandoned(r) /\ m \notin deaf
    BY <1>1 DEF Working
  <2>2. run[m] # "alone"
    <3>1. CASE m = r
      BY <1>2, <2>1, <3>1 DEF Abandoned
    <3>2. CASE m # r
      BY <1>2, <3>2 DEF Leave, Goto
    <3>3. QED
      BY <3>1, <3>2
  <2>3. leader[KeyOf(m)] = m /\ attached[KeyOf(m)] # {} /\ KeyOf(m) \in Backends
    BY <2>1, <2>2, CandidatesAreBackends DEF IInv, WorkIsWanted, Wanted
  <2>4. CASE run[r] = "sharing"
    <3>1. Detach(r, KeyOf(r)) /\ KeyOf(r) \in Backends
      BY <2>4, CandidatesAreBackends DEF Leave
    <3>2. CASE KeyOf(m) = KeyOf(r)
      <4>1. attached[KeyOf(r)] # {r}
        BY <2>1, <2>3, <2>4, <3>2 DEF Abandoned
      <4>2. QED
        BY <1>2, <2>3, <3>1, <3>2, <4>1 DEF Detach
    <3>3. CASE KeyOf(m) # KeyOf(r)
      BY <1>2, <2>3, <3>1, <3>3 DEF Detach
    <3>4. QED
      BY <3>2, <3>3
  <2>5. CASE run[r] # "sharing"
    BY <2>3, <2>5 DEF Leave, flights
  <2>6. QED
    BY <2>4, <2>5
<1>9. QED
  BY <1>4, <1>5, <1>6, <1>7, <1>8 DEF IInv

-------------------------------------------------------------------------------
\* The invariant holds in every reachable state.
THEOREM Inductive == Spec => []IInv
<1>1. IInv /\ [Next]_vars => IInv'
  <2> SUFFICES ASSUME IInv, [Next]_vars PROVE IInv'
    OBVIOUS
  <2>1. CASE UNCHANGED vars
    BY <2>1 DEF vars, IInv, TypeOK, WorkConsistent, AttachedConsistent,
       LeaderConsistent, CacheHonest, ProvenanceHonest, AttemptsAreCharged,
       WorkIsWanted, Wanted, KeyOf
  <2>2. ASSUME NEW r \in Runs, RunStep(r) PROVE IInv'
    BY <2>2, CacheHitIInv, CacheMissIInv, LeadIInv, JoinIInv, ReceiveIInv,
       ReceiveOwnIInv DEF RunStep
  <2>3. ASSUME NEW r \in Runs, WorkStep(r) PROVE IInv'
    BY <2>3, StartAttemptIInv, AttemptFailsIInv, AttemptExpiresIInv, AttemptSucceedsIInv,
       StoreFailsIInv, StoreIInv, UnwindIInv DEF WorkStep
  <2>4. ASSUME NEW r \in Runs, Begin(r) \/ Leave(r) \/ FinalizeTrace(r) PROVE IInv'
    BY <2>4, BeginIInv, LeaveIInv, FinalizeTraceIInv
  <2>5. QED
    BY <2>1, <2>2, <2>3, <2>4 DEF Next
<1>2. QED
  BY <1>1, InitIInv, PTL DEF Spec

\* Every variable keeps its type.
THEOREM TypeCorrect == Spec => []TypeOK
BY Inductive, PTL DEF IInv

\* The backend that a run's provenance credits is the one that produced what
\* the run got, whatever fell back, was shared or came from the cache.
THEOREM AttributionIsHonest == Spec => []ProvenanceHonest
BY Inductive, PTL DEF IInv

\* No fallback of any run files its bytes under another backend's key.
THEOREM CacheIsHonest == Spec => []CacheHonest
BY Inductive, PTL DEF IInv

\* Every backend call was reserved on a budget that had room for it.
THEOREM AttemptsArePaid == Spec => []AttemptsAreCharged
BY Inductive, PTL DEF IInv

\* A population works only while some run waits for it, or after the cancellation that
\* should have ended it fell into the clean-up of an expired attempt.
THEOREM UnwantedWorkStops == Spec => []WorkIsWanted
BY Inductive, PTL DEF IInv

\* What runs get and what the cache keeps is credited to its producer, for any runs, backends
\* and routes.
THEOREM AnswersHonest == Spec => []AnswersAreHonest
<1>1. TypeOK /\ ProvenanceHonest /\ CacheHonest => AnswersAreHonest
  BY DEF AnswersAreHonest
<1>2. QED
  BY <1>1, TypeCorrect, AttributionIsHonest, CacheIsHonest, PTL

\* Every backend call is paid for, and somebody waits for it unless the router suppressed
\* the cancellation of its population.
THEOREM WorkPaidAndWanted == Spec => []WorkIsPaidAndWanted
<1>1. AttemptsAreCharged /\ WorkIsWanted => WorkIsPaidAndWanted
  BY DEF WorkIsPaidAndWanted
<1>2. QED
  BY <1>1, AttemptsArePaid, UnwantedWorkStops, PTL

-------------------------------------------------------------------------------
\* The runs' use of flights implements SharedWork.

\* What neither attaches nor detaches anybody, nor ends a leader's population,
\* is no step of the shared work.
LEMMA InvisibleSteps ==
  ASSUME attached' = attached, leader' = leader,
         \A k \in Backends : attached[k] # {} =>
           (work'[leader[k]] \in Working <=> work[leader[k]] \in Working)
  PROVE  UNCHANGED Flights!vars
<1>1. FlightWork' = FlightWork
  BY DEF FlightWork
<1>2. QED
  BY <1>1 DEF Flights!vars

LEMMA LeadAttaches ==
  ASSUME IInv, NEW r \in Runs, Lead(r)
  PROVE  Flights!Attach(r, KeyOf(r))
<1> DEFINE k == KeyOf(r)
<1>1. /\ attached \in [Backends -> SUBSET Runs] /\ leader \in [Backends -> Runs \cup {Nobody}]
      /\ work \in [Runs -> {"none", "cancelling", "ended"} \cup Working]
  BY DEF IInv, TypeOK
<1>2. k \in Backends /\ run[r] = "missed" /\ attached[k] = {}
  BY CandidatesAreBackends DEF Lead
<1>3. \A q \in Backends : r \notin attached[q]
  BY <1>2 DEF IInv, AttachedConsistent
<1>4. attached' = [attached EXCEPT ![k] = @ \cup {r}]
  BY <1>1, <1>2 DEF Lead
<1>5. FlightWork' = [FlightWork EXCEPT ![k] = IF @ = "none" THEN "underway" ELSE @]
  <2>1. FlightWork[k] = "none" /\ FlightWork'[k] = "underway"
    <3>1. attached'[k] # {} /\ leader'[k] = r /\ work'[r] = "routing"
      BY <1>1, <1>2 DEF Lead, StartWork
    <3>2. QED
      BY <1>2, <3>1 DEF FlightWork, Working
  <2>2. \A q \in Backends \ {k} : FlightWork'[q] = FlightWork[q]
    <3> SUFFICES ASSUME NEW q \in Backends, q # k, attached[q] # {}
                 PROVE  /\ attached'[q] = attached[q] /\ leader'[q] = leader[q]
                        /\ work'[leader[q]] = work[leader[q]]
      BY <1>1, <1>2 DEF FlightWork, Lead
    <3>1. leader[q] \in Runs /\ leader[q] # r
      BY DEF IInv, AttachedConsistent, LeaderConsistent
    <3>2. QED
      BY <1>1, <1>2, <3>1 DEF Lead, StartWork
  <2>3. DOMAIN FlightWork = Backends /\ DOMAIN FlightWork' = Backends
    BY DEF FlightWork
  <2>4. QED
    BY <1>2, <2>1, <2>2 DEF FlightWork
<1>6. QED
  BY <1>3, <1>4, <1>5 DEF Flights!Attach

LEMMA JoinAttaches ==
  ASSUME IInv, NEW r \in Runs, Join(r)
  PROVE  Flights!Attach(r, KeyOf(r))
<1> DEFINE k == KeyOf(r)
<1>1. attached \in [Backends -> SUBSET Runs]
  BY DEF IInv, TypeOK
<1>2. k \in Backends /\ run[r] = "missed" /\ attached[k] # {}
  BY CandidatesAreBackends DEF Join
<1>3. \A q \in Backends : r \notin attached[q]
  BY <1>2 DEF IInv, AttachedConsistent
<1>4. /\ attached' = [attached EXCEPT ![k] = @ \cup {r}]
      /\ leader' = leader /\ work' = work
  BY DEF Join, filled
<1>5. FlightWork' = [FlightWork EXCEPT ![k] = IF @ = "none" THEN "underway" ELSE @]
  <2>1. FlightWork[k] # "none" /\ FlightWork'[k] = FlightWork[k]
    BY <1>1, <1>2, <1>4 DEF FlightWork
  <2>2. \A q \in Backends \ {k} : FlightWork'[q] = FlightWork[q]
    BY <1>1, <1>2, <1>4 DEF FlightWork
  <2>3. QED
    BY <1>2, <2>1, <2>2 DEF FlightWork
<1>6. QED
  BY <1>3, <1>4, <1>5 DEF Flights!Attach

\* A population that goes on is invisible; one that ends settles the flight it
\* was started for, if that is still there.
LEMMA WorkImplements ==
  ASSUME IInv, NEW r \in Runs, UNCHANGED flights,
         NEW v \in {"cancelling", "ended"} \cup Working, work' = [work EXCEPT ![r] = v],
         v \in Working => work[r] \in Working
  PROVE  Flights!Next \/ UNCHANGED Flights!vars
<1> DEFINE k == KeyOf(r)
<1>1. /\ attached \in [Backends -> SUBSET Runs] /\ leader \in [Backends -> Runs \cup {Nobody}]
      /\ work \in [Runs -> {"none", "cancelling", "ended"} \cup Working]
      /\ k \in Backends /\ attached' = attached /\ leader' = leader
  BY CandidatesAreBackends DEF IInv, TypeOK, flights
<1>2. \A q \in Backends : attached[q] # {} => leader[q] \in Runs /\ (leader[q] = r => q = k)
  BY DEF IInv, AttachedConsistent, LeaderConsistent
<1>3. CASE attached[k] # {} /\ leader[k] = r /\ work[r] \in Working /\ v \notin Working
  <2>1. FlightWork[k] = "underway" /\ FlightWork'[k] = "known"
    BY <1>1, <1>3 DEF FlightWork
  <2>2. \A q \in Backends \ {k} : FlightWork'[q] = FlightWork[q]
    BY <1>1, <1>2 DEF FlightWork
  <2>3. FlightWork' = [FlightWork EXCEPT ![k] = "known"]
    BY <1>1, <2>1, <2>2 DEF FlightWork
  <2>4. Flights!Settle(k)
    BY <1>1, <2>1, <2>3 DEF Flights!Settle
  <2>5. QED
    BY <1>1, <2>4 DEF Flights!Next
<1>4. CASE ~(attached[k] # {} /\ leader[k] = r /\ work[r] \in Working /\ v \notin Working)
  <2>1. \A q \in Backends : attached[q] # {} =>
          (work'[leader[q]] \in Working <=> work[leader[q]] \in Working)
    BY <1>1, <1>2, <1>4
  <2>2. QED
    BY <1>1, <2>1, InvisibleSteps
<1>5. QED
  BY <1>3, <1>4

\* Who gives its share back detaches, whatever becomes of work that no flight
\* which others still hold waits for.
LEMMA DetachImplements ==
  ASSUME IInv, NEW r \in Runs, run[r] = "sharing", Detach(r, KeyOf(r)),
         \A q \in Backends : attached[q] # {} /\ attached[q] # {r} =>
           (work'[leader[q]] \in Working <=> work[leader[q]] \in Working)
  PROVE  Flights!Next
<1> DEFINE k == KeyOf(r)
<1>1. /\ attached \in [Backends -> SUBSET Runs] /\ leader \in [Backends -> Runs \cup {Nobody}]
      /\ k \in Backends /\ r \in attached[k]
  BY SharingHasLeader DEF IInv, TypeOK
<1>2. /\ attached' = [attached EXCEPT ![k] = @ \ {r}]
      /\ leader' = [leader EXCEPT ![k] = IF attached[k] = {r} THEN Nobody ELSE @]
  BY DEF Detach
<1>3. \A q \in Backends \ {k} : r \notin attached[q]
  BY DEF IInv, AttachedConsistent
<1>4. FlightWork'[k] = IF attached[k] = {r} THEN "none" ELSE FlightWork[k]
  <2>1. CASE attached[k] = {r}
    BY <1>1, <1>2, <2>1 DEF FlightWork
  <2>2. CASE attached[k] # {r}
    <3>1. attached'[k] # {} /\ leader'[k] = leader[k]
      BY <1>1, <1>2, <2>2
    <3>2. QED
      BY <1>1, <2>2, <3>1 DEF FlightWork
  <2>3. QED
    BY <2>1, <2>2
<1>5. \A q \in Backends \ {k} : FlightWork'[q] = FlightWork[q]
  <2> SUFFICES ASSUME NEW q \in Backends, q # k PROVE FlightWork'[q] = FlightWork[q]
    OBVIOUS
  <2>1. attached'[q] = attached[q] /\ leader'[q] = leader[q] /\ attached[q] # {r}
    BY <1>1, <1>2, <1>3
  <2>2. QED
    BY <2>1 DEF FlightWork
<1>6. FlightWork' = [FlightWork EXCEPT ![k] = IF attached[k] = {r} THEN "none" ELSE @]
  <2>1. /\ FlightWork = [q \in Backends |-> FlightWork[q]]
        /\ FlightWork' = [q \in Backends |-> FlightWork'[q]]
    BY DEF FlightWork
  <2> HIDE DEF k
  <2>2. QED
    BY <1>1, <1>4, <1>5, <2>1
<1>7. Flights!Detach(r, k)
  BY <1>1, <1>2, <1>6 DEF Flights!Detach
<1>8. QED
  BY <1>1, <1>7 DEF Flights!Next

LEMMA ReceiveDetaches ==
  ASSUME IInv, NEW r \in Runs, Receive(r)
  PROVE  Flights!Next
<1>1. run[r] = "sharing" /\ Detach(r, KeyOf(r)) /\ work[leader[KeyOf(r)]] = "ended"
  BY DEF Receive, Told
<1>2. work' = work \/ (leader[KeyOf(r)] # r /\ work' = [work EXCEPT ![r] = "routing"])
  BY DEF Receive, StartWork, filled
<1>3. \A q \in Backends : attached[q] # {} =>
        (work'[leader[q]] \in Working <=> work[leader[q]] \in Working)
  <2> SUFFICES ASSUME NEW q \in Backends, attached[q] # {}
               PROVE  work'[leader[q]] = work[leader[q]]
    OBVIOUS
  <2>1. leader[q] \in Runs /\ KeyOf(leader[q]) = q
    BY DEF IInv, AttachedConsistent, LeaderConsistent
  <2>2. work \in [Runs -> {"none", "cancelling", "ended"} \cup Working]
    BY DEF IInv, TypeOK
  <2>3. QED
    BY <1>2, <2>1, <2>2
<1>4. QED
  BY <1>1, <1>3, DetachImplements

LEMMA LeaveImplements ==
  ASSUME IInv, NEW r \in Runs, Leave(r)
  PROVE  Flights!Next \/ UNCHANGED Flights!vars
<1>1. \A q \in Backends : attached[q] # {} /\ attached[q] # {r} =>
        (work'[leader[q]] \in Working <=> work[leader[q]] \in Working)
  <2> SUFFICES ASSUME NEW q \in Backends, attached[q] # {}, attached[q] # {r}
               PROVE  work'[leader[q]] = work[leader[q]]
    OBVIOUS
  <2>1. /\ leader[q] \in Runs /\ KeyOf(leader[q]) = q
        /\ run[leader[q]] # "alone"
    BY DEF IInv, AttachedConsistent, LeaderConsistent, Over
  <2>2. leader[q] \notin Abandoned(r)
    <3>1. run[r] = "sharing" => KeyOf(leader[KeyOf(r)]) = KeyOf(r)
      BY SharingHasLeader
    <3>2. QED
      BY <2>1, <3>1 DEF Abandoned
  <2>3. QED
    BY <2>1, <2>2 DEF Leave
<1>2. CASE run[r] = "sharing"
  BY <1>1, <1>2, DetachImplements DEF Leave
<1>3. CASE run[r] # "sharing"
  <2>1. attached' = attached /\ leader' = leader
    BY <1>3 DEF Leave, flights
  <2>2. \A q \in Backends : attached[q] # {r}
    BY <1>3 DEF IInv, AttachedConsistent
  <2>3. QED
    BY <1>1, <2>1, <2>2, InvisibleSteps
<1>4. QED
  BY <1>2, <1>3

LEMMA NextImplements == IInv /\ [Next]_vars => [Flights!Next]_(Flights!vars)
<1> SUFFICES ASSUME IInv, [Next]_vars
             PROVE  Flights!Next \/ UNCHANGED Flights!vars
  OBVIOUS
<1>1. ASSUME NEW r \in Runs, Lead(r) \/ Join(r)
      PROVE  Flights!Next
  BY <1>1, LeadAttaches, JoinAttaches, CandidatesAreBackends DEF Flights!Next
<1>2. ASSUME NEW r \in Runs, WorkStep(r)
      PROVE  Flights!Next \/ UNCHANGED Flights!vars
  <2>1. /\ UNCHANGED flights
        /\ \E v \in {"cancelling", "ended"} \cup Working :
             work' = [work EXCEPT ![r] = v] /\ (v \in Working => work[r] \in Working)
    <3>1. CASE \E late \in BOOLEAN : StartAttempt(r, late)
      BY <3>1 DEF StartAttempt, EndWork, Working
    <3>2. CASE \E retryable \in BOOLEAN : AttemptFails(r, retryable)
      BY <3>2 DEF AttemptFails, EndWork, Working
    <3>3. CASE AttemptSucceeds(r) \/ AttemptExpires(r) \/ StoreFails(r)
      BY <3>3 DEF AttemptSucceeds, AttemptExpires, StoreFails, EndWork, Working
    <3>4. CASE \E kept \in BOOLEAN : Store(r, kept) \/ Unwind(r, kept)
      BY <3>4 DEF Store, Unwind, EndWork, Working
    <3>5. QED
      BY <1>2, <3>1, <3>2, <3>3, <3>4 DEF WorkStep
  <2>2. QED
    BY <2>1, WorkImplements
<1>3. ASSUME NEW r \in Runs, Receive(r)
      PROVE  Flights!Next
  BY <1>3, ReceiveDetaches
<1>4. ASSUME NEW r \in Runs, Leave(r)
      PROVE  Flights!Next \/ UNCHANGED Flights!vars
  BY <1>4, LeaveImplements
<1>5. ASSUME NEW r \in Runs,
             Begin(r) \/ CacheHit(r) \/ CacheMiss(r) \/ ReceiveOwn(r) \/ FinalizeTrace(r)
      PROVE  UNCHANGED Flights!vars
  <2>1. attached' = attached /\ leader' = leader /\ work' = work
    BY <1>5 DEF Begin, CacheHit, CacheMiss, ReceiveOwn, FinalizeTrace, flights, filled
  <2>2. QED
    BY <2>1, InvisibleSteps
<1>6. CASE UNCHANGED vars
  BY <1>6, InvisibleSteps DEF vars
<1>7. QED
  BY <1>1, <1>2, <1>3, <1>4, <1>5, <1>6 DEF Next, RunStep

LEMMA InitImplements == Init => Flights!Init
BY DEF Init, Flights!Init, FlightWork

\* However runs lead, follow, fall back and leave, each key's flight behaves as
\* the coordinator's contract says.
THEOREM FlightsAreShared == Spec => UsesSharedWork
<1>1. Init => Flights!Init
  BY InitImplements
<1>2. IInv /\ [Next]_vars => [Flights!Next]_(Flights!vars)
  BY NextImplements
<1>3. QED
  BY <1>1, <1>2, Inductive, PTL DEF Spec, UsesSharedWork, Flights!Spec


-----------------------------------------------------------------------------
(* A session: what its stores hold and what its operations report.          *)

HIDE RouteAssumption

\* The stores of a session: an identifier is a prefix of its image's digest, the two
\* dictionaries are inverse to each other, and a derived asset is one level below its parent.
StoreOK(rec, fil) ==
  /\ IsFiniteSet(DOMAIN rec)
  /\ \A a \in DOMAIN rec :
       /\ rec[a].digest \in Digests /\ rec[a].depth \in Nat
       /\ \E n \in ShortId..Len(Root) : a = SubSeq(rec[a].digest, 1, n)
       /\ rec[a].digest \in DOMAIN fil /\ fil[rec[a].digest] = a
  /\ \A d \in DOMAIN fil : fil[d] \in DOMAIN rec /\ rec[fil[d]].digest = d
  /\ \A a \in DOMAIN rec \ {RootId} :
       rec[a].parent \in DOMAIN rec /\ rec[a].depth = rec[rec[a].parent].depth + 1

-----------------------------------------------------------------------------
\* A set of numbers that is not empty has a least one.
LEMMA LeastNumber ==
  ASSUME NEW U \in SUBSET Nat, U # {}
  PROVE  \E n \in U : \A m \in U : n <= m
<1> DEFINE R == OpToRel(<, Nat)
<1>1. IsWellFoundedOn(R, Nat)
  BY NatLessThanWellFounded
<1>2. \A m, p \in Nat : m < p => <<m, p>> \in R
  BY DEF OpToRel
<1> HIDE DEF R
<1>3. PICK n \in U : \A m \in U : ~ (<<m, n>> \in R)
  BY <1>1, WFMin
<1>4. ASSUME NEW m \in U PROVE n <= m
  <2>1. m \in Nat /\ n \in Nat
    OBVIOUS
  <2>2. ~(m < n)
    BY <1>2, <1>3, <2>1
  <2>3. QED
    BY <2>1, <2>2
<1>5. QED
  BY <1>4

\* Induction over the numbers, for a set of them.
LEMMA EvidenceInduction ==
  ASSUME NEW T, 0 \in T, \A n \in Nat : n \in T => n + 1 \in T
  PROVE  Nat \subseteq T
<1> SUFFICES ASSUME Nat \ T # {} PROVE FALSE
  OBVIOUS
<1>1. PICK n \in Nat \ T : \A m \in Nat \ T : n <= m
  BY LeastNumber
<1>2. n # 0 /\ n - 1 \in Nat /\ (n - 1) + 1 = n /\ ~(n <= n - 1)
  BY <1>1
<1>3. n - 1 \in T
  BY <1>1, <1>2
<1>4. QED
  BY <1>1, <1>2, <1>3

\* The beginning of a digest, up to all of it.
LEMMA PrefixFacts ==
  ASSUME AssetAssumption, NEW d \in Digests, NEW n \in ShortId..Len(Root)
  PROVE  /\ SubSeq(d, 1, n) \in Seq(Nat) /\ Len(SubSeq(d, 1, n)) = n /\ n \in Nat
         /\ n = Len(d) => SubSeq(d, 1, n) = d
<1>1. /\ d \in Seq(Nat) /\ Len(d) = Len(Root) /\ ShortId \in 1..Len(Root) /\ Root \in Seq(Nat)
  BY DEF AssetAssumption
<1>2. Len(Root) \in Nat /\ Len(d) \in Nat /\ n \in Int /\ 1 <= n /\ n <= Len(d)
  BY <1>1, LenProperties
<1>3. \A i \in 1..n : d[i] \in Nat
  BY <1>1, <1>2, ElementOfSeq
<1>4. SubSeq(d, 1, n) \in Seq(Nat) /\ Len(SubSeq(d, 1, n)) = n
  BY <1>2, <1>3, SubSeqProperties
<1>5. n = Len(d) => SubSeq(d, 1, n) = d
  BY <1>1, SubSeqFull
<1>6. QED
  BY <1>2, <1>4, <1>5

\* A digest that is not filed has a prefix that is no identifier yet: at the latest itself.
LEMMA AllocatedIsFree ==
  ASSUME AssetAssumption, NEW rec, NEW fil, StoreOK(rec, fil),
         NEW d \in Digests, d \notin DOMAIN fil
  PROVE  /\ AllocateId(d, rec) \notin DOMAIN rec
         /\ \E n \in ShortId..Len(Root) : AllocateId(d, rec) = SubSeq(d, 1, n)
<1> DEFINE free(n) == SubSeq(d, 1, n) \notin DOMAIN rec \/ rec[SubSeq(d, 1, n)].digest = d
           least(n) == free(n) /\ \A m \in ShortId..(n - 1) : ~free(m)
           length == CHOOSE n \in ShortId..Len(d) : least(n)
           U == {n \in ShortId..Len(d) : free(n)}
<1>1. /\ d \in Seq(Nat) /\ Len(d) = Len(Root) /\ ShortId \in 1..Len(Root) /\ Len(Root) \in Nat
  BY LenProperties DEF AssetAssumption
<1>2. \A a \in DOMAIN rec : rec[a].digest # d
  BY DEF StoreOK
<1>3. Len(d) \in U
  <2>1. Len(d) \in ShortId..Len(d) /\ Len(d) \in ShortId..Len(Root)
    BY <1>1
  <2>2. SubSeq(d, 1, Len(d)) = d
    BY <2>1, PrefixFacts
  <2>3. ASSUME d \in DOMAIN rec PROVE FALSE
    <3>1. PICK m \in ShortId..Len(Root) : d = SubSeq(rec[d].digest, 1, m)
      BY <2>3 DEF StoreOK
    <3>2. rec[d].digest \in Digests
      BY <2>3 DEF StoreOK
    <3>3. m = Len(d) /\ Len(rec[d].digest) = Len(d)
      BY <1>1, <3>1, <3>2, PrefixFacts DEF AssetAssumption
    <3>4. d = rec[d].digest
      BY <3>1, <3>2, <3>3, PrefixFacts
    <3>5. QED
      BY <1>2, <2>3, <3>4
  <2>4. free(Len(d))
    BY <2>2, <2>3
  <2>5. QED
    BY <2>1, <2>4
<1>4. U \subseteq Nat
  BY <1>1
<1> HIDE DEF free
<1>5. PICK n \in U : \A m \in U : n <= m
  BY <1>3, <1>4, LeastNumber
<1>6. n \in ShortId..Len(d) /\ least(n)
  <2>1. n \in Nat /\ n \in ShortId..Len(d) /\ free(n) /\ n <= Len(d)
    BY <1>1, <1>4, <1>5
  <2>2. ASSUME NEW m \in ShortId..(n - 1), free(m) PROVE FALSE
    <3>1. m \in ShortId..Len(d) /\ m \in Nat /\ ~(n <= m)
      BY <1>1, <2>1, <2>2
    <3>2. QED
      BY <1>5, <2>2, <3>1
  <2>3. QED
    BY <2>1, <2>2
<1>7. length \in ShortId..Len(d) /\ free(length)
  BY <1>6
<1>8. AllocateId(d, rec) = SubSeq(d, 1, length)
  BY DEF AllocateId, free
<1> HIDE DEF length
<1>9. SubSeq(d, 1, length) \notin DOMAIN rec
  BY <1>2, <1>7 DEF free
<1>10. QED
  BY <1>1, <1>7, <1>8, <1>9

-----------------------------------------------------------------------------
\* What the store says of an image of a rendering.
Commits == [asset : Seq(Nat), reused : BOOLEAN]

\* One more image is the asset that has its digest, or a new child of the parent.
PlacedAs(acc, parent, now) ==
  /\ now = [records |-> now.records, filed |-> now.filed, commits |-> now.commits]
  /\ StoreOK(now.records, now.filed)
  /\ DOMAIN acc.records \subseteq DOMAIN now.records
  /\ \A a \in DOMAIN acc.records : now.records[a] = acc.records[a]
  /\ \E c \in Commits :
       /\ now.commits = Append(acc.commits, c) /\ c.asset \in DOMAIN now.records
       /\ c.reused => DOMAIN now.records = DOMAIN acc.records
       /\ ~c.reused => /\ DOMAIN now.records = DOMAIN acc.records \cup {c.asset}
                       /\ c.asset \notin DOMAIN acc.records
                       /\ now.records[c.asset].parent = parent

\* Place adds an asset only for a digest that has none.
LEMMA PlacedFacts ==
  ASSUME AssetAssumption, NEW acc, StoreOK(acc.records, acc.filed),
         acc = [records |-> acc.records, filed |-> acc.filed, commits |-> acc.commits],
         acc.commits \in Seq(Commits),
         NEW parent \in DOMAIN acc.records, NEW d \in Digests,
         NEW now, now = Place(acc, parent, d)
  PROVE  PlacedAs(acc, parent, now)
<1>0. PICK rec, fil : rec = acc.records /\ fil = acc.filed
  OBVIOUS
<1>a. StoreOK(rec, fil) /\ parent \in DOMAIN rec
  BY <1>0
<1>1. CASE d \in DOMAIN fil
  <2> DEFINE c == [asset |-> fil[d], reused |-> TRUE]
  <2>1. /\ now.records = rec /\ now.filed = fil /\ now.commits = Append(acc.commits, c)
        /\ now = [records |-> now.records, filed |-> now.filed, commits |-> now.commits]
    BY <1>0, <1>1 DEF Place
  <2>2. fil[d] \in DOMAIN rec
    BY <1>a, <1>1 DEF StoreOK
  <2>3. fil[d] \in Seq(Nat)
    <3>1. rec[fil[d]].digest \in Digests
      BY <1>a, <2>2 DEF StoreOK
    <3>2. PICK n \in ShortId..Len(Root) : fil[d] = SubSeq(rec[fil[d]].digest, 1, n)
      BY <1>a, <2>2 DEF StoreOK
    <3>3. SubSeq(rec[fil[d]].digest, 1, n) \in Seq(Nat)
      BY <3>1, PrefixFacts
    <3>4. QED
      BY <3>2, <3>3
  <2>4. c \in Commits /\ c.asset \in DOMAIN now.records /\ c.reused
    BY <2>1, <2>2, <2>3 DEF Commits
  <2> HIDE DEF c
  <2>5. QED
    BY <1>0, <1>a, <2>1, <2>4 DEF PlacedAs
<1>2. CASE d \notin DOMAIN fil
  <2>0. PICK id : id = AllocateId(d, rec)
    OBVIOUS
  <2> DEFINE r == [digest |-> d, parent |-> parent, depth |-> rec[parent].depth + 1]
             c == [asset |-> id, reused |-> FALSE]
  <2>1. /\ now.records = With(rec, id, r) /\ now.filed = With(fil, d, id)
        /\ now.commits = Append(acc.commits, c)
        /\ now = [records |-> now.records, filed |-> now.filed, commits |-> now.commits]
    BY <1>0, <1>2, <2>0 DEF Place
  <2>2. id \notin DOMAIN rec /\ \E n \in ShortId..Len(Root) : id = SubSeq(d, 1, n)
    BY <1>a, <1>2, <2>0, AllocatedIsFree
  <2>3. id \in Seq(Nat)
    BY <2>2, PrefixFacts
  <2>4. r.digest = d /\ r.parent = parent /\ r.depth = rec[parent].depth + 1
    OBVIOUS
  <2>5. c \in Commits /\ c.asset = id /\ ~c.reused
    BY <2>3 DEF Commits
  <2> HIDE DEF r, c
  <2>6. PICK rec2, fil2 : rec2 = now.records /\ fil2 = now.filed
    OBVIOUS
  <2>7. /\ DOMAIN rec2 = DOMAIN rec \cup {id} /\ rec2[id] = r
        /\ \A a \in DOMAIN rec : rec2[a] = rec[a]
    BY <2>1, <2>2, <2>6 DEF With
  <2>8. /\ DOMAIN fil2 = DOMAIN fil \cup {d} /\ fil2[d] = id
        /\ \A e \in DOMAIN fil : fil2[e] = fil[e]
    BY <1>2, <2>1, <2>6 DEF With
  <2>9. StoreOK(rec2, fil2)
    <3>1. IsFiniteSet(DOMAIN rec2)
      <4>1. IsFiniteSet(DOMAIN rec)
        BY <1>a DEF StoreOK
      <4>2. IsFiniteSet(DOMAIN rec \cup {id})
        BY <4>1, FS_AddElement
      <4>3. QED
        BY <2>7, <4>2
    <3>2. ASSUME NEW a \in DOMAIN rec2
          PROVE  /\ rec2[a].digest \in Digests /\ rec2[a].depth \in Nat
                 /\ \E n \in ShortId..Len(Root) : a = SubSeq(rec2[a].digest, 1, n)
                 /\ rec2[a].digest \in DOMAIN fil2 /\ fil2[rec2[a].digest] = a
      <4>1. CASE a = id
        <5>1. rec[parent].depth \in Nat
          BY <1>a DEF StoreOK
        <5>2. rec2[a].digest = d /\ rec2[a].depth = rec[parent].depth + 1
          BY <2>4, <2>7, <4>1
        <5>3. rec2[a].depth \in Nat
          <6>1. PICK h \in Nat : h = rec[parent].depth
            BY <5>1
          <6>2. h + 1 \in Nat
            BY <6>1
          <6>3. rec2[a].depth = h + 1
            BY <5>2, <6>1
          <6>4. QED
            BY <6>2, <6>3
        <5>4. PICK n \in ShortId..Len(Root) : id = SubSeq(d, 1, n)
          BY <2>2
        <5>5. \E m \in ShortId..Len(Root) : a = SubSeq(rec2[a].digest, 1, m)
          BY <4>1, <5>2, <5>4
        <5>6. QED
          BY <2>8, <4>1, <5>2, <5>3, <5>5
      <4>2. CASE a \in DOMAIN rec
        <5>1. /\ rec[a].digest \in Digests /\ rec[a].depth \in Nat
              /\ \E n \in ShortId..Len(Root) : a = SubSeq(rec[a].digest, 1, n)
              /\ rec[a].digest \in DOMAIN fil /\ fil[rec[a].digest] = a
          BY <1>a, <4>2 DEF StoreOK
        <5>2. rec2[a] = rec[a]
          BY <2>7, <4>2
        <5>3. QED
          BY <2>8, <5>1, <5>2
      <4>3. QED
        BY <2>7, <4>1, <4>2
    <3>3. ASSUME NEW e \in DOMAIN fil2
          PROVE  fil2[e] \in DOMAIN rec2 /\ rec2[fil2[e]].digest = e
      <4>1. CASE e = d
        BY <2>4, <2>7, <2>8, <4>1
      <4>2. CASE e \in DOMAIN fil
        <5>1. fil[e] \in DOMAIN rec /\ rec[fil[e]].digest = e
          BY <1>a, <4>2 DEF StoreOK
        <5>2. fil2[e] = fil[e]
          BY <2>8, <4>2
        <5>3. QED
          BY <2>7, <5>1, <5>2
      <4>3. QED
        BY <2>8, <4>1, <4>2
    <3>4. ASSUME NEW a \in DOMAIN rec2 \ {RootId}
          PROVE  rec2[a].parent \in DOMAIN rec2
                 /\ rec2[a].depth = rec2[rec2[a].parent].depth + 1
      <4>1. CASE a = id
        BY <1>a, <2>4, <2>7, <4>1
      <4>2. CASE a \in DOMAIN rec
        <5>1. rec[a].parent \in DOMAIN rec /\ rec[a].depth = rec[rec[a].parent].depth + 1
          BY <1>a, <4>2 DEF StoreOK
        <5>2. QED
          BY <2>7, <4>2, <5>1
      <4>3. QED
        BY <2>7, <4>1, <4>2
    <3>5. QED
      BY <3>1, <3>2, <3>3, <3>4 DEF StoreOK
  <2>10. QED
    BY <1>0, <2>1, <2>2, <2>4, <2>5, <2>6, <2>7, <2>9 DEF PlacedAs
<1>3. QED
  BY <1>1, <1>2, <1>0

\* One more commit behind the others; it gives a copy back if it reuses an asset.
OneMore(commits, c, more) ==
  /\ more \in Seq(Commits) /\ Len(more) = Len(commits) + 1 /\ Len(commits) \in Nat
  /\ \A i \in 1..Len(commits) : more[i] = commits[i]
  /\ more[Len(commits) + 1] = c
  /\ Unretained(commits) \in Nat
  /\ Unretained(more) = Unretained(commits) + (IF c.reused THEN 1 ELSE 0)

\* A copy is closed again exactly where an asset was reused.
LEMMA OneMoreCommit ==
  ASSUME NEW commits \in Seq(Commits), NEW c \in Commits
  PROVE  OneMore(commits, c, Append(commits, c))
<1>0. PICK more : more = Append(commits, c)
  OBVIOUS
<1> DEFINE n == Len(commits)
           U == {i \in DOMAIN commits : commits[i].reused}
           V == {i \in DOMAIN more : more[i].reused}
<1>1. n \in Nat /\ DOMAIN commits = 1..n
  BY LenProperties
<1>2. /\ more \in Seq(Commits) /\ Len(more) = n + 1
      /\ \A i \in 1..n : more[i] = commits[i]
      /\ more[n + 1] = c
  BY <1>0, <1>1, AppendProperties
<1>3. DOMAIN more = 1..(n + 1)
  BY <1>2, LenProperties
<1>4. V = IF c.reused THEN U \cup {n + 1} ELSE U
  BY <1>1, <1>2, <1>3
<1>5. IsFiniteSet(U) /\ n + 1 \notin U
  <2>1. IsFiniteSet(1..n)
    BY <1>1, FS_Interval
  <2>2. U \subseteq 1..n /\ n + 1 \notin U
    BY <1>1
  <2>3. QED
    BY <2>1, <2>2, FS_Subset
<1>6. Cardinality(U) \in Nat
  BY <1>5, FS_CardinalityType
<1>7. Cardinality(V) = Cardinality(U) + (IF c.reused THEN 1 ELSE 0)
  <2> HIDE DEF U, V, n
  <2>1. CASE c.reused
    <3>1. Cardinality(U \cup {n + 1}) = Cardinality(U) + 1
      BY <1>5, FS_AddElement
    <3>2. QED
      BY <1>4, <2>1, <3>1
  <2>2. CASE ~c.reused
    BY <1>4, <1>6, <2>2
  <2>3. QED
    BY <2>1, <2>2
<1>8. Unretained(commits) = Cardinality(U) /\ Unretained(more) = Cardinality(V)
  BY DEF Unretained
<1>9. QED
  BY <1>0, <1>1, <1>2, <1>6, <1>7, <1>8 DEF OneMore

\* What n images rendered under a parent make of the store.
Planned(acc, parent, rec, n) ==
  /\ acc = [records |-> acc.records, filed |-> acc.filed, commits |-> acc.commits]
  /\ StoreOK(acc.records, acc.filed)
  /\ DOMAIN rec \subseteq DOMAIN acc.records
  /\ \A a \in DOMAIN rec : acc.records[a] = rec[a]
  /\ acc.commits \in Seq(Commits) /\ Len(acc.commits) = n
  /\ \A k \in 1..n : acc.commits[k].asset \in DOMAIN acc.records
  /\ \A a \in DOMAIN acc.records \ DOMAIN rec :
       acc.records[a].parent = parent /\ \E k \in 1..n : acc.commits[k].asset = a
  /\ Cardinality(DOMAIN acc.records) + Unretained(acc.commits) = Cardinality(DOMAIN rec) + n

\* Every image either adds one record or gives one copy back.
LEMMA PlannedFurther ==
  ASSUME AssetAssumption, NEW rec, NEW acc, NEW n \in Nat, NEW parent \in DOMAIN rec,
         Planned(acc, parent, rec, n), NEW d \in Digests, IsFiniteSet(DOMAIN rec)
  PROVE  Planned(Place(acc, parent, d), parent, rec, n + 1)
<1>0. PICK now : now = Place(acc, parent, d)
  OBVIOUS
<1>1. /\ StoreOK(acc.records, acc.filed) /\ acc.commits \in Seq(Commits)
      /\ acc = [records |-> acc.records, filed |-> acc.filed, commits |-> acc.commits]
      /\ parent \in DOMAIN acc.records
  BY DEF Planned
<1>a. PlacedAs(acc, parent, now)
  BY <1>0, <1>1, PlacedFacts
<1>2. /\ now = [records |-> now.records, filed |-> now.filed, commits |-> now.commits]
      /\ StoreOK(now.records, now.filed)
      /\ DOMAIN acc.records \subseteq DOMAIN now.records
      /\ \A a \in DOMAIN acc.records : now.records[a] = acc.records[a]
  BY <1>a DEF PlacedAs
<1>3. PICK c \in Commits :
        /\ now.commits = Append(acc.commits, c) /\ c.asset \in DOMAIN now.records
        /\ c.reused => DOMAIN now.records = DOMAIN acc.records
        /\ ~c.reused => /\ DOMAIN now.records = DOMAIN acc.records \cup {c.asset}
                        /\ c.asset \notin DOMAIN acc.records
                        /\ now.records[c.asset].parent = parent
  BY <1>a DEF PlacedAs
<1>4. Len(acc.commits) = n
  BY DEF Planned
<1>5. /\ now.commits \in Seq(Commits) /\ Len(now.commits) = n + 1
      /\ \A i \in 1..n : now.commits[i] = acc.commits[i]
      /\ now.commits[n + 1] = c
      /\ Unretained(acc.commits) \in Nat
      /\ Unretained(now.commits) = Unretained(acc.commits) + (IF c.reused THEN 1 ELSE 0)
  <2>1. PICK cs, more : cs = acc.commits /\ more = now.commits
    OBVIOUS
  <2>2. cs \in Seq(Commits) /\ more = Append(cs, c) /\ Len(cs) = n
    BY <1>1, <1>3, <1>4, <2>1
  <2>3. OneMore(cs, c, more)
    BY <2>2, OneMoreCommit
  <2>4. QED
    BY <2>1, <2>2, <2>3 DEF OneMore
<1>6. \A k \in 1..(n + 1) : now.commits[k].asset \in DOMAIN now.records
  <2>1. \A k \in 1..n : acc.commits[k].asset \in DOMAIN acc.records
    BY DEF Planned
  <2>2. ASSUME NEW k \in 1..(n + 1) PROVE now.commits[k].asset \in DOMAIN now.records
    <3>1. k \in 1..n \/ k = n + 1
      OBVIOUS
    <3>2. QED
      BY <1>2, <1>3, <1>5, <2>1, <3>1
  <2>3. QED
    BY <2>2
<1>7. /\ DOMAIN rec \subseteq DOMAIN now.records
      /\ \A a \in DOMAIN rec : now.records[a] = rec[a]
  <2>1. /\ DOMAIN rec \subseteq DOMAIN acc.records
        /\ \A a \in DOMAIN rec : acc.records[a] = rec[a]
    BY DEF Planned
  <2>2. QED
    BY <1>2, <2>1
<1>8. ASSUME NEW a \in DOMAIN now.records \ DOMAIN rec
      PROVE  now.records[a].parent = parent /\ \E k \in 1..(n + 1) : now.commits[k].asset = a
  <2>1. CASE a \in DOMAIN acc.records
    <3>1. acc.records[a].parent = parent /\ \E k \in 1..n : acc.commits[k].asset = a
      BY <1>8, <2>1 DEF Planned
    <3>2. PICK k \in 1..n : acc.commits[k].asset = a
      BY <3>1
    <3>3. k \in 1..(n + 1) /\ now.commits[k] = acc.commits[k]
      <4>1. k \in 1..(n + 1)
        BY <3>2
      <4>2. QED
        BY <1>5, <3>2, <4>1
    <3>4. k \in 1..(n + 1) /\ now.commits[k].asset = a
      BY <3>2, <3>3
    <3>5. now.records[a].parent = parent
      BY <1>2, <2>1, <3>1
    <3>6. QED
      BY <3>4, <3>5
  <2>2. CASE a \notin DOMAIN acc.records
    <3>1. a = c.asset /\ ~c.reused
      BY <1>3, <1>8, <2>2
    <3>2. now.records[a].parent = parent
      BY <1>3, <3>1
    <3>3. n + 1 \in 1..(n + 1) /\ now.commits[n + 1].asset = a
      BY <1>5, <3>1
    <3>4. QED
      BY <3>2, <3>3
  <2>3. QED
    BY <2>1, <2>2
<1>9. Cardinality(DOMAIN now.records) + Unretained(now.commits) = Cardinality(DOMAIN rec) + (n + 1)
  <2>0. Unretained(acc.commits) \in Nat
    BY <1>5
  <2>1. Cardinality(DOMAIN acc.records) + Unretained(acc.commits) = Cardinality(DOMAIN rec) + n
    BY DEF Planned
  <2>2. IsFiniteSet(DOMAIN acc.records)
    BY <1>1 DEF StoreOK
  <2>3. Cardinality(DOMAIN acc.records) \in Nat /\ Cardinality(DOMAIN rec) \in Nat
    BY <2>2, FS_CardinalityType
  <2>a. PICK a, b, k, a2, b2 :
          /\ a = Cardinality(DOMAIN acc.records) /\ b = Unretained(acc.commits)
          /\ k = Cardinality(DOMAIN rec)
          /\ a2 = Cardinality(DOMAIN now.records) /\ b2 = Unretained(now.commits)
    OBVIOUS
  <2>b. a \in Nat /\ b \in Nat /\ k \in Nat /\ a + b = k + n
    BY <2>0, <2>1, <2>3, <2>a
  <2>4. CASE c.reused
    <3>1. DOMAIN now.records = DOMAIN acc.records
      BY <1>3, <2>4
    <3>2. Unretained(now.commits) = Unretained(acc.commits) + 1
      BY <1>5, <2>4
    <3>3. Cardinality(DOMAIN now.records) = Cardinality(DOMAIN acc.records)
      BY <3>1
    <3>a. a2 = a /\ b2 = b + 1
      BY <2>a, <3>2, <3>3
    <3>4. a2 \in Nat /\ b2 \in Nat /\ a2 + b2 = (a + b) + 1
      BY <2>b, <3>a
    <3>5. (a + b) + 1 = (k + n) + 1 /\ (k + n) + 1 = k + (n + 1)
      BY <2>b
    <3>6. QED
      BY <2>a, <3>4, <3>5
  <2>5. CASE ~c.reused
    <3>1. /\ DOMAIN now.records = DOMAIN acc.records \cup {c.asset}
          /\ c.asset \notin DOMAIN acc.records
      BY <1>3, <2>5
    <3>2. Cardinality(DOMAIN now.records) = Cardinality(DOMAIN acc.records) + 1
      BY <2>2, <3>1, FS_AddElement
    <3>3. Unretained(now.commits) = Unretained(acc.commits)
      BY <1>5, <2>5
    <3>a. a2 = a + 1 /\ b2 = b
      BY <2>a, <3>2, <3>3
    <3>4. a2 \in Nat /\ b2 \in Nat /\ a2 + b2 = (a + b) + 1
      BY <2>b, <3>a
    <3>5. (a + b) + 1 = (k + n) + 1 /\ (k + n) + 1 = k + (n + 1)
      BY <2>b
    <3>6. QED
      BY <2>a, <3>4, <3>5
  <2>6. QED
    BY <2>4, <2>5
<1>10. QED
  BY <1>0, <1>2, <1>5, <1>6, <1>7, <1>8, <1>9 DEF Planned

\* The recursive function in Plan has a value.
AfterExists(n, start, parent, out) ==
  \E f : f = [i \in 0..n |-> IF i = 0 THEN start ELSE Place(f[i - 1], parent, out[i])]

\* By induction over the images: placing them one after the other is a function.
LEMMA AftersExist ==
  ASSUME NEW start, NEW parent, NEW out PROVE \A n \in Nat : AfterExists(n, start, parent, out)
<1> DEFINE T == {n \in Nat : AfterExists(n, start, parent, out)}
<1>1. 0 \in T
  <2>1. [i \in 0..0 |-> start] = [i \in 0..0 |-> IF i = 0 THEN start
                                     ELSE Place([k \in 0..0 |-> start][i - 1], parent, out[i])]
    OBVIOUS
  <2>2. QED
    BY <2>1 DEF AfterExists
<1>2. ASSUME NEW n \in Nat, n \in T PROVE n + 1 \in T
  <2>1. PICK f : f = [i \in 0..n |-> IF i = 0 THEN start ELSE Place(f[i - 1], parent, out[i])]
    BY <1>2 DEF AfterExists
  <2>2. \A i \in 0..n : f[i] = IF i = 0 THEN start ELSE Place(f[i - 1], parent, out[i])
    BY <2>1
  <2> DEFINE g == [i \in 0..(n + 1) |-> IF i = n + 1 THEN Place(f[n], parent, out[i]) ELSE f[i]]
  <2>3. \A i \in 0..(n + 1) : g[i] = IF i = 0 THEN start ELSE Place(g[i - 1], parent, out[i])
    <3>1. ASSUME NEW i \in 0..(n + 1)
          PROVE  g[i] = IF i = 0 THEN start ELSE Place(g[i - 1], parent, out[i])
      <4>1. CASE i = n + 1
        <5>1. g[i] = Place(f[n], parent, out[i]) /\ g[i - 1] = f[n] /\ i # 0
          BY <4>1
        <5> HIDE DEF g
        <5>2. QED
          BY <5>1
      <4>2. CASE i = 0
        <5>1. g[i] = f[i] /\ f[i] = start
          BY <2>2, <4>2
        <5> HIDE DEF g
        <5>2. QED
          BY <5>1, <4>2
      <4>3. CASE i \in 1..n
        <5>1. g[i] = f[i] /\ g[i - 1] = f[i - 1] /\ i # 0 /\ i \in 0..n
          BY <4>3
        <5> HIDE DEF g
        <5>2. QED
          BY <2>2, <5>1
      <4>4. QED
        BY <4>1, <4>2, <4>3
    <3>2. QED
      BY <3>1
  <2>4. g = [i \in 0..(n + 1) |-> IF i = 0 THEN start ELSE Place(g[i - 1], parent, out[i])]
    BY <2>3
  <2> HIDE DEF g
  <2>5. AfterExists(n + 1, start, parent, out)
    BY <2>4 DEF AfterExists
  <2>6. QED
    BY <2>5
<1> HIDE DEF T
<1>3. Nat \subseteq T
  BY <1>1, <1>2, EvidenceInduction
<1>4. QED
  BY <1>3 DEF T

\* What committing the images of one rendering makes of the store.
LEMMA PlanFacts ==
  ASSUME AssetAssumption, StoreOK(records, filed), NEW parent \in Owned,
         NEW out \in Seq(Digests)
  PROVE  Planned(Plan(parent, out), parent, records, Len(out))
<1> DEFINE start == [records |-> records, filed |-> filed, commits |-> <<>>]
           G(f) == f = [i \in 0..Len(out) |->
                          IF i = 0 THEN start ELSE Place(f[i - 1], parent, out[i])]
           h == CHOOSE f : G(f)
<1>0. Len(out) \in Nat /\ \A i \in 1..Len(out) : out[i] \in Digests
  BY LenProperties, ElementOfSeq
<1>1. \E f : G(f)
  <2>1. PICK beginning : beginning = start
    OBVIOUS
  <2>2. AfterExists(Len(out), beginning, parent, out)
    BY <1>0, AftersExist
  <2>3. \E f : f = [i \in 0..Len(out) |->
                     IF i = 0 THEN beginning ELSE Place(f[i - 1], parent, out[i])]
    BY <2>2 DEF AfterExists
  <2>4. QED
    BY <2>1, <2>3
<1>2. G(h)
  BY <1>1
<1>3. Plan(parent, out) = h[Len(out)]
  BY DEF Plan
<1> HIDE DEF h
<1>4. \A i \in 0..Len(out) : h[i] = IF i = 0 THEN start ELSE Place(h[i - 1], parent, out[i])
  BY <1>2
<1> DEFINE T == {n \in Nat : n <= Len(out) => Planned(h[n], parent, records, n)}
<1>5. 0 \in T
  <2>1. h[0] = start
    BY <1>0, <1>4
  <2>2. /\ start.records = records /\ start.filed = filed /\ start.commits = <<>>
        /\ start = [records |-> start.records, filed |-> start.filed, commits |-> start.commits]
    OBVIOUS
  <2>3. <<>> \in Seq(Commits) /\ Len(<<>>) = 0 /\ DOMAIN <<>> = {}
    OBVIOUS
  <2>4. Unretained(<<>>) = 0
    BY <2>3, FS_EmptySet DEF Unretained
  <2>5. IsFiniteSet(DOMAIN records)
    BY DEF StoreOK
  <2>6. Cardinality(DOMAIN records) \in Nat
    BY <2>5, FS_CardinalityType
  <2> HIDE DEF start
  <2>7. Planned(start, parent, records, 0)
    BY <2>2, <2>3, <2>4, <2>6 DEF Planned
  <2>8. QED
    BY <2>1, <2>7
<1>6. ASSUME NEW n \in Nat, n \in T PROVE n + 1 \in T
  <2>1. SUFFICES ASSUME n + 1 <= Len(out) PROVE Planned(h[n + 1], parent, records, n + 1)
    OBVIOUS
  <2>2. Planned(h[n], parent, records, n)
    BY <1>0, <1>6, <2>1
  <2>3. n + 1 \in 0..Len(out) /\ n + 1 \in 1..Len(out) /\ n + 1 # 0 /\ (n + 1) - 1 = n
    BY <1>0, <2>1
  <2>4. h[n + 1] = Place(h[n], parent, out[n + 1])
    BY <1>4, <2>3
  <2>5. out[n + 1] \in Digests
    BY <1>0, <2>3
  <2>6. IsFiniteSet(DOMAIN records) /\ parent \in DOMAIN records
    BY DEF StoreOK, Owned
  <2>7. QED
    BY <2>2, <2>4, <2>5, <2>6, PlannedFurther
<1>7. Nat \subseteq T
  <2> HIDE DEF T
  <2>1. QED
    BY <1>5, <1>6, EvidenceInduction
<1>8. Len(out) \in T
  BY <1>0, <1>7
<1>9. QED
  BY <1>0, <1>3, <1>8

-----------------------------------------------------------------------------
\* The sequences, whatever they consist of.
IsSeq(s) == \E S : s \in Seq(S)

\* One sequence behind another.
Joined(s, t, u) ==
  /\ IsSeq(u) /\ Len(s) \in Nat /\ Len(t) \in Nat /\ Len(u) = Len(s) + Len(t)
  /\ DOMAIN s = 1..Len(s) /\ DOMAIN t = 1..Len(t)
  /\ DOMAIN u = 1..(Len(s) + Len(t))
  /\ \A i \in 1..Len(s) : u[i] = s[i]
  /\ \A i \in 1..Len(t) : u[Len(s) + i] = t[i]

\* A batch behind the observations leaves those where they are.
LEMMA ConcatFacts ==
  ASSUME NEW s, NEW t, IsSeq(s), IsSeq(t), NEW u, u = s \o t
  PROVE  Joined(s, t, u)
<1>1. PICK S : s \in Seq(S)
  BY DEF IsSeq
<1>2. PICK T : t \in Seq(T)
  BY DEF IsSeq
<1> DEFINE ST == S \cup T
<1>3. S \subseteq ST /\ T \subseteq ST
  OBVIOUS
<1> HIDE DEF ST
<1>4. s \in Seq(ST) /\ t \in Seq(ST)
  BY <1>1, <1>2, <1>3, SeqMonotonic
<1>5. /\ Len(s) \in Nat /\ Len(t) \in Nat
      /\ DOMAIN s = 1..Len(s) /\ DOMAIN t = 1..Len(t)
  BY <1>4, LenProperties
<1>6. /\ s \o t \in Seq(ST) /\ Len(s \o t) = Len(s) + Len(t)
      /\ \A i \in 1..(Len(s) + Len(t)) :
            (s \o t)[i] = IF i <= Len(s) THEN s[i] ELSE t[i - Len(s)]
  BY <1>4, ConcatProperties
<1>7. DOMAIN u = 1..(Len(s) + Len(t)) /\ Len(u) = Len(s) + Len(t) /\ u \in Seq(ST)
  BY <1>5, <1>6, LenProperties
<1>8. \A i \in 1..(Len(s) + Len(t)) : u[i] = IF i <= Len(s) THEN s[i] ELSE t[i - Len(s)]
  BY <1>6
<1>9. ASSUME NEW i \in 1..Len(s) PROVE u[i] = s[i]
  <2>1. i \in 1..(Len(s) + Len(t)) /\ i <= Len(s)
    BY <1>5
  <2>2. QED
    BY <1>8, <2>1
<1>10. ASSUME NEW i \in 1..Len(t) PROVE u[Len(s) + i] = t[i]
  <2>1. /\ Len(s) + i \in 1..(Len(s) + Len(t)) /\ ~(Len(s) + i <= Len(s))
        /\ (Len(s) + i) - Len(s) = i
    BY <1>5
  <2>2. QED
    BY <1>8, <2>1
<1>11. IsSeq(u)
  BY <1>7 DEF IsSeq
<1>12. QED
  BY <1>5, <1>7, <1>9, <1>10, <1>11 DEF Joined

\* No draft, or one.
LEMMA ShortSeqs ==
  /\ IsSeq(<<>>) /\ Len(<<>>) = 0
  /\ \A x : IsSeq(<<x>>) /\ Len(<<x>>) = 1 /\ <<x>>[1] = x
<1>1. <<>> \in Seq({})
  OBVIOUS
<1>2. ASSUME NEW x PROVE <<x>> \in Seq({x}) /\ Len(<<x>>) = 1 /\ <<x>>[1] = x
  OBVIOUS
<1>3. QED
  BY <1>1, <1>2 DEF IsSeq

-----------------------------------------------------------------------------
\* The images that render threads have open: the copy a running one got, or what it rendered.
Copies(rs) == {r \in RenderSlots : rs[r].state = "running"}
\* The threads whose images wait to be taken over.
Finished(rs) == {r \in RenderSlots : rs[r].state = "done"}
\* Those images.
Held(rs) == UNION {{r} \X (1..Len(rs[r].out)) : r \in Finished(rs)}
\* All open images of threads.
Images(rs) == Cardinality(Copies(rs)) + Cardinality(Held(rs))

\* A thread that is done holds what a transform may produce, others nothing.
RendersOK(rs) ==
  /\ rs = [r \in RenderSlots |-> [state |-> rs[r].state, wanted |-> rs[r].wanted,
                                  out |-> rs[r].out]]
  /\ \A r \in RenderSlots :
       /\ rs[r].state = "done" => rs[r].out \in Renderings
       /\ rs[r].state \in {"free", "failed"} => rs[r].out = <<>>

\* Those of one thread, and of all others.
Share(rs, r) == IF rs[r].state = "running" THEN 1
                ELSE IF rs[r].state = "done" THEN Len(rs[r].out) ELSE 0
\* What the other threads hold.
OtherHeld(rs, r) == UNION {{q} \X (1..Len(rs[q].out)) : q \in Finished(rs) \ {r}}
\* All images of the other threads.
Others(rs, r) == Cardinality(Copies(rs) \ {r}) + Cardinality(OtherHeld(rs, r))

\* The other threads hold a finite number of images.
LEMMA OthersAreFinite ==
  ASSUME RenderAssumption, NEW rs, NEW r,
         \A q \in RenderSlots : rs[q].state = "done" => rs[q].out \in Renderings
  PROVE  IsFiniteSet(Copies(rs) \ {r}) /\ IsFiniteSet(OtherHeld(rs, r))
<1>1. IsFiniteSet(RenderSlots)
  BY DEF RenderAssumption
<1>2. IsFiniteSet(Copies(rs) \ {r})
  <2>1. Copies(rs) \ {r} \subseteq RenderSlots
    BY DEF Copies
  <2>2. QED
    BY <1>1, <2>1, FS_Subset
<1> DEFINE D == Finished(rs) \ {r}
           f == [q \in D |-> {q} \X (1..Len(rs[q].out))]
           T == {{q} \X (1..Len(rs[q].out)) : q \in D}
<1>3. IsFiniteSet(D)
  <2>1. D \subseteq RenderSlots
    BY DEF Finished
  <2> HIDE DEF D
  <2>2. QED
    BY <1>1, <2>1, FS_Subset
<1>4. \A q \in D : IsFiniteSet({q} \X (1..Len(rs[q].out)))
  <2>1. ASSUME NEW q \in D PROVE IsFiniteSet({q} \X (1..Len(rs[q].out)))
    <3>1. rs[q].out \in Seq(Digests)
      BY <2>1 DEF Finished, RenderAssumption
    <3>2. Len(rs[q].out) \in Nat
      BY <3>1, LenProperties
    <3>3. IsFiniteSet(1..Len(rs[q].out))
      BY <3>2, FS_Interval
    <3>4. IsFiniteSet({q})
      BY FS_Singleton
    <3>5. QED
      BY <3>3, <3>4, FS_Product
  <2>2. QED
    BY <2>1
<1>5. OtherHeld(rs, r) = UNION T
  BY DEF OtherHeld
<1> HIDE DEF D
<1>6. f \in Surjection(D, T)
  BY DEF Surjection
<1>7. \A X \in T : IsFiniteSet(X)
  BY <1>4
<1> HIDE DEF f, T
<1>8. IsFiniteSet(T)
  BY <1>3, <1>6, FS_Surjection
<1>9. IsFiniteSet(UNION T)
  BY <1>7, <1>8, FS_UNION
<1>10. QED
  BY <1>2, <1>5, <1>9

\* All images are those of one thread and those of the others.
LEMMA SharesAddUp ==
  ASSUME RenderAssumption, NEW rs, RendersOK(rs), NEW r \in RenderSlots
  PROVE  /\ Others(rs, r) \in Nat /\ Share(rs, r) \in Nat
         /\ Images(rs) = Others(rs, r) + Share(rs, r)
<1>0. \A q \in RenderSlots : rs[q].state = "done" => rs[q].out \in Renderings
  BY DEF RendersOK
<1>1. IsFiniteSet(Copies(rs) \ {r}) /\ IsFiniteSet(OtherHeld(rs, r))
  BY <1>0, OthersAreFinite
<1>2. PICK C, H : C = Copies(rs) \ {r} /\ H = OtherHeld(rs, r)
  OBVIOUS
<1>3. IsFiniteSet(C) /\ IsFiniteSet(H) /\ Cardinality(C) \in Nat /\ Cardinality(H) \in Nat
  BY <1>1, <1>2, FS_CardinalityType
<1>4. Others(rs, r) = Cardinality(C) + Cardinality(H)
  BY <1>2 DEF Others
<1>5. CASE rs[r].state = "running"
  <2>1. Copies(rs) = C \cup {r} /\ r \notin C
    BY <1>2, <1>5 DEF Copies
  <2>2. r \notin Finished(rs)
    BY <1>5 DEF Finished
  <2>3. Finished(rs) \ {r} = Finished(rs)
    BY <2>2
  <2>4. Held(rs) = H
    BY <1>2, <2>3 DEF Held, OtherHeld
  <2>5. Cardinality(Copies(rs)) = Cardinality(C) + 1
    BY <1>3, <2>1, FS_AddElement
  <2>6. Share(rs, r) = 1
    BY <1>5 DEF Share
  <2>7. Images(rs) = (Cardinality(C) + 1) + Cardinality(H)
    BY <2>4, <2>5 DEF Images
  <2>8. QED
    BY <1>3, <1>4, <2>6, <2>7
<1>6. CASE rs[r].state = "done"
  <2>1. Copies(rs) = C
    BY <1>2, <1>6 DEF Copies
  <2> DEFINE P == {r} \X (1..Len(rs[r].out))
  <2>2. r \in Finished(rs)
    BY <1>6 DEF Finished
  <2>3. Held(rs) = H \cup P
    BY <1>2, <2>2 DEF Held, OtherHeld
  <2>4. H \cap P = {}
    BY <1>2 DEF OtherHeld
  <2>5. rs[r].out \in Seq(Digests)
    BY <1>0, <1>6 DEF RenderAssumption
  <2>6. Len(rs[r].out) \in Nat
    BY <2>5, LenProperties
  <2>7. PICK n \in Nat : n = Len(rs[r].out)
    BY <2>6
  <2>8. IsFiniteSet(1..n) /\ Cardinality(1..n) = n
    <3>1. 1 \in Int /\ n \in Int
      BY <2>7
    <3>2. IsFiniteSet(1..n) /\ Cardinality(1..n) = IF 1 > n THEN 0 ELSE n - 1 + 1
      BY <3>1, FS_Interval
    <3>3. (IF 1 > n THEN 0 ELSE n - 1 + 1) = n
      BY <2>7
    <3>4. QED
      BY <3>2, <3>3
  <2>9. IsFiniteSet({r}) /\ Cardinality({r}) = 1
    BY FS_Singleton
  <2>10. IsFiniteSet({r} \X (1..n)) /\ Cardinality({r} \X (1..n)) = 1 * n
    <3>1. PICK I, R : I = 1..n /\ R = {r}
      OBVIOUS
    <3>2. IsFiniteSet(I) /\ Cardinality(I) = n /\ IsFiniteSet(R) /\ Cardinality(R) = 1
      BY <2>8, <2>9, <3>1
    <3>3. IsFiniteSet(R \X I) /\ Cardinality(R \X I) = Cardinality(R) * Cardinality(I)
      BY <3>2, FS_Product
    <3>4. QED
      BY <3>1, <3>2, <3>3
  <2>11. IsFiniteSet(P) /\ Cardinality(P) = n
    BY <2>7, <2>10
  <2> HIDE DEF P
  <2>12. Cardinality(H \cup P) = Cardinality(H) + n
    <3>1. Cardinality(H \cup P) = Cardinality(H) + Cardinality(P) - Cardinality(H \cap P)
      BY <1>3, <2>11, FS_Union
    <3>2. Cardinality(H \cap P) = 0
      BY <2>4, FS_EmptySet
    <3>3. QED
      BY <1>3, <2>7, <2>11, <3>1, <3>2
  <2>13. Share(rs, r) = n
    BY <1>6, <2>7 DEF Share
  <2>14. Images(rs) = Cardinality(C) + (Cardinality(H) + n)
    BY <2>1, <2>3, <2>12 DEF Images
  <2>15. QED
    <3>1. PICK c, h : c = Cardinality(C) /\ h = Cardinality(H)
      OBVIOUS
    <3>2. c \in Nat /\ h \in Nat /\ n \in Nat
      BY <1>3, <2>7, <3>1
    <3>3. Others(rs, r) = c + h /\ Images(rs) = c + (h + n)
      BY <1>4, <2>14, <3>1
    <3>4. c + (h + n) = (c + h) + n /\ c + h \in Nat
      BY <3>2
    <3>5. QED
      BY <2>13, <3>2, <3>3, <3>4
<1>7. CASE rs[r].state \notin {"running", "done"}
  <2>1. Copies(rs) = C
    BY <1>2, <1>7 DEF Copies
  <2>2. r \notin Finished(rs)
    BY <1>7 DEF Finished
  <2>3. Finished(rs) \ {r} = Finished(rs)
    BY <2>2
  <2>4. Held(rs) = H
    BY <1>2, <2>3 DEF Held, OtherHeld
  <2>5. Share(rs, r) = 0
    BY <1>7 DEF Share
  <2>6. Images(rs) = Cardinality(C) + Cardinality(H)
    BY <2>1, <2>4 DEF Images
  <2>7. QED
    BY <1>3, <1>4, <2>5, <2>6
<1>8. QED
  BY <1>5, <1>6, <1>7

\* What becomes of one thread changes its share only.
LEMMA OneThread ==
  ASSUME RenderAssumption, NEW rs, NEW now, RendersOK(rs), RendersOK(now),
         NEW r \in RenderSlots, \A q \in RenderSlots \ {r} : now[q] = rs[q]
  PROVE  /\ Others(rs, r) \in Nat /\ Share(rs, r) \in Nat /\ Share(now, r) \in Nat
         /\ Images(rs) = Others(rs, r) + Share(rs, r)
         /\ Images(now) = Others(rs, r) + Share(now, r)
<1>1. Copies(now) \ {r} = Copies(rs) \ {r}
  BY DEF Copies
<1>2. Finished(now) \ {r} = Finished(rs) \ {r}
  BY DEF Finished
<1>3. \A q \in Finished(rs) \ {r} : now[q] = rs[q]
  BY DEF Finished
<1>4. OtherHeld(now, r) = OtherHeld(rs, r)
  <2>1. ASSUME NEW q \in Finished(rs) \ {r}
        PROVE  {q} \X (1..Len(now[q].out)) = {q} \X (1..Len(rs[q].out))
    BY <1>3
  <2>2. QED
    BY <1>2, <2>1 DEF OtherHeld
<1>5. Others(now, r) = Others(rs, r)
  BY <1>1, <1>4 DEF Others
<1>6. QED
  BY <1>5, SharesAddUp

-----------------------------------------------------------------------------
\* Observations refer to earlier ones, and every derived asset has its lineage record.
Linked ==
  \A n \in Numbers :
    \A k \in observations[n].parents \cup observations[n].marks : k \in Numbers /\ k < n
\* Every derived asset has a lineage record that names its parent.
Derivations ==
  \A a \in Owned \ {RootId} :
    \E n \in Numbers : /\ observations[n].kind = "transform"
                       /\ observations[n].asset = a
                       /\ observations[n].from = records[a].parent

\* What an operation hands on from turn to turn refers to what the session has.
OperationIsKnown ==
  /\ op = [kind |-> op.kind, failFast |-> op.failFast, first |-> op.first, parents |-> op.parents]
  /\ pc # "idle" => op.parents \subseteq Numbers

\* A tool call in a thread is about an asset of the session and regions found on it.
ToolIsKnown ==
  /\ tool = [asset |-> tool.asset, capability |-> tool.capability, sources |-> tool.sources,
             slot |-> tool.slot, first |-> tool.first, fresh |-> tool.fresh,
             dropped |-> tool.dropped]
  /\ pc = "render" => /\ tool.asset \in Owned /\ tool.slot \in RenderSlots
                      /\ tool.sources \subseteq Numbers /\ Markable(tool.asset, tool.sources)
  /\ pc \in {"created", "telling"} => tool.first \in Nat \ {0}

\* The inductive invariant behind StoresAreConsistent.
EvidenceInv ==
  /\ StoreOK(records, filed) /\ ImagesAccounted /\ RendersOK(renders)
  /\ IsSeq(observations) /\ Linked /\ Derivations
  /\ OperationIsKnown /\ ToolIsKnown /\ report.outcome # "refused"

-----------------------------------------------------------------------------
\* The threads have a finite number of images open.
LEMMA ImagesType ==
  ASSUME RenderAssumption, NEW rs, RendersOK(rs)
  PROVE  /\ Cardinality(Copies(rs)) \in Nat /\ Cardinality(Held(rs)) \in Nat
         /\ Images(rs) \in Nat
<1>1. Copies(rs) \ {0} = Copies(rs) /\ OtherHeld(rs, 0) = Held(rs)
  <2>1. 0 \notin RenderSlots
    BY DEF RenderAssumption
  <2>2. Copies(rs) \ {0} = Copies(rs) /\ Finished(rs) \ {0} = Finished(rs)
    BY <2>1 DEF Copies, Finished
  <2>3. QED
    BY <2>2 DEF OtherHeld, Held
<1>2. IsFiniteSet(Copies(rs) \ {0}) /\ IsFiniteSet(OtherHeld(rs, 0))
  <2>1. \A q \in RenderSlots : rs[q].state = "done" => rs[q].out \in Renderings
    BY DEF RendersOK
  <2>2. QED
    BY <2>1, OthersAreFinite
<1>3. Cardinality(Copies(rs)) \in Nat /\ Cardinality(Held(rs)) \in Nat
  BY <1>1, <1>2, FS_CardinalityType
<1>4. QED
  BY <1>3 DEF Images

\* The accounting in terms of the images of the threads.
LEMMA Accounted ==
  StoreOK(records, filed) /\ RendersOK(renders) =>
    (ImagesAccounted <=> opened = Cardinality(Owned) + Images(renders))
<1> SUFFICES ASSUME StoreOK(records, filed), RendersOK(renders)
             PROVE  ImagesAccounted <=> opened = Cardinality(Owned) + Images(renders)
  OBVIOUS
<1>1. ImagesAccounted <=>
        opened = Cardinality(Owned) + Cardinality(Copies(renders)) + Cardinality(Held(renders))
  BY DEF ImagesAccounted, Copies, Held, Finished, Rendered
<1>2. Cardinality(Copies(renders)) \in Nat /\ Cardinality(Held(renders)) \in Nat
  BY RenderAssumption, ImagesType
<1>4. IsFiniteSet(Owned)
  BY DEF StoreOK, Owned
<1>5. PICK a, b, c : /\ a = Cardinality(Owned) /\ b = Cardinality(Copies(renders))
                     /\ c = Cardinality(Held(renders))
  OBVIOUS
<1>6. a \in Nat /\ b \in Nat /\ c \in Nat
  BY <1>2, <1>4, <1>5, FS_CardinalityType
<1>7. Images(renders) = b + c
  BY <1>5 DEF Images
<1>8. a + b + c = a + (b + c)
  BY <1>6
<1>9. QED
  BY <1>1, <1>5, <1>7, <1>8

\* A batch whose references are earlier observations leaves the sequence linked.
LEMMA Growing ==
  ASSUME IsSeq(observations), Linked, NEW drafts, IsSeq(drafts),
         \A i \in 1..Len(drafts) : drafts[i].parents \cup drafts[i].marks \subseteq Numbers,
         observations' = Appended(drafts)
  PROVE  /\ IsSeq(observations)' /\ Linked'
         /\ Len(observations) \in Nat /\ Len(drafts) \in Nat
         /\ Numbers = 1..Len(observations)
         /\ Numbers' = 1..(Len(observations) + Len(drafts))
         /\ Len(observations)' = Len(observations) + Len(drafts)
         /\ Batch(Len(drafts)) \subseteq Numbers'
         /\ \A n \in Numbers : n \in Numbers' /\ observations'[n] = observations[n]
         /\ \A i \in 1..Len(drafts) : observations'[Len(observations) + i] = drafts[i]
<1>0. PICK s, u : s = observations /\ u = observations'
  OBVIOUS
<1>1. u = s \o drafts /\ IsSeq(s)
  BY <1>0 DEF Appended
<1>2. /\ IsSeq(u) /\ Len(s) \in Nat /\ Len(drafts) \in Nat /\ Len(u) = Len(s) + Len(drafts)
      /\ DOMAIN s = 1..Len(s)
      /\ DOMAIN u = 1..(Len(s) + Len(drafts))
      /\ \A i \in 1..Len(s) : u[i] = s[i]
      /\ \A i \in 1..Len(drafts) : u[Len(s) + i] = drafts[i]
  <2>1. Joined(s, drafts, u)
    BY <1>1, ConcatFacts
  <2>2. QED
    BY <2>1 DEF Joined
<1>3. PICK m, n \in Nat : m = Len(s) /\ n = Len(drafts)
  BY <1>2
<1>4. Numbers = 1..m /\ Numbers' = 1..(m + n)
  BY <1>0, <1>2, <1>3 DEF Numbers
<1>5. \A i \in 1..m : i \in Numbers' /\ u[i] = s[i]
  BY <1>2, <1>3, <1>4
<1>6. ASSUME NEW j \in 1..(m + n), NEW k \in u[j].parents \cup u[j].marks
      PROVE  k \in 1..(m + n) /\ k < j
  <2>1. CASE j \in 1..m
    <3>1. u[j] = s[j]
      BY <1>5, <2>1
    <3>2. k \in 1..m /\ k < j
      BY <1>0, <1>4, <1>6, <2>1, <3>1 DEF Linked
    <3>3. QED
      BY <1>3, <3>2
  <2>2. CASE j \notin 1..m
    <3>1. j - m \in 1..n /\ m + (j - m) = j
      BY <1>3, <1>6, <2>2
    <3>2. u[j] = drafts[j - m]
      BY <1>2, <1>3, <3>1
    <3>3. k \in 1..m
      BY <1>3, <1>4, <1>6, <3>1, <3>2
    <3>4. QED
      BY <1>3, <1>6, <2>2, <3>3
  <2>3. QED
    BY <2>1, <2>2
<1>7. Linked'
  BY <1>0, <1>4, <1>6 DEF Linked
<1>8. Batch(n) \subseteq Numbers'
  BY <1>0, <1>3, <1>4 DEF Batch
<1>9. IsSeq(observations)'
  BY <1>0, <1>2
<1>10. QED
  BY <1>0, <1>2, <1>3, <1>4, <1>5, <1>7, <1>8, <1>9

\* Steps that leave stores and threads alone.
LEMMA ElsewhereKeeps ==
  ASSUME EvidenceInv, UNCHANGED <<records, filed, opened, observations, renders>>,
         OperationIsKnown', ToolIsKnown', report'.outcome # "refused"
  PROVE  EvidenceInv'
<1>1. StoreOK(records, filed)' /\ RendersOK(renders)' /\ IsSeq(observations)'
  BY DEF EvidenceInv
<1>2. ImagesAccounted'
  BY DEF EvidenceInv, ImagesAccounted, Rendered, Owned
<1>3. Linked' /\ Derivations'
  BY DEF EvidenceInv, Linked, Derivations, Numbers, Owned
<1>4. QED
  BY <1>1, <1>2, <1>3 DEF EvidenceInv

\* Steps that file observations and leave the other store alone.
LEMMA FilingKeeps ==
  ASSUME EvidenceInv, UNCHANGED <<records, filed, opened>>,
         RendersOK(renders)', Images(renders)' = Images(renders),
         NEW drafts, IsSeq(drafts), observations' = Appended(drafts),
         \A i \in 1..Len(drafts) : drafts[i].parents \cup drafts[i].marks \subseteq Numbers,
         OperationIsKnown', ToolIsKnown', report'.outcome # "refused"
  PROVE  EvidenceInv'
<1>1. StoreOK(records, filed)'
  BY DEF EvidenceInv
<1>2. ImagesAccounted'
  <2>1. opened = Cardinality(Owned) + Images(renders)
    BY Accounted DEF EvidenceInv
  <2>2. opened' = Cardinality(Owned)' + Images(renders)'
    BY <2>1 DEF Owned
  <2>3. (StoreOK(records, filed) /\ RendersOK(renders) =>
           (ImagesAccounted <=> opened = Cardinality(Owned) + Images(renders)))'
    BY Accounted, PTL
  <2>4. QED
    BY <1>1, <2>2, <2>3
<1>3. IsSeq(observations) /\ Linked
  BY DEF EvidenceInv
<1>4. /\ IsSeq(observations)' /\ Linked'
      /\ \A n \in Numbers : n \in Numbers' /\ observations'[n] = observations[n]
  BY <1>3, Growing
<1>5. Derivations'
  <2>1. ASSUME NEW a \in (Owned \ {RootId})'
        PROVE  (\E n \in Numbers : /\ observations[n].kind = "transform"
                                   /\ observations[n].asset = a
                                   /\ observations[n].from = records[a].parent)'
    <3>1. PICK n \in Numbers : /\ observations[n].kind = "transform"
                               /\ observations[n].asset = a
                               /\ observations[n].from = records[a].parent
      BY <2>1 DEF EvidenceInv, Derivations, Owned
    <3>2. n \in Numbers' /\ observations'[n] = observations[n] /\ records'[a] = records[a]
      BY <1>4
    <3>3. QED
      BY <3>1, <3>2
  <2>2. QED
    BY <2>1 DEF Derivations
<1>6. QED
  BY <1>1, <1>2, <1>4, <1>5 DEF EvidenceInv

-----------------------------------------------------------------------------
\* The fields of an operation and of a tool call.
LEMMA Shapes ==
  /\ NoTool = [asset |-> NoTool.asset, capability |-> NoTool.capability,
               sources |-> NoTool.sources, slot |-> NoTool.slot, first |-> NoTool.first,
               fresh |-> NoTool.fresh, dropped |-> NoTool.dropped]
  /\ \A k, f, n, p : LET o == [kind |-> k, failFast |-> f, first |-> n, parents |-> p]
                     IN  o = [kind |-> o.kind, failFast |-> o.failFast, first |-> o.first,
                              parents |-> o.parents]
  BY DEF NoTool

\* Operations begin with no evidence in hand.
LEMMA BeginKeeps ==
  ASSUME EvidenceInv, NEW kind, NEW failFast, NEW items, NEW start, start \in {"gather", "initial"},
         BeginOperation(kind, failFast, items, start)
  PROVE  EvidenceInv'
<1>1. UNCHANGED <<records, filed, opened, observations, renders>> /\ report'.outcome # "refused"
  BY DEF BeginOperation, assetVars
<1>2. OperationIsKnown'
  <2>1. op' = [kind |-> kind, failFast |-> failFast, first |-> Len(observations), parents |-> {}]
    BY DEF BeginOperation
  <2>2. QED
    BY <2>1 DEF OperationIsKnown
<1>3. ToolIsKnown'
  <2>1. tool' = NoTool /\ pc' \notin {"render", "created", "telling"}
    BY DEF BeginOperation
  <2>2. QED
    BY <2>1, Shapes DEF ToolIsKnown
<1>4. QED
  BY <1>1, <1>2, <1>3, ElsewhereKeeps

\* An operation that ends lets go of its tool call.
LEMMA EndKeeps ==
  ASSUME EvidenceInv, NEW outcome, NEW listed, outcome # "refused", End(outcome, listed),
         UNCHANGED <<records, filed, opened, observations, op, renders>>
  PROVE  EvidenceInv'
<1>1. report'.outcome # "refused"
  BY DEF End
<1>2. OperationIsKnown'
  <2>1. pc' = "idle" /\ UNCHANGED op
    BY DEF End
  <2>2. QED
    BY <2>1 DEF EvidenceInv, OperationIsKnown
<1>3. ToolIsKnown'
  <2>1. UNCHANGED tool /\ pc' \notin {"render", "created", "telling"}
    BY DEF End
  <2>2. QED
    BY <2>1 DEF EvidenceInv, ToolIsKnown
<1>4. QED
  BY <1>1, <1>2, <1>3, ElsewhereKeeps

\* Steps of the operation's own bookkeeping.
LEMMA BookkeepingKeeps ==
  ASSUME EvidenceInv, UNCHANGED <<records, filed, opened, observations, op, renders, report>>,
         \/ UNCHANGED <<pc, tool>>
         \/ /\ pc # "idle" /\ pc' \notin {"render", "created", "telling"}
            /\ \/ UNCHANGED tool
               \/ \E asset, c : tool' = [NoTool EXCEPT !.asset = asset, !.capability = c]
  PROVE  EvidenceInv'
<1>1. report'.outcome # "refused"
  BY DEF EvidenceInv
<1>2. OperationIsKnown'
  <2>1. pc' # "idle" => pc # "idle"
    OBVIOUS
  <2>2. UNCHANGED <<op, observations>>
    OBVIOUS
  <2>3. QED
    BY <2>1, <2>2 DEF EvidenceInv, OperationIsKnown, Numbers
<1>3. ToolIsKnown'
  <2>1. CASE UNCHANGED <<pc, tool>>
    BY <2>1 DEF EvidenceInv, ToolIsKnown, Numbers, Owned, Markable
  <2>2. CASE /\ pc # "idle" /\ pc' \notin {"render", "created", "telling"}
             /\ UNCHANGED tool
    BY <2>2 DEF EvidenceInv, ToolIsKnown
  <2>3. CASE /\ pc # "idle" /\ pc' \notin {"render", "created", "telling"}
             /\ \E asset, c : tool' = [NoTool EXCEPT !.asset = asset, !.capability = c]
    BY <2>3 DEF ToolIsKnown, NoTool
  <2>4. QED
    BY <2>1, <2>2, <2>3
<1>4. QED
  BY <1>1, <1>2, <1>3, ElsewhereKeeps

\* Starting, finishing and giving up jobs changes no store.
LEMMA InspectionSteps ==
  ASSUME EvidenceInv, NEW i,
         \/ StartJob(i) \/ FinishJob(i) \/ EndInspect
         \/ InitialCall(i) \/ InitialFailure(i) \/ StartLoop
         \/ EndAsk \/ BeginClose
  PROVE  EvidenceInv'
<1>1. CASE StartJob(i) \/ FinishJob(i) \/ InitialCall(i) \/ BeginClose
  <2>1. UNCHANGED <<records, filed, opened, observations, op, renders, report, pc, tool>>
    BY <1>1 DEF StartJob, FinishJob, InitialCall, BeginClose, assetVars
  <2>2. QED
    BY <2>1, BookkeepingKeeps
<1>2. CASE StartLoop
  <2>1. /\ UNCHANGED <<records, filed, opened, observations, op, renders, report, tool>>
        /\ pc # "idle" /\ pc' \notin {"render", "created", "telling"}
    BY <1>2 DEF StartLoop, assetVars
  <2>2. QED
    BY <2>1, BookkeepingKeeps
<1>3. CASE EndInspect
  <2>1. PICK outcome, listed : /\ End(outcome, listed) /\ outcome \in {"failed", "ok"}
    BY <1>3 DEF EndInspect
  <2>2. UNCHANGED <<records, filed, opened, observations, op, renders>> /\ outcome # "refused"
    BY <1>3, <2>1 DEF EndInspect, assetVars
  <2>3. QED
    BY <2>1, <2>2, EndKeeps
<1>4. CASE InitialFailure(i)
  <2>1. /\ UNCHANGED <<records, filed, opened, observations, op, renders>>
        /\ End("failed", <<>>)
    BY <1>4 DEF InitialFailure, assetVars
  <2>2. QED
    BY <2>1, EndKeeps
<1>5. CASE EndAsk
  <2>1. /\ UNCHANGED <<records, filed, opened, observations, op, renders>>
        /\ End("ok", <<>>)
    BY <1>5 DEF EndAsk, assetVars
  <2>2. QED
    BY <2>1, EndKeeps
<1>6. QED
  BY <1>1, <1>2, <1>3, <1>4, <1>5

\* A perception opens no image.
LEMMA BeginPerceiveKeeps ==
  ASSUME EvidenceInv, NEW asset, NEW c, BeginPerceive(asset, c)
  PROVE  EvidenceInv'
<1>1. /\ UNCHANGED <<records, filed, opened, observations, op, renders, report>>
      /\ pc # "idle" /\ pc' \notin {"render", "created", "telling"}
      /\ tool' = [NoTool EXCEPT !.asset = asset, !.capability = c]
  BY DEF BeginPerceive, assetVars
<1>2. QED
  BY <1>1, BookkeepingKeeps

\* A draft that refers to earlier observations only, alone or none at all.
Sound(drafts) ==
  /\ IsSeq(drafts)
  /\ \A i \in 1..Len(drafts) : drafts[i].parents \cup drafts[i].marks \subseteq Numbers

\* Perceptions and warnings that refer to what is in hand are sound.
LEMMA SoundDrafts ==
  /\ Sound(<<>>)
  /\ \A kind, asset, from, parents :
       parents \subseteq Numbers => Sound(<<Draft(kind, asset, from, parents, {})>>)
<1>1. Sound(<<>>)
  BY ShortSeqs DEF Sound
<1>2. ASSUME NEW kind, NEW asset, NEW from, NEW parents, parents \subseteq Numbers
      PROVE  Sound(<<Draft(kind, asset, from, parents, {})>>)
  <2>1. PICK d : d = Draft(kind, asset, from, parents, {})
    OBVIOUS
  <2>2. d.parents \cup d.marks \subseteq Numbers
    BY <1>2, <2>1 DEF Draft
  <2>3. IsSeq(<<d>>) /\ Len(<<d>>) = 1 /\ <<d>>[1] = d
    BY ShortSeqs
  <2>4. \A k \in 1..1 : k = 1
    OBVIOUS
  <2>5. QED
    BY <2>1, <2>2, <2>3, <2>4 DEF Sound
<1>3. QED
  BY <1>1, <1>2

\* Filing drafts hands on what is in hand and what is new.
LEMMA FileKeeps ==
  ASSUME EvidenceInv, NEW drafts, Sound(drafts), NEW parents, parents \subseteq Numbers,
         File(drafts, parents), UNCHANGED <<records, filed, opened, report>>,
         RendersOK(renders)', Images(renders)' = Images(renders),
         pc' \notin {"render", "created", "telling"}, UNCHANGED tool \/ tool' = NoTool
  PROVE  EvidenceInv'
<1>1. report'.outcome # "refused"
  BY DEF EvidenceInv
<1>2. observations' = Appended(drafts)
  BY DEF File
<1>3. /\ Batch(Len(drafts)) \subseteq Numbers'
      /\ \A n \in Numbers : n \in Numbers' /\ observations'[n] = observations[n]
  BY <1>2, Growing DEF EvidenceInv, Sound
<1>4. OperationIsKnown'
  <2>1. op' = [op EXCEPT !.parents = parents \cup Batch(Len(drafts))]
    BY DEF File
  <2>2. op = [kind |-> op.kind, failFast |-> op.failFast, first |-> op.first,
              parents |-> op.parents]
    BY DEF EvidenceInv, OperationIsKnown
  <2>3. PICK q : q = parents \cup Batch(Len(drafts))
    OBVIOUS
  <2>4. op' = [kind |-> op.kind, failFast |-> op.failFast, first |-> op.first, parents |-> q]
    BY <2>1, <2>2, <2>3
  <2>5. q \subseteq Numbers'
    BY <1>3, <2>3
  <2>6. QED
    BY <2>4, <2>5 DEF OperationIsKnown
<1>5. ToolIsKnown'
  <2>1. CASE UNCHANGED tool
    BY <2>1 DEF EvidenceInv, ToolIsKnown
  <2>2. CASE tool' = NoTool
    BY <2>2, Shapes DEF ToolIsKnown
  <2>3. QED
    BY <2>1, <2>2
<1>6. QED
  BY <1>1, <1>2, <1>4, <1>5, FilingKeeps DEF Sound

\* An outcome of an inspection is committed, or was empty.
LEMMA CommitOutcomeKeeps ==
  ASSUME EvidenceInv, NEW i, CommitOutcome(i) PROVE EvidenceInv'
<1>1. PICK drafts : /\ drafts = IF jobs[i] = "ok" THEN <<Found(i)>> ELSE <<>>
                    /\ observations' = Appended(drafts)
  BY DEF CommitOutcome
<1>2. Sound(drafts)
  <2>1. Found(i) = Draft(plan[i].capability, plan[i].asset, None, {}, {})
    BY DEF Found
  <2>2. QED
    BY <1>1, <2>1, SoundDrafts
<1>3. UNCHANGED <<records, filed, opened, renders, report, op, tool, pc>>
  BY DEF CommitOutcome, assetVars
<1>4. pc = "gather" /\ pc' = "gather"
  BY <1>3 DEF CommitOutcome
<1>5. \A n \in Numbers : n \in Numbers'
  BY <1>1, <1>2, Growing DEF EvidenceInv, Sound
<1>6. OperationIsKnown'
  BY <1>3, <1>5 DEF EvidenceInv, OperationIsKnown
<1>7. ToolIsKnown'
  BY <1>3, <1>4 DEF EvidenceInv, ToolIsKnown
<1>8. RendersOK(renders)' /\ Images(renders)' = Images(renders) /\ report'.outcome # "refused"
  BY <1>3 DEF EvidenceInv
<1>9. QED
  BY <1>1, <1>2, <1>3, <1>6, <1>7, <1>8, FilingKeeps DEF Sound

\* An initial perception is filed with its warning.
LEMMA InitialResultKeeps ==
  ASSUME EvidenceInv, NEW i, InitialResult(i) PROVE EvidenceInv'
<1>1. /\ UNCHANGED <<records, filed, opened, renders, report, tool, pc>> /\ pc = "initial"
  BY DEF InitialResult, assetVars
<1>2. PICK found : File(<<Perception(plan[i].capability, RootId, {}, found)>>, op.parents)
  BY DEF InitialResult
<1>3. PICK drafts : drafts = <<Perception(plan[i].capability, RootId, {}, found)>>
  OBVIOUS
<1>4. Sound(drafts)
  BY <1>3, SoundDrafts DEF Perception, Warning
<1>5. op.parents \subseteq Numbers
  BY <1>1 DEF EvidenceInv, OperationIsKnown
<1>6. RendersOK(renders)' /\ Images(renders)' = Images(renders)
  BY <1>1 DEF EvidenceInv
<1>7. QED
  BY <1>1, <1>2, <1>3, <1>4, <1>5, <1>6, FileKeeps

\* A refused or finished perception is filed.
LEMMA TurnSteps ==
  ASSUME EvidenceInv, RefuseTool \/ EndPerceive PROVE EvidenceInv'
<1>1. /\ UNCHANGED <<records, filed, opened, renders, report>> /\ pc # "idle"
      /\ pc' \notin {"render", "created", "telling"} /\ (UNCHANGED tool \/ tool' = NoTool)
  BY DEF RefuseTool, EndPerceive, assetVars
<1>2. op.parents \subseteq Numbers
  BY <1>1 DEF EvidenceInv, OperationIsKnown
<1>3. PICK drafts : Sound(drafts) /\ File(drafts, {})
  <2>1. CASE RefuseTool
    <3>1. File(<<Warning(RootId, op.parents)>>, {})
      BY <2>1 DEF RefuseTool
    <3>2. Sound(<<Warning(RootId, op.parents)>>)
      BY <1>2, SoundDrafts DEF Warning
    <3>3. QED
      BY <3>1, <3>2
  <2>2. CASE EndPerceive
    <3>1. Sound(<<Warning(RootId, op.parents)>>)
      BY <1>2, SoundDrafts DEF Warning
    <3>2. \A found : Sound(<<Perception(tool.capability, tool.asset, op.parents, found)>>)
      BY <1>2, SoundDrafts DEF Perception, Warning
    <3>3. \/ \E found \in BOOLEAN :
               File(<<Perception(tool.capability, tool.asset, op.parents, found)>>, {})
          \/ File(<<Warning(RootId, op.parents)>>, {})
      BY <2>2 DEF EndPerceive
    <3>4. QED
      BY <3>1, <3>2, <3>3
  <2>3. QED
    BY <2>1, <2>2
<1>4. RendersOK(renders)' /\ Images(renders)' = Images(renders)
  BY <1>1 DEF EvidenceInv
<1>5. QED
  BY <1>1, <1>3, <1>4, FileKeeps

\* Telling the trace about one asset keeps what is known of the tool call.
LEMMA TellAssetKnown ==
  ASSUME EvidenceInv, pc \in {"created", "telling"}, NEW m \in Nat, NEW all, Len(all) = m,
         TellAsset(all), Numbers' = 1..m, Numbers \subseteq 1..m
  PROVE  OperationIsKnown' /\ ToolIsKnown'
<1>1. PICK own : own = tool.first..m
  OBVIOUS
<1>2. \/ pc' = "turn" /\ tool' = NoTool /\ op' = [op EXCEPT !.parents = own]
      \/ pc' = "telling" /\ UNCHANGED <<tool, op>>
  BY <1>1 DEF TellAsset
<1>3. tool.first \in Nat \ {0}
  BY DEF EvidenceInv, ToolIsKnown
<1>4. op = [kind |-> op.kind, failFast |-> op.failFast, first |-> op.first,
            parents |-> op.parents]
  BY DEF EvidenceInv, OperationIsKnown
<1>5. CASE pc' = "turn" /\ tool' = NoTool /\ op' = [op EXCEPT !.parents = own]
  <2>1. op' = [kind |-> op.kind, failFast |-> op.failFast, first |-> op.first, parents |-> own]
    BY <1>4, <1>5
  <2>2. own \subseteq Numbers'
    BY <1>1, <1>3
  <2>3. OperationIsKnown'
    BY <2>1, <2>2 DEF OperationIsKnown
  <2>4. ToolIsKnown'
    BY <1>5, Shapes DEF ToolIsKnown
  <2>5. QED
    BY <2>3, <2>4
<1>6. CASE pc' = "telling" /\ UNCHANGED <<tool, op>>
  <2>1. op.parents \subseteq Numbers'
    <3>1. op.parents \subseteq Numbers
      BY DEF EvidenceInv, OperationIsKnown
    <3>2. QED
      BY <3>1
  <2>2. OperationIsKnown'
    BY <1>4, <1>6, <2>1 DEF OperationIsKnown
  <2>3. ToolIsKnown'
    BY <1>3, <1>6 DEF EvidenceInv, ToolIsKnown
  <2>4. QED
    BY <2>2, <2>3
<1>7. QED
  BY <1>2, <1>5, <1>6

\* The records of a transform are announced, with a warning about marks left out.
LEMMA AnnounceKeeps ==
  ASSUME EvidenceInv, AnnounceAssets PROVE EvidenceInv'
<1>1. /\ UNCHANGED <<records, filed, opened, renders, report>> /\ pc = "created"
      /\ TellAsset(observations')
  BY DEF AnnounceAssets, assetVars
<1>2. PICK own : own = tool.first..Len(observations)
  OBVIOUS
<1>3. own \subseteq Numbers
  <2>1. tool.first \in Nat \ {0}
    BY <1>1 DEF EvidenceInv, ToolIsKnown
  <2>2. Len(observations) \in Nat /\ Numbers = 1..Len(observations)
    <3>1. PICK S : observations \in Seq(S)
      BY DEF EvidenceInv, IsSeq
    <3>2. QED
      BY <3>1, LenProperties DEF Numbers
  <2>3. QED
    BY <1>2, <2>1, <2>2
<1>4. PICK drafts : /\ drafts = IF tool.dropped THEN <<Warning(tool.asset, own)>> ELSE <<>>
                    /\ observations' = Appended(drafts)
  BY <1>2 DEF AnnounceAssets
<1>5. Sound(drafts)
  BY <1>3, <1>4, SoundDrafts DEF Warning
<1>6. RendersOK(renders)' /\ Images(renders)' = Images(renders) /\ report'.outcome # "refused"
  BY <1>1 DEF EvidenceInv
<1>7. /\ Len(observations) \in Nat /\ Len(drafts) \in Nat
      /\ Numbers' = 1..(Len(observations) + Len(drafts))
      /\ Len(observations)' = Len(observations) + Len(drafts)
      /\ \A n \in Numbers : n \in Numbers'
  BY <1>4, <1>5, Growing DEF EvidenceInv, Sound
<1>8. OperationIsKnown' /\ ToolIsKnown'
  <2>1. PICK m \in Nat : m = Len(observations) + Len(drafts)
    BY <1>7
  <2>2. Len(observations') = m /\ Numbers' = 1..m /\ Numbers \subseteq 1..m
    BY <1>7, <2>1
  <2>3. QED
    BY <1>1, <1>7, <2>2, TellAssetKnown
<1>9. QED
  BY <1>1, <1>4, <1>5, <1>6, <1>8, FilingKeeps DEF Sound

\* The trace is told of the next asset.
LEMMA TellNextKeeps ==
  ASSUME EvidenceInv, TellNext PROVE EvidenceInv'
<1>1. /\ UNCHANGED <<records, filed, opened, renders, report, observations>>
      /\ pc = "telling" /\ TellAsset(observations)
  BY DEF TellNext, assetVars
<1>2. PICK m \in Nat : m = Len(observations) /\ Numbers = 1..m
  <2>1. PICK S : observations \in Seq(S)
    BY DEF EvidenceInv, IsSeq
  <2>2. QED
    BY <2>1, LenProperties DEF Numbers
<1>3. Numbers' = 1..m
  BY <1>1, <1>2 DEF Numbers
<1>4. OperationIsKnown' /\ ToolIsKnown'
  BY <1>1, <1>2, <1>3, TellAssetKnown
<1>5. report'.outcome # "refused"
  BY <1>1 DEF EvidenceInv
<1>6. QED
  BY <1>1, <1>4, <1>5, ElsewhereKeeps

-----------------------------------------------------------------------------
\* A thread in a state.
Thread3(state, wanted, out) == [state |-> state, wanted |-> wanted, out |-> out]

\* The images a thread has open in a state.
Open(state, out) == IF state = "running" THEN 1 ELSE IF state = "done" THEN Len(out) ELSE 0

\* What a thread may have produced in a state.
Fits(state, out) ==
  /\ state = "done" => out \in Renderings
  /\ state \in {"free", "failed"} => out = <<>>

\* Another state of one thread.
Replaced(rs, r, state, out, now) ==
  /\ RendersOK(now) /\ \A q \in RenderSlots \ {r} : now[q] = rs[q]
  /\ Share(now, r) = Open(state, out)

\* Only the share of that thread changes.
LEMMA ThreadReplaced ==
  ASSUME RenderAssumption, NEW rs, RendersOK(rs), NEW r \in RenderSlots,
         NEW state, NEW wanted, NEW out, Fits(state, out),
         NEW now, now = [rs EXCEPT ![r] = Thread3(state, wanted, out)]
  PROVE  Replaced(rs, r, state, out, now)
<1>1. /\ rs = [q \in RenderSlots |-> Thread3(rs[q].state, rs[q].wanted, rs[q].out)]
      /\ \A q \in RenderSlots :
           /\ rs[q].state = "done" => rs[q].out \in Renderings
           /\ rs[q].state \in {"free", "failed"} => rs[q].out = <<>>
  BY DEF RendersOK, Thread3
<1>2. PICK x : x = Thread3(state, wanted, out)
  OBVIOUS
<1>3. x.state = state /\ x.wanted = wanted /\ x.out = out /\ x = Thread3(x.state, x.wanted, x.out)
  BY <1>2 DEF Thread3
<1>4. /\ DOMAIN rs = RenderSlots
      /\ \A q \in RenderSlots : rs[q] = Thread3(rs[q].state, rs[q].wanted, rs[q].out)
  BY <1>1
<1>5. now = [q \in RenderSlots |-> IF q = r THEN x ELSE rs[q]]
  BY <1>2, <1>4
<1>6. now[r] = x /\ \A q \in RenderSlots \ {r} : now[q] = rs[q]
  BY <1>5
<1>7. \A q \in RenderSlots : now[q] = Thread3(now[q].state, now[q].wanted, now[q].out)
  BY <1>3, <1>4, <1>6
<1>8. now = [q \in RenderSlots |-> Thread3(now[q].state, now[q].wanted, now[q].out)]
  BY <1>5, <1>7
<1>9. \A q \in RenderSlots :
           /\ now[q].state = "done" => now[q].out \in Renderings
           /\ now[q].state \in {"free", "failed"} => now[q].out = <<>>
  BY <1>1, <1>3, <1>6 DEF Fits
<1>10. RendersOK(now)
  BY <1>8, <1>9 DEF RendersOK, Thread3
<1>11. Share(now, r) = Open(state, out)
  BY <1>3, <1>6 DEF Share, Open
<1>12. QED
  BY <1>6, <1>10, <1>11 DEF Replaced

\* The books balance when what is opened or closed is what a thread or the store
\* has more or less.
LEMMA AccountingKeeps ==
  ASSUME EvidenceInv, RenderAssumption, StoreOK(records, filed)', RendersOK(renders)',
         NEW r \in RenderSlots, \A q \in RenderSlots \ {r} : renders'[q] = renders[q],
         opened \in Nat =>
           opened' = (opened - Share(renders, r)) + Share(renders', r)
                     + (Cardinality(Owned)' - Cardinality(Owned))
  PROVE  ImagesAccounted'
<1>1. /\ Others(renders, r) \in Nat /\ Share(renders, r) \in Nat /\ Share(renders', r) \in Nat
      /\ Images(renders) = Others(renders, r) + Share(renders, r)
      /\ Images(renders') = Others(renders, r) + Share(renders', r)
  <2>1. PICK rs, now : rs = renders /\ now = renders'
    OBVIOUS
  <2>2. RendersOK(rs) /\ RendersOK(now) /\ \A q \in RenderSlots \ {r} : now[q] = rs[q]
    BY <2>1 DEF EvidenceInv
  <2>3. /\ Others(rs, r) \in Nat /\ Share(rs, r) \in Nat /\ Share(now, r) \in Nat
        /\ Images(rs) = Others(rs, r) + Share(rs, r)
        /\ Images(now) = Others(rs, r) + Share(now, r)
    BY <2>2, OneThread
  <2>4. QED
    BY <2>1, <2>3
<1>2. opened = Cardinality(Owned) + Images(renders)
  BY Accounted DEF EvidenceInv
<1>3. (StoreOK(records, filed) /\ RendersOK(renders) =>
           (ImagesAccounted <=> opened = Cardinality(Owned) + Images(renders)))'
  BY Accounted, PTL
<1>4. IsFiniteSet(Owned) /\ IsFiniteSet(Owned')
  BY DEF EvidenceInv, StoreOK, Owned
<1>5. PICK a, b, o, s, t :
        /\ a = Cardinality(Owned) /\ b = Cardinality(Owned') /\ o = Others(renders, r)
        /\ s = Share(renders, r) /\ t = Share(renders', r)
  OBVIOUS
<1>6. a \in Nat /\ b \in Nat /\ o \in Nat /\ s \in Nat /\ t \in Nat
  BY <1>1, <1>4, <1>5, FS_CardinalityType
<1>7. opened = a + (o + s) /\ opened \in Nat
  <2>1. Images(renders) = o + s
    BY <1>1, <1>5
  <2>2. opened = a + (o + s)
    BY <1>2, <1>5, <2>1
  <2>3. QED
    BY <1>6, <2>2
<1>8. opened' = (opened - s) + t + (b - a)
  BY <1>5, <1>7
<1>9. opened' = b + (o + t)
  BY <1>6, <1>7, <1>8
<1>10. opened' = Cardinality(Owned') + Images(renders')
  BY <1>1, <1>5, <1>9
<1>11. QED
  BY <1>3, <1>10

\* Steps of one thread, with the store and the observations as they are.
LEMMA ThreadKeeps ==
  ASSUME EvidenceInv, RenderAssumption, UNCHANGED <<records, filed, observations>>,
         NEW r \in RenderSlots, NEW state, NEW wanted, NEW out, Fits(state, out),
         renders' = [renders EXCEPT ![r] = Thread3(state, wanted, out)],
         opened \in Nat => opened' = (opened - Share(renders, r)) + Open(state, out),
         OperationIsKnown', ToolIsKnown', report'.outcome # "refused"
  PROVE  EvidenceInv'
<1>1. StoreOK(records, filed)' /\ IsSeq(observations)' /\ Linked' /\ Derivations'
  BY DEF EvidenceInv, Linked, Derivations, Numbers, Owned
<1>2. PICK rs, now : rs = renders /\ now = renders'
  OBVIOUS
<1>3. RendersOK(rs) /\ now = [rs EXCEPT ![r] = Thread3(state, wanted, out)]
  BY <1>2 DEF EvidenceInv
<1>a. Replaced(rs, r, state, out, now)
  BY <1>3, ThreadReplaced
<1>4. /\ RendersOK(now) /\ \A q \in RenderSlots \ {r} : now[q] = rs[q]
      /\ Share(now, r) = Open(state, out)
  BY <1>a DEF Replaced
<1>5. /\ RendersOK(renders)' /\ \A q \in RenderSlots \ {r} : renders'[q] = renders[q]
      /\ Share(renders', r) = Open(state, out)
  BY <1>2, <1>4
<1>6. Share(renders, r) \in Nat /\ Share(renders', r) \in Nat
  BY <1>2, <1>3, <1>4, SharesAddUp
<1>7. Cardinality(Owned)' = Cardinality(Owned) /\ Cardinality(Owned) \in Nat
  <2>1. IsFiniteSet(Owned)
    BY DEF EvidenceInv, StoreOK, Owned
  <2>2. QED
    BY <2>1, FS_CardinalityType DEF Owned
<1>8. opened \in Nat =>
           opened' = (opened - Share(renders, r)) + Share(renders', r)
                     + (Cardinality(Owned)' - Cardinality(Owned))
  <2>1. PICK s, t, a : s = Share(renders, r) /\ t = Share(renders', r) /\ a = Cardinality(Owned)
    OBVIOUS
  <2>2. s \in Nat /\ t \in Nat /\ a \in Nat /\ (opened \in Nat => opened' = (opened - s) + t)
    BY <1>5, <1>6, <1>7, <2>1
  <2>3. opened \in Nat => (opened - s) + t = (opened - s) + t + (a - a)
    BY <2>2
  <2>4. QED
    BY <1>7, <2>1, <2>2, <2>3
<1>9. ImagesAccounted'
  BY <1>1, <1>5, <1>8, AccountingKeeps
<1>10. QED
  BY <1>1, <1>5, <1>9 DEF EvidenceInv

-----------------------------------------------------------------------------
\* Whether somebody wants what a thread renders.
LEMMA WantedReplaced ==
  ASSUME NEW rs, RendersOK(rs), NEW r \in RenderSlots, NEW wanted
  PROVE  [rs EXCEPT ![r].wanted = wanted]
           = [rs EXCEPT ![r] = Thread3(rs[r].state, wanted, rs[r].out)]
<1>1. PICK s, w, o : s = rs[r].state /\ w = rs[r].wanted /\ o = rs[r].out
  OBVIOUS
<1>2. DOMAIN rs = RenderSlots /\ rs[r] = Thread3(rs[r].state, rs[r].wanted, rs[r].out)
  BY DEF RendersOK, Thread3
<1>3. DOMAIN rs = RenderSlots /\ rs[r] = Thread3(s, w, o)
  BY <1>1, <1>2
<1>4. [Thread3(s, w, o) EXCEPT !.wanted = wanted] = Thread3(s, wanted, o)
  BY DEF Thread3
<1>5. [rs EXCEPT ![r].wanted = wanted] = [rs EXCEPT ![r] = Thread3(s, wanted, o)]
  BY <1>3, <1>4
<1>6. QED
  BY <1>1, <1>5

\* A render thread that is free again.
LEMMA FreeThread ==
  /\ Free = Thread3("free", FALSE, <<>>) /\ Fits("free", <<>>) /\ Open("free", <<>>) = 0
  BY DEF Free, Thread3, Fits, Open

\* The operation and its tool call are as they were.
LEMMA NothingElse ==
  ASSUME EvidenceInv, UNCHANGED <<records, observations, pc, op, tool, report>>
  PROVE  OperationIsKnown' /\ ToolIsKnown' /\ report'.outcome # "refused"
BY DEF EvidenceInv, OperationIsKnown, ToolIsKnown, Numbers, Owned, Markable

\* A thread gets a copy of one image.
LEMMA BeginRenderKeeps ==
  ASSUME EvidenceInv, RenderAssumption, NEW asset \in Owned, NEW sources, sources \subseteq Numbers,
         NEW count, NEW slot \in RenderSlots, BeginRender(asset, sources, count, slot)
  PROVE  EvidenceInv'
<1>1. PICK out : renders' = [renders EXCEPT ![slot] = Thread3("running", TRUE, out)]
  BY DEF BeginRender, Thread3
<1>2. Fits("running", out) /\ Open("running", out) = 1
  BY DEF Fits, Open
<1>3. /\ UNCHANGED <<records, filed, observations, op, report>> /\ pc = "turn" /\ pc' = "render"
      /\ tool' = [NoTool EXCEPT !.asset = asset, !.sources = sources, !.slot = slot]
      /\ Markable(asset, sources)
  BY DEF BeginRender
<1>4. Share(renders, slot) = 0
  <2>1. renders[slot] = Free
    BY DEF BeginRender
  <2>2. QED
    BY <2>1 DEF Share, Free
<1>5. opened \in Nat => opened' = (opened - Share(renders, slot)) + Open("running", out)
  <2>1. opened' = opened + 1
    BY DEF BeginRender
  <2>2. opened \in Nat => opened + 1 = (opened - 0) + 1
    OBVIOUS
  <2>3. QED
    BY <1>2, <1>4, <2>1, <2>2
<1>6. OperationIsKnown'
  BY <1>3 DEF EvidenceInv, OperationIsKnown, Numbers
<1>7. ToolIsKnown'
  <2>1. tool' = [asset |-> asset, capability |-> "none", sources |-> sources, slot |-> slot,
                 first |-> 0, fresh |-> FALSE, dropped |-> FALSE]
    BY <1>3 DEF NoTool
  <2>2. /\ tool'.asset \in Owned' /\ tool'.slot \in RenderSlots
        /\ tool'.sources \subseteq Numbers' /\ Markable(tool.asset, tool.sources)'
    BY <1>3, <2>1 DEF Markable, Numbers, Owned
  <2>3. QED
    BY <1>3, <2>1, <2>2 DEF ToolIsKnown
<1>8. report'.outcome # "refused"
  BY <1>3 DEF EvidenceInv
<1>9. QED
  BY <1>1, <1>2, <1>3, <1>5, <1>6, <1>7, <1>8, ThreadKeeps

\* A thread closes its copy and holds what it rendered, or nothing.
LEMMA RenderEndsKeeps ==
  ASSUME EvidenceInv, RenderAssumption, NEW r \in RenderSlots, RenderEnds(r)
  PROVE  EvidenceInv'
<1>1. UNCHANGED <<records, filed, observations, pc, op, tool, report>>
  BY DEF RenderEnds
<1>2. Share(renders, r) = 1
  BY DEF RenderEnds, Share
<1>3. /\ DOMAIN renders = RenderSlots
      /\ renders[r] = Thread3(renders[r].state, renders[r].wanted, renders[r].out)
  BY DEF EvidenceInv, RendersOK, Thread3
<1>4. CASE \E out \in {o \in Renderings : Len(o) = Len(renders[r].out)} :
              /\ renders' = [renders EXCEPT ![r] = [state |-> "done", wanted |-> @.wanted, out |-> out]]
              /\ opened' = (opened + Len(out)) - 1
  <2>1. PICK out \in Renderings :
              /\ renders' = [renders EXCEPT ![r] = [state |-> "done", wanted |-> @.wanted, out |-> out]]
              /\ opened' = (opened + Len(out)) - 1
    BY <1>4
  <2>2. renders' = [renders EXCEPT ![r] = Thread3("done", renders[r].wanted, out)]
    BY <2>1 DEF Thread3
  <2>3. Fits("done", out) /\ Open("done", out) = Len(out)
    BY DEF Fits, Open
  <2>4. out \in Seq(Digests)
    BY DEF RenderAssumption
  <2>5. Len(out) \in Nat
    BY <2>4, LenProperties
  <2>6. opened \in Nat => opened' = (opened - Share(renders, r)) + Open("done", out)
    <3>1. opened \in Nat => (opened + Len(out)) - 1 = (opened - 1) + Len(out)
      BY <2>5
    <3>2. QED
      BY <1>2, <2>1, <2>3, <3>1
  <2>7. QED
    BY <1>1, <2>2, <2>3, <2>6, NothingElse, ThreadKeeps
<1>5. CASE /\ renders' = [renders EXCEPT ![r] = [state |-> "failed", wanted |-> @.wanted, out |-> <<>>]]
           /\ opened' = opened - 1
  <2>1. renders' = [renders EXCEPT ![r] = Thread3("failed", renders[r].wanted, <<>>)]
    BY <1>5 DEF Thread3
  <2>2. Fits("failed", <<>>) /\ Open("failed", <<>>) = 0
    BY DEF Fits, Open
  <2>3. opened \in Nat => opened' = (opened - Share(renders, r)) + Open("failed", <<>>)
    <3>1. opened \in Nat => opened - 1 = (opened - 1) + 0
      OBVIOUS
    <3>2. QED
      BY <1>2, <1>5, <2>2, <3>1
  <2>4. QED
    BY <1>1, <2>1, <2>2, <2>3, NothingElse, ThreadKeeps
<1>6. QED
  BY <1>4, <1>5 DEF RenderEnds

\* What a thread that has ended holds is what it rendered.
LEMMA EndedShare ==
  ASSUME RenderAssumption, RendersOK(renders), NEW r \in RenderSlots,
         renders[r].state \in {"done", "failed"}
  PROVE  Share(renders, r) = Len(renders[r].out) /\ Len(renders[r].out) \in Nat
<1>1. CASE renders[r].state = "done"
  <2>1. renders[r].out \in Seq(Digests)
    BY <1>1 DEF RendersOK, RenderAssumption
  <2>2. QED
    BY <1>1, <2>1, LenProperties DEF Share
<1>2. CASE renders[r].state = "failed"
  <2>1. renders[r].out = <<>>
    BY <1>2 DEF RendersOK
  <2>2. QED
    BY <1>2, <2>1, ShortSeqs DEF Share
<1>3. QED
  BY <1>1, <1>2

\* The callback closes all that a thread holds.
LEMMA CloseLateKeeps ==
  ASSUME EvidenceInv, RenderAssumption, NEW r \in RenderSlots, CloseLate(r)
  PROVE  EvidenceInv'
<1>1. UNCHANGED <<records, filed, observations, pc, op, tool, report>>
  BY DEF CloseLate
<1>2. renders' = [renders EXCEPT ![r] = Thread3("free", FALSE, <<>>)]
  BY FreeThread DEF CloseLate
<1>3. Share(renders, r) = Len(renders[r].out) /\ Len(renders[r].out) \in Nat
  BY EndedShare DEF EvidenceInv, CloseLate
<1>4. opened \in Nat => opened' = (opened - Share(renders, r)) + Open("free", <<>>)
  <2>1. opened' = opened - Len(renders[r].out)
    BY DEF CloseLate
  <2>2. PICK n \in Nat : n = Len(renders[r].out)
    BY <1>3
  <2>3. opened \in Nat => opened - n = (opened - n) + 0
    OBVIOUS
  <2>4. QED
    BY <1>3, <2>1, <2>2, <2>3, FreeThread
<1>5. QED
  BY <1>1, <1>2, <1>4, FreeThread, NothingElse, ThreadKeeps

\* A thread that failed holds nothing.
LEMMA RenderFailedKeeps ==
  ASSUME EvidenceInv, RenderAssumption, RenderFailed
  PROVE  EvidenceInv'
<1>1. /\ UNCHANGED <<records, filed, opened, report>> /\ pc = "render" /\ pc' = "turn"
      /\ tool' = NoTool /\ File(<<Warning(RootId, op.parents)>>, {})
      /\ renders[tool.slot].state = "failed"
      /\ renders' = [renders EXCEPT ![tool.slot] = Thread3("free", FALSE, <<>>)]
  BY FreeThread DEF RenderFailed, assetVars
<1>2. PICK slot : slot = tool.slot
  OBVIOUS
<1>3. slot \in RenderSlots /\ op.parents \subseteq Numbers
  BY <1>1, <1>2 DEF EvidenceInv, ToolIsKnown, OperationIsKnown
<1>4. PICK rs, now : rs = renders /\ now = renders'
  OBVIOUS
<1>5. RendersOK(rs) /\ now = [rs EXCEPT ![slot] = Thread3("free", FALSE, <<>>)]
  BY <1>1, <1>2, <1>4 DEF EvidenceInv
<1>a. Replaced(rs, slot, "free", <<>>, now)
  BY <1>3, <1>5, FreeThread, ThreadReplaced
<1>6. /\ RendersOK(now) /\ \A q \in RenderSlots \ {slot} : now[q] = rs[q]
      /\ Share(now, slot) = 0
  BY <1>a, FreeThread DEF Replaced
<1>7. Share(rs, slot) = 0
  BY <1>1, <1>2, <1>4 DEF Share
<1>8. Images(now) = Images(rs)
  <2>1. /\ Others(rs, slot) \in Nat /\ Images(rs) = Others(rs, slot) + Share(rs, slot)
        /\ Images(now) = Others(rs, slot) + Share(now, slot)
    <3>1. RendersOK(rs) /\ RendersOK(now) /\ \A q \in RenderSlots \ {slot} : now[q] = rs[q]
      BY <1>5, <1>6
    <3>2. QED
      BY <1>3, <3>1, OneThread
  <2>2. QED
    BY <1>6, <1>7, <2>1
<1>9. RendersOK(renders)' /\ Images(renders)' = Images(renders)
  BY <1>4, <1>6, <1>8
<1>10. Sound(<<Warning(RootId, op.parents)>>)
  BY <1>3, SoundDrafts DEF Warning
<1>11. PICK drafts : drafts = <<Warning(RootId, op.parents)>>
  OBVIOUS
<1>12. Sound(drafts) /\ File(drafts, {}) /\ {} \subseteq Numbers
  BY <1>1, <1>10, <1>11
<1>13. pc' \notin {"render", "created", "telling"} /\ tool' = NoTool
  BY <1>1
<1>14. UNCHANGED <<records, filed, opened, report>>
  BY <1>1
<1>15. QED
  BY <1>9, <1>12, <1>13, <1>14, FileKeeps

\* An interrupted operation leaves its thread what it holds.
LEMMA InterruptKeeps ==
  ASSUME EvidenceInv, RenderAssumption, Interrupt
  PROVE  EvidenceInv'
<1>1. /\ UNCHANGED <<records, filed, opened, observations, op>> /\ End("cancelled", <<>>)
      /\ renders' = Abandon(IF pc = "render" THEN tool.slot ELSE 0)
  BY DEF Interrupt, assetVars
<1>2. CASE UNCHANGED renders
  BY <1>1, <1>2, EndKeeps
<1>3. CASE pc = "render" /\ renders' = [renders EXCEPT ![tool.slot].wanted = FALSE]
  <2>1. PICK slot : slot = tool.slot
    OBVIOUS
  <2>2. slot \in RenderSlots
    BY <1>3, <2>1 DEF EvidenceInv, ToolIsKnown
  <2>3. PICK state, out : state = renders[slot].state /\ out = renders[slot].out
    OBVIOUS
  <2>4. /\ DOMAIN renders = RenderSlots
        /\ renders[slot] = Thread3(renders[slot].state, renders[slot].wanted, renders[slot].out)
    BY <2>2 DEF EvidenceInv, RendersOK, Thread3
  <2>5. renders' = [renders EXCEPT ![slot] = Thread3(state, FALSE, out)]
    <3>1. PICK rs : rs = renders
      OBVIOUS
    <3>2. RendersOK(rs)
      BY <3>1 DEF EvidenceInv
    <3>3. [rs EXCEPT ![slot].wanted = FALSE]
            = [rs EXCEPT ![slot] = Thread3(rs[slot].state, FALSE, rs[slot].out)]
      BY <2>2, <3>2, WantedReplaced
    <3>4. QED
      BY <1>3, <2>1, <2>3, <3>1, <3>3
  <2>6. Fits(state, out)
    BY <2>2, <2>3 DEF EvidenceInv, RendersOK, Fits
  <2>7. Open(state, out) = Share(renders, slot)
    BY <2>3 DEF Open, Share
  <2>8. Share(renders, slot) \in Nat
    BY <2>2, SharesAddUp DEF EvidenceInv
  <2>9. opened \in Nat => opened' = (opened - Share(renders, slot)) + Open(state, out)
    BY <1>1, <2>7, <2>8
  <2>10. OperationIsKnown'
    <3>1. pc' = "idle" /\ UNCHANGED op
      BY <1>1 DEF End
    <3>2. QED
      BY <3>1 DEF EvidenceInv, OperationIsKnown
  <2>11. ToolIsKnown'
    <3>1. UNCHANGED tool /\ pc' \notin {"render", "created", "telling"}
      BY <1>1 DEF End
    <3>2. QED
      BY <3>1 DEF EvidenceInv, ToolIsKnown
  <2>12. report'.outcome # "refused"
    BY <1>1 DEF End
  <2>13. QED
    BY <1>1, <2>2, <2>5, <2>6, <2>9, <2>10, <2>11, <2>12, ThreadKeeps
<1>4. QED
  BY <1>1, <1>2, <1>3 DEF Abandon

\* Both stores are emptied, and what threads hold is theirs.
LEMMA FinishCloseKeeps ==
  ASSUME EvidenceInv, RenderAssumption, FinishClose
  PROVE  EvidenceInv'
<1>1. /\ opened' = opened - Cardinality(Owned) /\ records' = <<>> /\ filed' = <<>>
      /\ observations' = <<>> /\ pc = "idle" /\ UNCHANGED <<pc, op, tool, renders, report>>
  BY DEF FinishClose, CloseAssets
<1>2. DOMAIN <<>> = {}
  OBVIOUS
<1>3. StoreOK(records, filed)' /\ Owned' = {} /\ Numbers' = {}
  <2>1. IsFiniteSet({})
    BY FS_EmptySet
  <2>2. QED
    BY <1>1, <1>2, <2>1 DEF StoreOK, Owned, Numbers
<1>4. IsSeq(observations)' /\ Linked' /\ Derivations'
  BY <1>1, <1>3, ShortSeqs DEF Linked, Derivations
<1>5. RendersOK(renders)' /\ report'.outcome # "refused" /\ OperationIsKnown' /\ ToolIsKnown'
  BY <1>1 DEF EvidenceInv, OperationIsKnown, ToolIsKnown
<1>6. ImagesAccounted'
  <2>1. opened = Cardinality(Owned) + Images(renders)
    BY Accounted DEF EvidenceInv
  <2>2. (StoreOK(records, filed) /\ RendersOK(renders) =>
             (ImagesAccounted <=> opened = Cardinality(Owned) + Images(renders)))'
    BY Accounted, PTL
  <2>3. Cardinality(Owned') = 0
    BY <1>3, FS_EmptySet
  <2>4. IsFiniteSet(Owned)
    BY DEF EvidenceInv, StoreOK, Owned
  <2>5. Cardinality(Owned) \in Nat
    BY <2>4, FS_CardinalityType
  <2>6. Images(renders) \in Nat
    BY ImagesType DEF EvidenceInv
  <2>7. PICK a, i \in Nat : a = Cardinality(Owned) /\ i = Images(renders)
    BY <2>5, <2>6
  <2>8. opened' = (a + i) - a
    BY <1>1, <2>1, <2>7
  <2>9. opened' = 0 + i
    BY <2>8
  <2>10. Images(renders') = i
    BY <1>1, <2>7
  <2>11. opened' = Cardinality(Owned') + Images(renders')
    BY <2>3, <2>9, <2>10
  <2>12. QED
    BY <1>3, <1>5, <2>2, <2>11
<1>7. QED
  BY <1>3, <1>4, <1>5, <1>6 DEF EvidenceInv

-----------------------------------------------------------------------------
\* The records of one transform: one for each image, and one for the marks on it.
Records(commits, marks, drafts) ==
  /\ IsSeq(drafts) /\ Len(drafts) \in Nat /\ Len(commits) <= Len(drafts)
  /\ \A i \in 1..Len(commits) :
       drafts[i] = Draft("transform", commits[i].asset, tool.asset, op.parents \cup tool.sources, {})
  /\ \A i \in 1..Len(drafts) : i \notin 1..Len(commits) =>
       /\ marks # {}
       /\ drafts[i] = Draft("mark", commits[1].asset, tool.asset, op.parents \cup tool.sources, marks)

\* The batch has exactly these records.
LEMMA DraftsFacts ==
  ASSUME NEW commits \in Seq(Commits), NEW marks
  PROVE  Records(commits, marks, TransformDrafts(commits, marks))
<1> DEFINE R(c, kind, sources) ==
             Draft(kind, c.asset, tool.asset, op.parents \cup tool.sources, sources)
           s == [i \in DOMAIN commits |-> R(commits[i], "transform", {})]
           t == IF marks = {} THEN <<>> ELSE <<R(commits[1], "mark", marks)>>
<1>1. PICK n \in Nat : n = Len(commits) /\ DOMAIN commits = 1..n
  BY LenProperties
<1>2. PICK drafts : drafts = TransformDrafts(commits, marks)
  OBVIOUS
<1>3. drafts = s \o t
  BY <1>2 DEF TransformDrafts
<1>4. IsSeq(s) /\ Len(s) = n /\ \A i \in 1..n : s[i] = R(commits[i], "transform", {})
  <2>1. PICK S : S = {R(commits[i], "transform", {}) : i \in 1..n}
    OBVIOUS
  <2>2. s \in [1..n -> S] /\ \A i \in 1..n : s[i] = R(commits[i], "transform", {})
    BY <1>1, <2>1
  <2> HIDE DEF s, R
  <2>3. s \in Seq(S) /\ Len(s) = n
    BY <1>1, <2>2, SeqDef
  <2>4. QED
    BY <2>2, <2>3 DEF IsSeq
<1>5. /\ IsSeq(t) /\ Len(t) \in {0, 1}
      /\ Len(t) = 1 => marks # {} /\ t[1] = R(commits[1], "mark", marks)
  BY ShortSeqs
<1> HIDE DEF s, t, R
<1>6. Joined(s, t, drafts)
  BY <1>3, <1>4, <1>5, ConcatFacts
<1>7. IsSeq(drafts) /\ Len(drafts) = n + Len(t) /\ \A i \in 1..n : drafts[i] = s[i]
  BY <1>4, <1>6 DEF Joined
<1>8. Len(drafts) \in Nat /\ Len(commits) <= Len(drafts)
  BY <1>1, <1>5, <1>7
<1>9. \A i \in 1..n : drafts[i] = R(commits[i], "transform", {})
  BY <1>4, <1>7
<1>10. ASSUME NEW i \in 1..Len(drafts), i \notin 1..n
       PROVE  marks # {} /\ drafts[i] = R(commits[1], "mark", marks)
  <2>1. Len(t) = 1 /\ i = n + 1
    <3>1. PICK m : m = Len(t)
      OBVIOUS
    <3>2. m \in {0, 1} /\ i \in 1..(n + m) /\ i \notin 1..n
      BY <1>5, <1>7, <1>10, <3>1
    <3>3. m = 1 /\ i = n + 1
      BY <3>2
    <3>4. QED
      BY <3>1, <3>3
  <2>2. 1 \in 1..Len(t)
    BY <2>1
  <2>3. drafts[n + 1] = t[1]
    BY <1>4, <1>6, <2>2 DEF Joined
  <2>4. QED
    BY <1>5, <2>1, <2>3
<1>11. QED
  BY <1>1, <1>2, <1>7, <1>8, <1>9, <1>10 DEF Records, R

\* The session takes over what a thread rendered.
LEMMA TakeRenderKeeps ==
  ASSUME EvidenceInv, AssetAssumption, RenderAssumption, NEW marks, TakeRender(marks)
  PROVE  EvidenceInv'
<1>1. PICK slot : slot = tool.slot
  OBVIOUS
<1>2. PICK out : out = renders[slot].out
  OBVIOUS
<1>3. /\ pc = "render" /\ renders[slot].state = "done"
      /\ marks \subseteq tool.sources
      /\ renders' = [renders EXCEPT ![slot] = Thread3("free", FALSE, <<>>)]
      /\ CommitAssets(tool.asset, out) /\ UNCHANGED op
  BY <1>1, <1>2, FreeThread DEF TakeRender
<1>4. /\ slot \in RenderSlots /\ tool.asset \in Owned /\ tool.sources \subseteq Numbers
      /\ Markable(tool.asset, tool.sources) /\ op.parents \subseteq Numbers
  BY <1>1, <1>3 DEF EvidenceInv, ToolIsKnown, OperationIsKnown
<1>5. out \in Seq(Digests) /\ out # <<>>
  <2>1. out \in Renderings
    BY <1>2, <1>3, <1>4 DEF EvidenceInv, RendersOK
  <2>2. QED
    BY <2>1 DEF RenderAssumption
<1>6. Share(renders, slot) = Len(out) /\ Len(out) \in Nat
  <2>1. RendersOK(renders) /\ renders[slot].state \in {"done", "failed"}
    BY <1>3 DEF EvidenceInv
  <2>2. Share(renders, slot) = Len(renders[slot].out) /\ Len(renders[slot].out) \in Nat
    BY <1>4, <2>1, EndedShare
  <2>3. QED
    BY <1>2, <2>2
<1>7. Replaced(renders, slot, "free", <<>>, renders')
  <2>1. PICK rs, now : rs = renders /\ now = renders'
    OBVIOUS
  <2>2. RendersOK(rs) /\ now = [rs EXCEPT ![slot] = Thread3("free", FALSE, <<>>)]
    BY <1>3, <2>1 DEF EvidenceInv
  <2>3. Replaced(rs, slot, "free", <<>>, now)
    BY <1>4, <2>2, FreeThread, ThreadReplaced
  <2>4. QED
    BY <2>1, <2>3
<1>8. CASE ~Admits(tool.asset, out)
  <2>1. opened' = opened - Len(out) /\ UNCHANGED <<records, filed>>
    BY <1>3, <1>8 DEF CommitAssets
  <2>2. End("failed", <<>>) /\ UNCHANGED observations
    BY <1>1, <1>2, <1>8 DEF TakeRender
  <2>3. OperationIsKnown'
    <3>1. pc' = "idle" /\ UNCHANGED op
      BY <1>3, <2>2 DEF End
    <3>2. QED
      BY <3>1 DEF EvidenceInv, OperationIsKnown
  <2>4. ToolIsKnown'
    <3>1. UNCHANGED tool /\ pc' \notin {"render", "created", "telling"}
      BY <2>2 DEF End
    <3>2. QED
      BY <3>1 DEF EvidenceInv, ToolIsKnown
  <2>5. report'.outcome # "refused"
    BY <2>2 DEF End
  <2>6. opened \in Nat => opened' = (opened - Share(renders, slot)) + Open("free", <<>>)
    <3>1. PICK n \in Nat : n = Len(out)
      BY <1>6
    <3>2. opened \in Nat => opened - n = (opened - n) + 0
      OBVIOUS
    <3>3. QED
      BY <1>6, <2>1, <3>1, <3>2, FreeThread
  <2>7. QED
    BY <1>3, <1>4, <2>1, <2>2, <2>3, <2>4, <2>5, <2>6, FreeThread, ThreadKeeps
<1>9. CASE Admits(tool.asset, out)
  <2>1. PICK p : p = Plan(tool.asset, out)
    OBVIOUS
  <2>2. /\ records' = p.records /\ filed' = p.filed
        /\ opened' = (opened + Len(out)) - Unretained(p.commits) - Len(out)
    BY <1>3, <1>9, <2>1 DEF CommitAssets
  <2>3. Planned(p, tool.asset, records, Len(out))
    BY <1>4, <1>5, <2>1, PlanFacts DEF EvidenceInv
  <2>4. StoreOK(p.records, p.filed) /\ p.commits \in Seq(Commits) /\ Len(p.commits) = Len(out)
    BY <2>3 DEF Planned
  <2>5. PICK commits : commits = p.commits
    OBVIOUS
  <2>6. PICK drafts : drafts = TransformDrafts(commits, marks)
    OBVIOUS
  <2>7. Records(commits, marks, drafts)
    BY <2>4, <2>5, <2>6, DraftsFacts
  <2>8. PICK n \in Nat : n = Len(out) /\ n = Len(commits) /\ n # 0
    <3>1. Len(out) # 0
      BY <1>5, EmptySeq
    <3>2. QED
      BY <1>6, <2>4, <2>5, <3>1
  <2>9. \A k \in 1..n : commits[k].asset \in DOMAIN p.records
    BY <2>3, <2>5, <2>8 DEF Planned
  <2>10. /\ Owned \subseteq DOMAIN p.records
         /\ \A a \in Owned : p.records[a] = records[a]
         /\ \A a \in DOMAIN p.records \ Owned :
              p.records[a].parent = tool.asset /\ \E k \in 1..n : commits[k].asset = a
    BY <2>3, <2>5, <2>8 DEF Planned, Owned
  <2>11. ASSUME NEW i \in 1..Len(drafts)
         PROVE  /\ drafts[i].asset \in DOMAIN p.records /\ drafts[i].from = tool.asset
                /\ drafts[i].parents = op.parents \cup tool.sources
                /\ drafts[i].marks \subseteq marks
                /\ drafts[i].kind = "mark" => drafts[i].marks = marks
    <3>1. CASE i \in 1..n
      <4>1. drafts[i] = Draft("transform", commits[i].asset, tool.asset,
                              op.parents \cup tool.sources, {})
        BY <2>7, <2>8, <3>1 DEF Records
      <4>2. commits[i].asset \in DOMAIN p.records
        BY <2>9, <3>1
      <4>3. QED
        BY <4>1, <4>2 DEF Draft
    <3>2. CASE i \notin 1..n
      <4>1. drafts[i] = Draft("mark", commits[1].asset, tool.asset,
                              op.parents \cup tool.sources, marks)
        BY <2>7, <2>8, <3>2 DEF Records
      <4>2. 1 \in 1..n
        BY <2>8
      <4>3. commits[1].asset \in DOMAIN p.records
        BY <2>9, <4>2
      <4>4. QED
        BY <4>1, <4>3 DEF Draft
    <3>3. QED
      BY <3>1, <3>2
  <2>12. Sound(drafts)
    <3>1. \A i \in 1..Len(drafts) : drafts[i].parents \cup drafts[i].marks \subseteq Numbers
      BY <1>3, <1>4, <2>11
    <3>2. QED
      BY <2>7, <3>1 DEF Sound, Records
  <2>13. DOMAIN drafts = 1..Len(drafts)
    <3>1. PICK S : drafts \in Seq(S)
      BY <2>7 DEF Records, IsSeq
    <3>2. QED
      BY <3>1, LenProperties
  <2>14. Admissible(drafts, DOMAIN records')
    <3>1. ASSUME NEW i \in 1..Len(drafts)
          PROVE  /\ drafts[i].asset \in DOMAIN records'
                 /\ drafts[i].parents \subseteq Numbers
                 /\ drafts[i].from \in DOMAIN records'
                 /\ drafts[i].kind = "mark" => MarksMatch(drafts[i])
      <4>1. drafts[i].asset \in DOMAIN records' /\ drafts[i].from = tool.asset
        BY <2>2, <2>11
      <4>2. drafts[i].parents \subseteq Numbers
        BY <1>4, <2>11
      <4>3. drafts[i].from \in DOMAIN records'
        BY <1>4, <2>2, <2>10, <4>1
      <4>4. ASSUME drafts[i].kind = "mark" PROVE MarksMatch(drafts[i])
        <5>1. drafts[i].marks = marks
          BY <2>11, <4>4
        <5>2. \A m \in marks : /\ m \in Numbers /\ observations[m].kind = "detect"
                               /\ observations[m].asset = tool.asset
          BY <1>3, <1>4 DEF Markable
        <5>3. QED
          BY <4>1, <5>1, <5>2 DEF MarksMatch
      <4>5. QED
        BY <4>1, <4>2, <4>3, <4>4
    <3>2. QED
      BY <2>13, <3>1 DEF Admissible
  <2>15. /\ observations' = Appended(drafts) /\ pc' = "created" /\ UNCHANGED report
         /\ tool' = [tool EXCEPT !.first = Len(observations) + 1,
                                 !.fresh = \E i \in DOMAIN commits : ~commits[i].reused,
                                 !.dropped = marks # tool.sources]
    BY <1>1, <1>2, <1>9, <2>1, <2>5, <2>6, <2>14 DEF TakeRender
  <2>16. /\ IsSeq(observations)' /\ Linked'
         /\ Len(observations) \in Nat /\ Len(drafts) \in Nat
         /\ Numbers = 1..Len(observations)
         /\ Numbers' = 1..(Len(observations) + Len(drafts))
         /\ \A k \in Numbers : k \in Numbers' /\ observations'[k] = observations[k]
         /\ \A i \in 1..Len(drafts) : observations'[Len(observations) + i] = drafts[i]
    BY <2>12, <2>15, Growing DEF EvidenceInv, Sound
  <2>17. Derivations'
    <3>1. ASSUME NEW a \in DOMAIN p.records \ {RootId}
          PROVE  \E k \in Numbers' : /\ observations'[k].kind = "transform"
                                     /\ observations'[k].asset = a
                                     /\ observations'[k].from = p.records[a].parent
      <4>1. CASE a \in Owned
        <5>1. PICK k \in Numbers : /\ observations[k].kind = "transform"
                                   /\ observations[k].asset = a
                                   /\ observations[k].from = records[a].parent
          BY <3>1, <4>1 DEF EvidenceInv, Derivations
        <5>2. k \in Numbers' /\ observations'[k] = observations[k] /\ p.records[a] = records[a]
          BY <2>10, <2>16, <4>1
        <5>3. QED
          BY <5>1, <5>2
      <4>2. CASE a \notin Owned
        <5>1. PICK k \in 1..n : commits[k].asset = a
          BY <2>10, <3>1, <4>2
        <5>2. p.records[a].parent = tool.asset
          BY <2>10, <3>1, <4>2
        <5>3. drafts[k] = Draft("transform", a, tool.asset, op.parents \cup tool.sources, {})
          BY <2>7, <2>8, <5>1 DEF Records
        <5>4. k \in 1..Len(drafts)
          BY <2>7, <2>8 DEF Records
        <5>5. PICK m \in Nat : m = Len(observations) + k
          BY <2>16
        <5>6. m \in Numbers' /\ observations'[m] = drafts[k]
          BY <2>16, <5>4, <5>5
        <5>7. drafts[k].kind = "transform" /\ drafts[k].asset = a /\ drafts[k].from = tool.asset
          BY <5>3 DEF Draft
        <5>8. QED
          BY <5>2, <5>6, <5>7
      <4>3. QED
        BY <4>1, <4>2
    <3>2. QED
      BY <2>2, <3>1 DEF Derivations, Owned
  <2>18. OperationIsKnown'
    BY <1>3, <1>4, <2>15, <2>16 DEF EvidenceInv, OperationIsKnown
  <2>19. ToolIsKnown'
    <3>1. PICK first, fresh, dropped :
            /\ tool' = [tool EXCEPT !.first = first, !.fresh = fresh, !.dropped = dropped]
            /\ first = Len(observations) + 1
      BY <2>15
    <3>2. tool' = [asset |-> tool.asset, capability |-> tool.capability, sources |-> tool.sources,
                   slot |-> tool.slot, first |-> first, fresh |-> fresh, dropped |-> dropped]
      BY <3>1 DEF EvidenceInv, ToolIsKnown
    <3>3. first \in Nat \ {0}
      BY <2>16, <3>1
    <3>4. tool' = [asset |-> tool'.asset, capability |-> tool'.capability,
                   sources |-> tool'.sources, slot |-> tool'.slot, first |-> tool'.first,
                   fresh |-> tool'.fresh, dropped |-> tool'.dropped]
      BY <3>2
    <3>5. tool'.first = first
      BY <3>2
    <3>6. pc' = "created"
      BY <2>15
    <3>7. QED
      BY <3>3, <3>4, <3>5, <3>6 DEF ToolIsKnown
  <2>20. RendersOK(renders)' /\ \A q \in RenderSlots \ {slot} : renders'[q] = renders[q]
    BY <1>7 DEF Replaced
  <2>21. StoreOK(records, filed)'
    BY <2>2, <2>4
  <2>22. ImagesAccounted'
    <3>1. Share(renders', slot) = 0
      BY <1>7, FreeThread DEF Replaced
    <3>2. /\ IsFiniteSet(Owned) /\ IsFiniteSet(Owned')
      BY <2>21 DEF EvidenceInv, StoreOK, Owned
    <3>3. Cardinality(Owned) \in Nat /\ Cardinality(Owned') \in Nat
      BY <3>2, FS_CardinalityType
    <3>4. Cardinality(Owned') + Unretained(commits) = Cardinality(Owned) + n
      BY <2>2, <2>3, <2>5, <2>8 DEF Planned, Owned
    <3>5. Unretained(commits) \in Nat
      <4>1. IsFiniteSet(1..n)
        BY FS_Interval
      <4>2. DOMAIN commits = 1..n
        BY <2>4, <2>5, <2>8, LenProperties
      <4>3. IsFiniteSet({i \in DOMAIN commits : commits[i].reused})
        BY <4>1, <4>2, FS_Subset
      <4>4. QED
        BY <4>3, FS_CardinalityType DEF Unretained
    <3>6. PICK a, b, u \in Nat : /\ a = Cardinality(Owned) /\ b = Cardinality(Owned')
                                 /\ u = Unretained(commits)
      BY <3>3, <3>5
    <3>7. b + u = a + n
      BY <3>4, <3>6
    <3>8. opened' = (opened + n) - u - n
      BY <2>2, <2>5, <2>8, <3>6
    <3>9. opened \in Nat => (opened + n) - u - n = (opened - n) + 0 + (b - a)
      BY <3>7
    <3>10. opened \in Nat =>
             opened' = (opened - Share(renders, slot)) + Share(renders', slot)
                       + (Cardinality(Owned)' - Cardinality(Owned))
      BY <1>6, <2>8, <3>1, <3>6, <3>8, <3>9
    <3>11. QED
      BY <1>4, <2>20, <2>21, <3>10, AccountingKeeps
  <2>23. report'.outcome # "refused"
    BY <2>15 DEF EvidenceInv
  <2>24. QED
    BY <2>16, <2>17, <2>18, <2>19, <2>20, <2>21, <2>22, <2>23 DEF EvidenceInv
<1>10. QED
  BY <1>8, <1>9

-----------------------------------------------------------------------------
\* A session that opens has the root image and nothing else.
LEMMA EvidenceInitially ==
  ASSUME AssetAssumption, RenderAssumption, EvidenceInit PROVE EvidenceInv
<1>1. /\ records = [a \in {RootId} |-> [digest |-> Root, parent |-> None, depth |-> 0]]
      /\ filed = [d \in {Root} |-> RootId] /\ opened = 1
      /\ observations = <<>> /\ pc = "idle" /\ tool = NoTool
      /\ op = [kind |-> "none", failFast |-> FALSE, first |-> 0, parents |-> {}]
      /\ renders = [r \in RenderSlots |-> Free]
      /\ report = [outcome |-> "none", listed |-> <<>>]
  BY DEF EvidenceInit, AssetInit
<1>2. StoreOK(records, filed)
  <2>1. Root \in Digests /\ ShortId \in ShortId..Len(Root)
    <3>1. Root \in Seq(Nat) /\ ShortId \in 1..Len(Root)
      BY DEF AssetAssumption
    <3>2. Len(Root) \in Nat
      BY <3>1, LenProperties
    <3>3. QED
      BY <3>1, <3>2 DEF AssetAssumption
  <2>2. RootId = SubSeq(Root, 1, ShortId)
    BY DEF RootId
  <2>3. PICK id : id = RootId
    OBVIOUS
  <2>4. DOMAIN records = {id} /\ records[id].digest = Root /\ records[id].depth = 0
    BY <1>1, <2>3
  <2>5. DOMAIN filed = {Root} /\ filed[Root] = id
    BY <1>1, <2>3
  <2>6. \E n \in ShortId..Len(Root) : id = SubSeq(Root, 1, n)
    BY <2>1, <2>2, <2>3
  <2>7. IsFiniteSet(DOMAIN records)
    <3>1. IsFiniteSet({id})
      BY FS_Singleton
    <3>2. QED
      BY <2>4, <3>1
  <2>8. PICK rec, fil : rec = records /\ fil = filed
    OBVIOUS
  <2>9. DOMAIN rec = {id} /\ rec[id].digest = Root /\ rec[id].depth = 0
        /\ DOMAIN fil = {Root} /\ fil[Root] = id /\ IsFiniteSet(DOMAIN rec)
    BY <2>4, <2>5, <2>7, <2>8
  <2>10. \A a \in DOMAIN rec :
           /\ rec[a].digest \in Digests /\ rec[a].depth \in Nat
           /\ \E n \in ShortId..Len(Root) : a = SubSeq(rec[a].digest, 1, n)
           /\ rec[a].digest \in DOMAIN fil /\ fil[rec[a].digest] = a
    <3>1. ASSUME NEW a \in DOMAIN rec PROVE a = id
      BY <2>9
    <3>2. \E n \in ShortId..Len(Root) : id = SubSeq(rec[id].digest, 1, n)
      BY <2>6, <2>9
    <3>3. rec[id].digest \in Digests /\ rec[id].depth \in Nat
      BY <2>1, <2>9
    <3>4. rec[id].digest \in DOMAIN fil /\ fil[rec[id].digest] = id
      BY <2>9
    <3>5. QED
      BY <3>1, <3>2, <3>3, <3>4
  <2>11. \A d \in DOMAIN fil : fil[d] \in DOMAIN rec /\ rec[fil[d]].digest = d
    BY <2>9
  <2>12. DOMAIN rec \ {RootId} = {}
    BY <2>3, <2>9
  <2>13. StoreOK(rec, fil)
    BY <2>9, <2>10, <2>11, <2>12 DEF StoreOK
  <2>14. QED
    BY <2>8, <2>13
<1>3. RendersOK(renders)
  BY <1>1 DEF RendersOK, Free
<1>4. ImagesAccounted
  <2>1. Copies(renders) = {} /\ Finished(renders) = {}
    BY <1>1 DEF Copies, Finished, Free
  <2>2. Held(renders) = {}
    BY <2>1 DEF Held
  <2>3. Cardinality({}) = 0
    BY FS_EmptySet
  <2>4. Images(renders) = 0
    BY <2>1, <2>2, <2>3 DEF Images
  <2>5. Owned = {RootId}
    BY <1>1 DEF Owned
  <2>6. Cardinality(Owned) = 1
    BY <2>5, FS_Singleton
  <2>7. opened = Cardinality(Owned) + Images(renders)
    BY <1>1, <2>4, <2>6
  <2>8. QED
    BY <1>2, <1>3, <2>7, Accounted
<1>5. IsSeq(observations) /\ Linked /\ Derivations
  <2>1. DOMAIN observations = {} /\ Owned = {RootId}
    BY <1>1 DEF Owned
  <2>2. QED
    BY <1>1, <2>1, ShortSeqs DEF Linked, Derivations, Numbers
<1>6. OperationIsKnown /\ ToolIsKnown /\ report.outcome # "refused"
  BY <1>1, Shapes DEF OperationIsKnown, ToolIsKnown
<1>7. QED
  BY <1>2, <1>3, <1>4, <1>5, <1>6 DEF EvidenceInv

\* Every step of gathering and of the initial plan.
LEMMA GatheringKeeps ==
  ASSUME EvidenceInv, Gather \/ Initial PROVE EvidenceInv'
<1>1. CASE Gather
  <2>1. CASE EndInspect
    BY <2>1, InspectionSteps
  <2>2. CASE \E i \in DOMAIN jobs : StartJob(i) \/ FinishJob(i) \/ CommitOutcome(i)
    <3>1. PICK i \in DOMAIN jobs : StartJob(i) \/ FinishJob(i) \/ CommitOutcome(i)
      BY <2>2
    <3>2. QED
      BY <3>1, InspectionSteps, CommitOutcomeKeeps
  <2>3. QED
    BY <1>1, <2>1, <2>2 DEF Gather
<1>2. CASE Initial
  <2>1. CASE StartLoop
    BY <2>1, InspectionSteps
  <2>2. CASE \E i \in DOMAIN jobs : InitialCall(i) \/ InitialResult(i) \/ InitialFailure(i)
    <3>1. PICK i \in DOMAIN jobs : InitialCall(i) \/ InitialResult(i) \/ InitialFailure(i)
      BY <2>2
    <3>2. QED
      BY <3>1, InspectionSteps, InitialResultKeeps
  <2>3. QED
    BY <1>2, <2>1, <2>2 DEF Initial
<1>3. QED
  BY <1>1, <1>2

\* Every start of a tool call.
LEMMA CallToolKeeps ==
  ASSUME EvidenceInv, RenderAssumption, CallTool PROVE EvidenceInv'
<1>1. CASE RefuseTool
  BY <1>1, TurnSteps
<1>2. CASE \E a \in Owned, c \in Supported : BeginPerceive(a, c)
  BY <1>2, BeginPerceiveKeeps
<1>3. CASE \E a \in Owned, r \in RenderSlots :
             \/ \E o \in Renderings : BeginRender(a, {}, Len(o), r)
             \/ \E S \in MarkSources : BeginRender(a, S, 1, r)
  <2>1. PICK a \in Owned, r \in RenderSlots :
             \/ \E o \in Renderings : BeginRender(a, {}, Len(o), r)
             \/ \E S \in MarkSources : BeginRender(a, S, 1, r)
    BY <1>3
  <2>2. \E count, S : S \subseteq Numbers /\ BeginRender(a, S, count, r)
    BY <2>1 DEF MarkSources
  <2>3. QED
    BY <2>2, BeginRenderKeeps
<1>4. QED
  BY <1>1, <1>2, <1>3 DEF CallTool

\* Every step keeps what is known of the stores, the threads and the operation.
LEMMA EvidenceKeeps ==
  ASSUME AssetAssumption, RenderAssumption, EvidenceInv, [EvidenceNext]_evidenceVars
  PROVE  EvidenceInv'
<1>1. CASE \E p \in Plans, target \in Owned : BeginInspect(p, target)
  <2>1. PICK p \in Plans, target \in Owned : BeginInspect(p, target)
    BY <1>1
  <2>2. BeginOperation("inspect", p.failFast, InspectionOperations(p, target), "gather")
    BY <2>1 DEF BeginInspect
  <2>3. QED
    BY <2>2, BeginKeeps
<1>2. CASE BeginAsk
  <2>1. BeginOperation("ask", FALSE, InitialPlan, "initial")
    BY <1>2 DEF BeginAsk
  <2>2. QED
    BY <2>1, BeginKeeps
<1>3. CASE Gather \/ Initial
  BY <1>3, GatheringKeeps
<1>4. CASE CallTool
  BY <1>4, CallToolKeeps
<1>5. CASE FinishTool
  <2>1. \/ EndPerceive \/ RenderFailed \/ AnnounceAssets \/ TellNext
        \/ \E marks : TakeRender(marks)
    BY <1>5 DEF FinishTool
  <2>2. QED
    BY <2>1, TurnSteps, RenderFailedKeeps, AnnounceKeeps, TellNextKeeps, TakeRenderKeeps
<1>6. CASE EndAsk \/ BeginClose
  BY <1>6, InspectionSteps
<1>7. CASE \E r \in RenderSlots : Thread(r)
  BY <1>7, RenderEndsKeeps, CloseLateKeeps DEF Thread
<1>8. CASE Interrupt \/ FinishClose
  BY <1>8, InterruptKeeps, FinishCloseKeeps
<1>9. CASE UNCHANGED evidenceVars
  <2>1. UNCHANGED <<records, filed, opened, observations, renders>>
    BY <1>9 DEF evidenceVars, assetVars, sessionVars
  <2>2. UNCHANGED <<pc, op, tool, report>>
    BY <1>9 DEF evidenceVars, sessionVars
  <2>3. OperationIsKnown' /\ ToolIsKnown' /\ report'.outcome # "refused"
    BY <2>1, <2>2, NothingElse
  <2>4. QED
    BY <2>1, <2>3, ElsewhereKeeps
<1>10. QED
  BY <1>1, <1>2, <1>3, <1>4, <1>5, <1>6, <1>7, <1>8, <1>9 DEF EvidenceNext

\* The invariant gives what the stores promise.
LEMMA StoresFollow == EvidenceInv => StoresAreConsistent
<1> SUFFICES ASSUME EvidenceInv PROVE StoresAreConsistent
  OBVIOUS
<1>1. \A a \in Owned \ {RootId} :
       /\ \E n \in Numbers : /\ observations[n].kind = "transform"
                            /\ observations[n].asset = a
                            /\ observations[n].from = records[a].parent
       /\ records[a].parent \in Owned
       /\ records[a].depth = records[records[a].parent].depth + 1
  BY DEF EvidenceInv, Derivations, StoreOK, Owned
<1>2. \A a, b \in Owned : records[a].digest = records[b].digest => a = b
  <2>1. \A a \in Owned : filed[records[a].digest] = a
    BY DEF EvidenceInv, StoreOK, Owned
  <2>2. QED
    BY <2>1
<1>3. \A n \in Numbers : \A k \in observations[n].parents \cup observations[n].marks : k < n
  BY DEF EvidenceInv, Linked
<1>4. QED
  BY <1>1, <1>2, <1>3 DEF EvidenceInv, StoresAreConsistent, EvidenceIsGrounded

\* The two stores of a session agree with each other and with the images that are open.
THEOREM SessionStoresAgree == EvidenceSpec => []StoresAreConsistent
<1>1. EvidenceInit => EvidenceInv
  BY AssetAssumption, RenderAssumption, EvidenceInitially
<1>2. EvidenceInv /\ [EvidenceNext]_evidenceVars => EvidenceInv'
  BY AssetAssumption, RenderAssumption, EvidenceKeeps
<1>3. QED
  BY <1>1, <1>2, StoresFollow, PTL DEF EvidenceSpec

-----------------------------------------------------------------------------
\* While outcomes are gathered: with fail-fast an operation starts when all before it are
\* settled without an error, and outcomes are committed from the first to the last.
JobsInOrder ==
  /\ DOMAIN jobs \subseteq Nat \ {0}
  /\ op.failFast => \A i, j \in DOMAIN jobs :
                      j < i /\ jobs[i] # "todo" => jobs[j] \in Settled \ {"error"}
  /\ \A i, j \in DOMAIN jobs :
       j < i /\ jobs[i] = "committed" => jobs[j] \in {"error", "warned", "committed"}
\* The running inspection's observations come from committed jobs, in the order of the plan.
InPlanOrder ==
  \E place \in [DOMAIN Own -> DOMAIN jobs] :
    \A k \in DOMAIN Own : /\ ComesFrom(Own[k], place[k])
                          /\ \A j \in 1..(k - 1) : place[j] < place[k]

\* Only what a tool call committed and has not announced yet is untold, asset by asset.
OnlyRecordsUntold ==
  \A n \in (op.first + 1)..Len(observations) :
    n \notin told =>
      /\ tool.first \in (op.first + 1)..n
      /\ \/ observations[n].kind \in {"transform", "mark"}
         \/ observations[n].kind = "warning" /\ n = Len(observations) /\ pc # "created"
      /\ \A m \in told : m >= tool.first => observations[m].asset # observations[n].asset
      /\ pc = "idle" => report.outcome = "cancelled"
      /\ pc # "idle" => pc \in {"created", "telling"}

\* What the running operation has told is there, and a call's records are told last.
ToldSoFar ==
  /\ pc # "idle" => /\ op.first <= Len(observations)
                    /\ \A m \in told : m \in Nat /\ m <= Len(observations)
  /\ pc \in {"created", "telling"} => tool.first \in (op.first + 1)..(Len(observations) + 1)
  /\ pc = "created" => \A m \in told : m < tool.first

\* The inductive invariant behind CommitsAreTold.
CommitInv ==
  /\ op.first \in Nat
  /\ pc = "gather" => op.kind = "inspect" /\ JobsInOrder /\ InPlanOrder
  /\ pc \notin {"idle", "gather"} => op.kind = "ask"
  /\ pc # "idle" => report.outcome = "none"
  /\ (op.kind = "inspect" /\ report.outcome \in {"ok", "failed"} /\ closing # "closed")
       => report.listed = Own
  /\ OnlyRecordsUntold /\ ToldSoFar

\* Steps that are not the operation's.
LEMMA QuietTells ==
  ASSUME CommitInv, UNCHANGED <<pc, op, plan, jobs, tool, told, report, observations>>,
         closing' # "closed" => closing # "closed"
  PROVE  CommitInv'
<1>1. Own' = Own
  BY DEF Own
<1>2. InPlanOrder' <=> InPlanOrder
  BY <1>1 DEF InPlanOrder, ComesFrom
<1>3. JobsInOrder' <=> JobsInOrder
  BY DEF JobsInOrder
<1>4. (OnlyRecordsUntold' <=> OnlyRecordsUntold) /\ (ToldSoFar' <=> ToldSoFar)
  BY DEF OnlyRecordsUntold, ToldSoFar
<1>5. QED
  BY <1>1, <1>2, <1>3, <1>4 DEF CommitInv

\* Steps of an ask that neither file nor announce anything.
LEMMA MovesTell ==
  ASSUME CommitInv, pc \notin {"idle", "gather", "created", "telling"},
         pc' \notin {"idle", "gather", "created", "telling"},
         UNCHANGED <<op, told, report, observations, closing>>
  PROVE  CommitInv'
<1>1. Own' = Own
  BY DEF Own
<1>2. OnlyRecordsUntold' /\ ToldSoFar'
  BY DEF CommitInv, OnlyRecordsUntold, ToldSoFar
<1>3. QED
  BY <1>1, <1>2 DEF CommitInv

\* An operation that ends has told everything, or it was interrupted.
LEMMA EndTells ==
  ASSUME CommitInv, pc # "idle", NEW outcome, NEW listed, End(outcome, listed),
         UNCHANGED <<observations, op, told, closing>>,
         \/ outcome = "cancelled"
         \/ pc \notin {"created", "telling"} /\ (op.kind = "ask" \/ listed = Own)
  PROVE  CommitInv'
<1>1. Own' = Own
  BY DEF Own
<1>2. pc' = "idle" /\ report'.outcome = outcome /\ report'.listed = listed /\ UNCHANGED tool
  BY DEF End
<1>3. OnlyRecordsUntold
  BY DEF CommitInv
<1>4. OnlyRecordsUntold' /\ ToldSoFar'
  BY <1>2, <1>3 DEF OnlyRecordsUntold, ToldSoFar
<1>5. op.kind = "inspect" /\ outcome \in {"ok", "failed"} => listed = Own
  OBVIOUS
<1>6. QED
  BY <1>1, <1>2, <1>4, <1>5 DEF CommitInv

\* What is filed is told at once.
LEMMA FilingTells ==
  ASSUME CommitInv, IsSeq(observations), NEW drafts, IsSeq(drafts), NEW parents,
         File(drafts, parents), parents \subseteq Numbers,
         pc \notin {"idle", "gather", "created", "telling"},
         pc' \notin {"idle", "gather", "created", "telling"},
         op = [kind |-> op.kind, failFast |-> op.failFast, first |-> op.first,
               parents |-> op.parents],
         UNCHANGED report
  PROVE  CommitInv'
<1>1. op'.first = op.first /\ op'.kind = op.kind
  <2>1. PICK q : op' = [op EXCEPT !.parents = q]
    BY DEF File
  <2>2. op' = [kind |-> op.kind, failFast |-> op.failFast, first |-> op.first, parents |-> q]
    BY <2>1
  <2>3. QED
    BY <2>2
<1>2. PICK s, u : s = observations /\ u = observations'
  OBVIOUS
<1>3. Joined(s, drafts, u)
  BY <1>2, ConcatFacts DEF File, Appended
<1>4. PICK m, n \in Nat : m = Len(s) /\ n = Len(drafts) /\ Len(u) = m + n
  BY <1>3 DEF Joined
<1>5. told' = told \cup parents \cup ((m + 1)..(m + n))
  BY <1>2, <1>4 DEF File, Batch
<1>6. /\ op.first \in Nat /\ op.first <= m /\ OnlyRecordsUntold
      /\ \A k \in told \cup parents : k \in Nat /\ k <= m
  <2>1. parents \subseteq 1..m
    BY <1>2, <1>3, <1>4 DEF Numbers, Joined
  <2>2. op.first <= m /\ \A k \in told : k \in Nat /\ k <= m
    BY <1>2, <1>4 DEF CommitInv, ToldSoFar
  <2>3. QED
    BY <2>1, <2>2 DEF CommitInv
<1>7. Len(observations)' = m + n
  BY <1>2, <1>4
<1>8. OnlyRecordsUntold'
  <2>1. ASSUME NEW k \in (op.first + 1)..(m + n), k \notin told' PROVE FALSE
    <3>1. k \in (op.first + 1)..m /\ k \notin told
      BY <1>4, <1>5, <1>6, <2>1
    <3>2. QED
      BY <1>2, <1>4, <1>6, <3>1 DEF OnlyRecordsUntold
  <2>2. QED
    BY <1>1, <1>7, <2>1 DEF OnlyRecordsUntold
<1>9. ToldSoFar'
  <2>1. op.first <= m + n /\ \A k \in told' : k \in Nat /\ k <= m + n
    BY <1>4, <1>5, <1>6
  <2>2. QED
    BY <1>1, <1>7, <2>1 DEF ToldSoFar
<1>10. report.outcome = "none" /\ op.kind = "ask"
  BY DEF CommitInv
<1>11. QED
  BY <1>1, <1>6, <1>8, <1>9, <1>10 DEF CommitInv

\* Telling the trace of one asset leaves the other assets' records untold, or none.
LEMMA TellAssetTells ==
  ASSUME CommitInv, pc \in {"created", "telling"}, NEW all, all = observations',
         NEW m \in Nat, NEW d \in Nat, Len(observations) = m, Len(all) = m + d,
         \A k \in 1..m : all[k] = observations[k],
         d # 0 => pc = "created" /\ d = 1 /\ all[m + 1].kind = "warning",
         TellAsset(all), UNCHANGED <<report, closing>>,
         op = [kind |-> op.kind, failFast |-> op.failFast, first |-> op.first,
               parents |-> op.parents]
  PROVE  CommitInv'
<1>1. PICK f, first \in Nat : /\ f = op.first /\ first = tool.first
                              /\ first \in (f + 1)..(m + 1)
  BY DEF CommitInv, ToldSoFar
<1>2. PICK own : own = first..(m + d)
  OBVIOUS
<1>3. PICK n \in own : told' = told \cup {k \in own : all[k].asset = all[n].asset}
  BY <1>1, <1>2 DEF TellAsset
<1>4. \/ own \subseteq told' /\ pc' = "turn" /\ \E q : op' = [op EXCEPT !.parents = q]
      \/ pc' = "telling" /\ UNCHANGED <<tool, op>>
  BY <1>1, <1>2 DEF TellAsset
<1>5. op'.first = f /\ op'.kind = op.kind
  <2>1. CASE \E q : op' = [op EXCEPT !.parents = q]
    <3>1. PICK q : op' = [op EXCEPT !.parents = q]
      BY <2>1
    <3>2. op' = [kind |-> op.kind, failFast |-> op.failFast, first |-> op.first, parents |-> q]
      BY <3>1
    <3>3. QED
      BY <1>1, <3>2
  <2>2. QED
    BY <1>1, <1>4, <2>1
<1>6. op.kind = "ask" /\ report.outcome = "none" /\ OnlyRecordsUntold /\ ToldSoFar
  BY DEF CommitInv
<1>7. Len(observations)' = m + d
  OBVIOUS
<1>8. \A k \in told : k \in Nat /\ k <= m
  BY <1>6 DEF ToldSoFar
<1>9. ASSUME NEW k \in (f + 1)..(m + d), k \notin told'
      PROVE  /\ k \in own
             /\ \/ all[k].kind \in {"transform", "mark"}
                \/ all[k].kind = "warning" /\ k = m + d
             /\ \A j \in told : j >= first => all[j].asset # all[k].asset
  <2>1. CASE k <= m
    <3>1. k \in (op.first + 1)..Len(observations) /\ k \notin told /\ all[k] = observations[k]
      BY <1>1, <1>3, <1>9, <2>1
    <3>2. /\ first <= k
          /\ \/ all[k].kind \in {"transform", "mark"}
             \/ all[k].kind = "warning" /\ k = m /\ pc # "created"
          /\ \A j \in told : j >= first => observations[j].asset # all[k].asset
      BY <1>1, <1>6, <3>1 DEF OnlyRecordsUntold
    <3>3. ASSUME NEW j \in told, j >= first PROVE all[j].asset # all[k].asset
      <4>1. j \in 1..m
        BY <1>1, <1>8, <3>3
      <4>2. QED
        BY <3>2, <3>3, <4>1
    <3>4. pc # "created" => d = 0
      OBVIOUS
    <3>5. k \in own
      BY <1>1, <1>2, <1>9, <3>2
    <3>6. QED
      BY <3>2, <3>3, <3>4, <3>5
  <2>2. CASE ~(k <= m)
    <3>1. d = 1 /\ k = m + 1 /\ pc = "created"
      BY <1>1, <1>9, <2>2
    <3>2. k \in own
      BY <1>1, <1>2, <3>1
    <3>3. \A j \in told : ~(j >= first)
      BY <1>1, <1>6, <1>8, <3>1 DEF ToldSoFar
    <3>4. QED
      BY <3>1, <3>2, <3>3
  <2>3. QED
    BY <2>1, <2>2
<1>10. ToldSoFar'
  <2>1. \A k \in told' : k \in Nat /\ k <= m + d
    BY <1>1, <1>2, <1>3, <1>8
  <2>2. f <= m + d /\ first \in (f + 1)..((m + d) + 1)
    BY <1>1
  <2>3. pc' = "telling" => tool'.first = first
    BY <1>1, <1>4
  <2>4. pc' # "created"
    BY <1>4
  <2>5. QED
    BY <1>4, <1>5, <1>7, <2>1, <2>2, <2>3, <2>4 DEF ToldSoFar
<1>11. OnlyRecordsUntold'
  <2>1. ASSUME NEW k \in (f + 1)..(m + d), k \notin told'
        PROVE  /\ pc' = "telling" /\ tool'.first = first /\ first \in (f + 1)..k
               /\ \/ all[k].kind \in {"transform", "mark"}
                  \/ all[k].kind = "warning" /\ k = m + d
               /\ \A j \in told' : j >= first => all[j].asset # all[k].asset
    <3>1. k \in own
      BY <1>9, <2>1
    <3>2. pc' = "telling" /\ tool'.first = first
      BY <1>1, <1>4, <2>1, <3>1
    <3>3. all[k].asset # all[n].asset
      BY <1>3, <2>1, <3>1
    <3>4. first \in (f + 1)..k
      BY <1>1, <1>2, <3>1
    <3>5. ASSUME NEW j \in told', j >= first PROVE all[j].asset # all[k].asset
      BY <1>3, <1>9, <2>1, <3>3, <3>5
    <3>6. QED
      BY <1>9, <2>1, <3>2, <3>4, <3>5
  <2>2. QED
    BY <1>5, <1>7, <2>1 DEF OnlyRecordsUntold
<1>12. QED
  BY <1>1, <1>4, <1>5, <1>6, <1>10, <1>11 DEF CommitInv

\* The assets are announced one after another.
LEMMA AnnouncingTells ==
  ASSUME CommitInv, EvidenceInv, AnnounceAssets \/ TellNext
  PROVE  CommitInv'
<1>1. op = [kind |-> op.kind, failFast |-> op.failFast, first |-> op.first,
            parents |-> op.parents]
  BY DEF EvidenceInv, OperationIsKnown
<1>2. PICK s, all : s = observations /\ all = observations'
  OBVIOUS
<1>3. /\ pc \in {"created", "telling"} /\ TellAsset(all) /\ UNCHANGED <<report, closing>>
  BY <1>2 DEF AnnounceAssets, TellNext
<1>4. \E m, d \in Nat :
        /\ Len(s) = m /\ Len(all) = m + d /\ \A k \in 1..m : all[k] = s[k]
        /\ d # 0 => pc = "created" /\ d = 1 /\ all[m + 1].kind = "warning"
  <2>1. CASE AnnounceAssets
    <3>1. PICK own : own = tool.first..Len(observations)
      OBVIOUS
    <3>2. PICK w, drafts :
            /\ w = Warning(tool.asset, own)
            /\ drafts = IF tool.dropped THEN <<w>> ELSE <<>>
            /\ observations' = Appended(drafts)
      BY <2>1, <3>1 DEF AnnounceAssets
    <3>3. /\ IsSeq(drafts) /\ Len(drafts) \in {0, 1}
          /\ Len(drafts) # 0 => drafts[1] = w
      BY <3>2, ShortSeqs
    <3>4. w.kind = "warning"
      BY <3>2 DEF Warning, Draft
    <3>5. Joined(s, drafts, all)
      BY <1>2, <3>2, <3>3, ConcatFacts DEF EvidenceInv, Appended
    <3>6. PICK m, d \in Nat : m = Len(s) /\ d = Len(drafts) /\ Len(all) = m + d
      BY <3>5 DEF Joined
    <3>7. d # 0 => all[m + 1] = w /\ d = 1
      <4>1. d # 0 => d = 1 /\ 1 \in 1..d
        BY <3>3, <3>6
      <4>2. \A k \in 1..d : all[m + k] = drafts[k]
        BY <3>5, <3>6 DEF Joined
      <4>3. QED
        BY <3>3, <3>6, <4>1, <4>2
    <3>8. \A k \in 1..m : all[k] = s[k]
      BY <3>5, <3>6 DEF Joined
    <3>9. pc = "created"
      BY <2>1 DEF AnnounceAssets
    <3>10. QED
      BY <3>4, <3>6, <3>7, <3>8, <3>9
  <2>2. CASE TellNext
    <3>1. all = s
      BY <1>2, <2>2 DEF TellNext
    <3>2. PICK S : s \in Seq(S)
      BY <1>2 DEF EvidenceInv, IsSeq
    <3>3. PICK m \in Nat : Len(s) = m /\ Len(all) = m + 0
      BY <3>1, <3>2, LenProperties
    <3>4. QED
      BY <3>1, <3>3
  <2>3. QED
    BY <2>1, <2>2
<1>5. PICK m, d \in Nat :
        /\ Len(s) = m /\ Len(all) = m + d /\ \A k \in 1..m : all[k] = s[k]
        /\ d # 0 => pc = "created" /\ d = 1 /\ all[m + 1].kind = "warning"
  BY <1>4
<1>6. QED
  BY <1>1, <1>2, <1>3, <1>5, TellAssetTells

\* An operation that begins has observed nothing of its own.
LEMMA BeginTells ==
  ASSUME CommitInv, IsSeq(observations), NEW kind, NEW failFast, NEW items, NEW start,
         BeginOperation(kind, failFast, items, start),
         (kind = "inspect" /\ start = "gather") \/ (kind = "ask" /\ start = "initial")
  PROVE  CommitInv'
<1>1. /\ op' = [kind |-> kind, failFast |-> failFast, first |-> Len(observations), parents |-> {}]
      /\ jobs' = [i \in 1..Len(items) |-> "todo"] /\ pc' = start
      /\ UNCHANGED <<observations, closing>>
      /\ report' = [outcome |-> "none", listed |-> <<>>] /\ told' = {}
  BY DEF BeginOperation
<1>2. PICK m \in Nat : m = Len(observations)
  <2>1. PICK S : observations \in Seq(S)
    BY DEF IsSeq
  <2>2. QED
    BY <2>1, LenProperties
<1>3. op'.first = m /\ op'.kind = kind /\ report'.outcome = "none" /\ Len(observations)' = m
  BY <1>1, <1>2
<1>4. OnlyRecordsUntold'
  <2>1. (m + 1)..m = {}
    OBVIOUS
  <2>2. QED
    BY <1>3, <2>1 DEF OnlyRecordsUntold
<1>5. JobsInOrder'
  <2>1. ASSUME NEW i \in 1..Len(items) PROVE i \in Nat \ {0}
    OBVIOUS
  <2>2. DOMAIN jobs' \subseteq Nat \ {0} /\ \A i \in DOMAIN jobs' : jobs'[i] = "todo"
    BY <1>1, <2>1
  <2>3. QED
    BY <2>2 DEF JobsInOrder
<1>6. InPlanOrder'
  <2>1. m - m = 0 /\ 1..0 = {}
    OBVIOUS
  <2>2. Own' = [k \in 1..(m - m) |-> m + k]
    BY <1>3 DEF Own
  <2>3. DOMAIN Own' = {}
    BY <2>1, <2>2
  <2>4. [k \in {} |-> 0] \in [DOMAIN Own' -> DOMAIN jobs']
    BY <2>3
  <2>5. QED
    BY <2>3, <2>4 DEF InPlanOrder
<1>7. ToldSoFar'
  BY <1>1, <1>3 DEF ToldSoFar
<1>8. QED
  BY <1>1, <1>3, <1>4, <1>5, <1>6, <1>7 DEF CommitInv

\* A job that starts or ends does not upset the order.
LEMMA JobTells ==
  ASSUME CommitInv, NEW i \in DOMAIN jobs, StartJob(i) \/ FinishJob(i)
  PROVE  CommitInv'
<1>1. /\ pc = "gather" /\ UNCHANGED <<observations, pc, op, plan, told, report, closing, tool>>
      /\ \E s \in {"warned", "error", "running", "ok", "empty"} : jobs' = [jobs EXCEPT ![i] = s]
  BY DEF StartJob, FinishJob
<1>2. PICK s \in {"warned", "error", "running", "ok", "empty"} : jobs' = [jobs EXCEPT ![i] = s]
  BY <1>1
<1>3. jobs[i] \in {"todo", "running"}
  BY DEF StartJob, FinishJob, MayStart
<1>4. JobsInOrder /\ InPlanOrder
  BY <1>1 DEF CommitInv
<1>5. /\ DOMAIN jobs' = DOMAIN jobs /\ jobs'[i] = s
      /\ \A k \in DOMAIN jobs : k # i => jobs'[k] = jobs[k]
  BY <1>2
<1>6. DOMAIN jobs \subseteq Nat \ {0}
  BY <1>4 DEF JobsInOrder
<1>7. JobsInOrder'
  <2>1. ASSUME NEW k \in DOMAIN jobs, NEW j \in DOMAIN jobs, j < k, jobs'[k] = "committed"
        PROVE  jobs'[j] \in {"error", "warned", "committed"}
    <3>1. k # i /\ jobs[k] = "committed"
      BY <1>2, <1>5, <2>1
    <3>2. jobs[j] \in {"error", "warned", "committed"}
      BY <1>4, <2>1, <3>1 DEF JobsInOrder
    <3>3. j # i
      BY <1>3, <3>2
    <3>4. QED
      BY <1>5, <3>2, <3>3
  <2>2. ASSUME op.failFast, NEW k \in DOMAIN jobs, NEW j \in DOMAIN jobs, j < k, jobs'[k] # "todo"
        PROVE  jobs'[j] \in Settled \ {"error"}
    <3>1. CASE jobs[k] # "todo"
      <4>1. jobs[j] \in Settled \ {"error"}
        BY <1>4, <2>2, <3>1 DEF JobsInOrder
      <4>2. j # i
        BY <1>3, <4>1 DEF Settled
      <4>3. QED
        BY <1>5, <4>1, <4>2
    <3>2. CASE jobs[k] = "todo"
      <4>1. k = i
        BY <1>5, <2>2, <3>2
      <4>2. MayStart(i)
        BY <3>2, <4>1 DEF StartJob, FinishJob
      <4>3. j \in 1..(i - 1) /\ j # i
        BY <1>6, <2>2, <4>1
      <4>4. jobs[j] \in Settled \ {"error"}
        BY <2>2, <4>2, <4>3 DEF MayStart
      <4>5. QED
        BY <1>5, <4>3, <4>4
    <3>3. QED
      BY <3>1, <3>2
  <2>3. op'.failFast = op.failFast
    BY <1>1
  <2>4. QED
    BY <1>5, <1>6, <2>1, <2>2, <2>3 DEF JobsInOrder
<1>8. InPlanOrder'
  <2>1. Own' = Own
    BY <1>1 DEF Own
  <2>2. PICK place \in [DOMAIN Own -> DOMAIN jobs] :
          \A k \in DOMAIN Own : /\ ComesFrom(Own[k], place[k])
                                /\ \A j \in 1..(k - 1) : place[j] < place[k]
    BY <1>4 DEF InPlanOrder
  <2>3. ASSUME NEW k \in DOMAIN Own PROVE ComesFrom(Own[k], place[k])'
    <3>1. /\ jobs[place[k]] = "committed"
          /\ plan[place[k]].capability = observations[Own[k]].kind
          /\ plan[place[k]].asset = observations[Own[k]].asset
      BY <2>2 DEF ComesFrom
    <3>2. place[k] \in DOMAIN jobs /\ place[k] # i
      BY <1>3, <2>2, <3>1
    <3>3. jobs'[place[k]] = "committed"
      BY <1>5, <3>1, <3>2
    <3>4. QED
      BY <1>1, <2>1, <3>1, <3>3 DEF ComesFrom
  <2>4. place \in [DOMAIN Own' -> DOMAIN jobs']
    BY <1>5, <2>1
  <2>5. QED
    BY <2>1, <2>2, <2>3, <2>4 DEF InPlanOrder
<1>9. OnlyRecordsUntold' /\ ToldSoFar' /\ Own' = Own
  BY <1>1 DEF CommitInv, OnlyRecordsUntold, ToldSoFar, Own
<1>10. QED
  BY <1>1, <1>7, <1>8, <1>9 DEF CommitInv

\* Outcomes are committed from the first to the last.
LEMMA CommitOutcomeTells ==
  ASSUME CommitInv, IsSeq(observations), NEW i \in DOMAIN jobs, CommitOutcome(i)
  PROVE  CommitInv'
<1>1. /\ pc = "gather" /\ UNCHANGED <<pc, op, plan, report, closing, tool>>
      /\ jobs' = [jobs EXCEPT ![i] = "committed"] /\ jobs[i] \in {"ok", "empty"} /\ MayCommit(i)
  BY DEF CommitOutcome
<1>2. /\ JobsInOrder /\ InPlanOrder /\ op.first \in Nat /\ OnlyRecordsUntold
      /\ ToldSoFar /\ report.outcome = "none"
  BY <1>1 DEF CommitInv
<1>3. /\ DOMAIN jobs' = DOMAIN jobs /\ jobs'[i] = "committed"
      /\ \A k \in DOMAIN jobs : k # i => jobs'[k] = jobs[k]
  BY <1>1
<1>4. DOMAIN jobs \subseteq Nat \ {0}
  BY <1>2 DEF JobsInOrder
<1>5. \A j \in DOMAIN jobs : j < i => jobs[j] \in {"error", "warned", "committed"}
  <2>1. ASSUME NEW j \in DOMAIN jobs, j < i PROVE jobs[j] \in {"error", "warned", "committed"}
    <3>1. jobs[j] \notin {"ok", "empty"}
      <4>1. j \in 1..(i - 1)
        BY <1>4, <2>1
      <4>2. QED
        BY <1>1, <4>1 DEF MayCommit
    <3>2. jobs[j] \in Settled
      <4>1. CASE op.failFast
        <5>1. jobs[i] # "todo"
          BY <1>1
        <5>2. QED
          BY <1>2, <2>1, <4>1, <5>1 DEF JobsInOrder
      <4>2. CASE ~op.failFast
        BY <1>1, <4>2 DEF MayCommit, Gathered
      <4>3. QED
        BY <4>1, <4>2
    <3>3. QED
      BY <3>1, <3>2 DEF Settled
  <2>2. QED
    BY <2>1
<1>6. JobsInOrder'
  <2>1. ASSUME NEW k \in DOMAIN jobs, NEW j \in DOMAIN jobs, j < k, jobs'[k] = "committed"
        PROVE  jobs'[j] \in {"error", "warned", "committed"}
    <3>1. jobs[j] \in {"error", "warned", "committed"}
      <4>1. CASE k = i
        BY <1>5, <2>1, <4>1
      <4>2. CASE k # i
        BY <1>2, <1>3, <2>1, <4>2 DEF JobsInOrder
      <4>3. QED
        BY <4>1, <4>2
    <3>2. QED
      BY <1>3, <3>1
  <2>2. ASSUME op.failFast, NEW k \in DOMAIN jobs, NEW j \in DOMAIN jobs, j < k, jobs'[k] # "todo"
        PROVE  jobs'[j] \in Settled \ {"error"}
    <3>1. jobs[k] # "todo"
      BY <1>1, <1>3, <2>2
    <3>2. jobs[j] \in Settled \ {"error"}
      BY <1>2, <2>2, <3>1 DEF JobsInOrder
    <3>3. QED
      BY <1>3, <3>2 DEF Settled
  <2>3. op'.failFast = op.failFast
    BY <1>1
  <2>4. QED
    BY <1>3, <1>4, <2>1, <2>2, <2>3 DEF JobsInOrder
<1>7. PICK drafts : /\ drafts = IF jobs[i] = "ok" THEN <<Found(i)>> ELSE <<>>
                    /\ observations' = Appended(drafts)
  BY DEF CommitOutcome
<1>8. IsSeq(drafts)
  BY <1>7, ShortSeqs
<1>9. PICK s, u : s = observations /\ u = observations'
  OBVIOUS
<1>10. Joined(s, drafts, u)
  BY <1>7, <1>8, <1>9, ConcatFacts DEF Appended
<1>11. PICK f, m, d \in Nat : /\ f = op.first /\ m = Len(s) /\ d = Len(drafts)
                              /\ Len(u) = m + d
  BY <1>2, <1>10 DEF Joined
<1>12. \A k \in 1..m : u[k] = s[k]
  BY <1>10, <1>11 DEF Joined
<1>13. CASE jobs[i] = "empty"
  <2>1. d = 0 /\ told' = told
    <3>1. drafts = <<>>
      BY <1>7, <1>13
    <3>2. told' = told
      BY <1>13 DEF CommitOutcome
    <3>3. QED
      BY <1>11, <3>1, <3>2, ShortSeqs
  <2>2. Len(observations)' = Len(observations) /\ \A k \in 1..m : observations'[k] = observations[k]
    BY <1>9, <1>11, <1>12, <2>1
  <2>3. Own' = Own
    BY <1>1, <2>2 DEF Own
  <2>4. \A k \in (f + 1)..m : k \in 1..m
    BY <1>11
  <2>5. OnlyRecordsUntold' /\ ToldSoFar'
    <3>1. \A k \in (f + 1)..m : k \in told
      BY <1>1, <1>2, <1>9, <1>11 DEF OnlyRecordsUntold
    <3>2. Len(observations)' = m /\ op'.first = f
      BY <1>1, <1>9, <1>11, <2>1
    <3>3. OnlyRecordsUntold'
      BY <2>1, <3>1, <3>2 DEF OnlyRecordsUntold
    <3>4. ToldSoFar'
      BY <1>1, <1>2, <1>9, <1>11, <2>1, <3>2 DEF ToldSoFar
    <3>5. QED
      BY <3>3, <3>4
  <2>6. InPlanOrder'
    <3>1. PICK place \in [DOMAIN Own -> DOMAIN jobs] :
            \A k \in DOMAIN Own : /\ ComesFrom(Own[k], place[k])
                                  /\ \A j \in 1..(k - 1) : place[j] < place[k]
      BY <1>2 DEF InPlanOrder
    <3>2. ASSUME NEW k \in DOMAIN Own PROVE ComesFrom(Own[k], place[k])'
      <4>1. /\ jobs[place[k]] = "committed"
            /\ plan[place[k]].capability = observations[Own[k]].kind
            /\ plan[place[k]].asset = observations[Own[k]].asset
        BY <3>1 DEF ComesFrom
      <4>2. place[k] \in DOMAIN jobs
        BY <3>1
      <4>3. jobs'[place[k]] = "committed"
        BY <1>3, <4>1, <4>2
      <4>4. Own[k] \in 1..m
        <5>1. DOMAIN Own = 1..(m - f) /\ Own[k] = f + k
          BY <1>9, <1>11 DEF Own
        <5>2. QED
          BY <1>11, <5>1
      <4>5. observations'[Own[k]] = observations[Own[k]]
        BY <2>2, <4>4
      <4>6. QED
        BY <1>1, <2>3, <4>1, <4>3, <4>5 DEF ComesFrom
    <3>3. place \in [DOMAIN Own' -> DOMAIN jobs']
      BY <1>3, <2>3
    <3>4. QED
      BY <2>3, <3>1, <3>2, <3>3 DEF InPlanOrder
  <2>7. QED
    BY <1>1, <1>2, <1>6, <2>3, <2>5, <2>6 DEF CommitInv
<1>14. CASE jobs[i] = "ok"
  <2>1. /\ d = 1 /\ u[m + 1] = Found(i) /\ told' = told \cup {m + 1}
    <3>1. drafts = <<Found(i)>>
      BY <1>7, <1>14
    <3>2. Len(drafts) = 1 /\ drafts[1] = Found(i)
      BY <3>1, ShortSeqs
    <3>3. 1 \in 1..Len(drafts) /\ d = 1
      BY <1>11, <3>2
    <3>4. u[m + 1] = drafts[1]
      BY <1>10, <1>11, <3>3 DEF Joined
    <3>5. told' = told \cup Batch(1)
      BY <1>14 DEF CommitOutcome
    <3>6. Batch(1) = {m + 1}
      BY <1>9, <1>11 DEF Batch
    <3>7. QED
      BY <3>2, <3>3, <3>4, <3>5, <3>6
  <2>2. Len(observations)' = m + 1 /\ Len(observations) = m
    BY <1>9, <1>11, <2>1
  <2>3. OnlyRecordsUntold' /\ ToldSoFar'
    <3>1. ASSUME NEW k \in (f + 1)..(m + 1), k \notin told' PROVE FALSE
      <4>1. k \in (f + 1)..m /\ k \notin told
        BY <1>11, <2>1, <3>1
      <4>2. pc \in {"created", "telling"}
        BY <1>1, <1>2, <1>11, <2>2, <4>1 DEF OnlyRecordsUntold
      <4>3. QED
        BY <1>1, <4>2
    <3>2. op'.first = f
      BY <1>1, <1>11
    <3>3. OnlyRecordsUntold'
      BY <2>2, <3>1, <3>2 DEF OnlyRecordsUntold
    <3>4. f <= m /\ \A k \in told : k \in Nat /\ k <= m
      BY <1>1, <1>2, <1>11, <2>2 DEF ToldSoFar
    <3>5. f <= m + 1 /\ \A k \in told' : k \in Nat /\ k <= m + 1
      BY <1>11, <2>1, <3>4
    <3>6. ToldSoFar'
      BY <1>1, <2>2, <3>2, <3>5 DEF ToldSoFar
    <3>7. QED
      BY <3>3, <3>6
  <2>4. InPlanOrder'
    <3>1. PICK place \in [DOMAIN Own -> DOMAIN jobs] :
            \A k \in DOMAIN Own : /\ ComesFrom(Own[k], place[k])
                                  /\ \A j \in 1..(k - 1) : place[j] < place[k]
      BY <1>2 DEF InPlanOrder
    <3>2. PICK own, own2 : own = Own /\ own2 = Own'
      OBVIOUS
    <3>3. /\ DOMAIN own = 1..(m - f) /\ \A k \in 1..(m - f) : own[k] = f + k
      BY <1>11, <2>2, <3>2 DEF Own
    <3>4. /\ DOMAIN own2 = 1..((m + 1) - f) /\ \A k \in 1..((m + 1) - f) : own2[k] = f + k
      BY <1>1, <1>11, <2>2, <3>2 DEF Own
    <3> DEFINE now == [k \in 1..((m + 1) - f) |-> IF k \in 1..(m - f) THEN place[k] ELSE i]
    <3>5. now \in [DOMAIN own2 -> DOMAIN jobs']
      BY <1>3, <3>1, <3>2, <3>3, <3>4
    <3>6. \A k \in 1..(m - f) : now[k] = place[k]
      <4>1. \A k \in 1..(m - f) : k \in 1..((m + 1) - f)
        BY <1>11
      <4>2. QED
        BY <4>1
    <3>7. \A k \in 1..((m + 1) - f) : k \notin 1..(m - f) => now[k] = i /\ k = (m + 1) - f
      BY <1>11
    <3> HIDE DEF now
    <3>8. ASSUME NEW k \in 1..((m + 1) - f)
          PROVE  ComesFrom(own2[k], now[k])' /\ \A j \in 1..(k - 1) : now[j] < now[k]
      <4>1. CASE k \in 1..(m - f)
        <5>1. /\ jobs[place[k]] = "committed"
              /\ plan[place[k]].capability = observations[own[k]].kind
              /\ plan[place[k]].asset = observations[own[k]].asset
          BY <3>1, <3>2, <3>3, <4>1 DEF ComesFrom
        <5>2. now[k] = place[k] /\ own2[k] = own[k] /\ own[k] \in 1..m
          BY <1>11, <3>3, <3>4, <3>6, <4>1
        <5>3. jobs'[place[k]] = "committed"
          BY <1>3, <3>1, <3>2, <3>3, <4>1, <5>1
        <5>4. observations'[own[k]] = observations[own[k]]
          BY <1>9, <1>12, <5>2
        <5>5. ComesFrom(own2[k], now[k])'
          BY <1>1, <5>1, <5>2, <5>3, <5>4 DEF ComesFrom
        <5>6. ASSUME NEW j \in 1..(k - 1) PROVE now[j] < now[k]
          <6>1. j \in 1..(m - f)
            BY <1>11, <4>1
          <6>2. place[j] < place[k]
            BY <3>1, <3>2, <3>3, <4>1
          <6>3. QED
            BY <3>6, <4>1, <6>1, <6>2
        <5>7. QED
          BY <5>5, <5>6
      <4>2. CASE k \notin 1..(m - f)
        <5>1. now[k] = i /\ k = (m + 1) - f
          BY <3>7, <3>8, <4>2
        <5>2. own2[k] = m + 1
          BY <1>11, <3>4, <3>8, <5>1
        <5>3. observations'[m + 1] = Found(i)
          BY <1>9, <2>1
        <5>4. Found(i).kind = plan[i].capability /\ Found(i).asset = plan[i].asset
          BY DEF Found, Draft
        <5>5. ComesFrom(own2[k], now[k])'
          BY <1>1, <1>3, <5>1, <5>2, <5>3, <5>4 DEF ComesFrom
        <5>6. ASSUME NEW j \in 1..(k - 1) PROVE now[j] < now[k]
          <6>1. j \in 1..(m - f)
            BY <1>11, <5>1
          <6>2. place[j] \in DOMAIN jobs /\ jobs[place[j]] = "committed"
            BY <3>1, <3>2, <3>3, <6>1 DEF ComesFrom
          <6>3. place[j] # i
            BY <1>14, <6>2
          <6>4. ~(i < place[j])
            BY <1>2, <1>14, <6>2 DEF JobsInOrder
          <6>5. place[j] \in Nat /\ i \in Nat
            BY <1>4, <6>2
          <6>6. place[j] < i
            BY <6>3, <6>4, <6>5
          <6>7. QED
            BY <3>6, <5>1, <6>1, <6>6
        <5>7. QED
          BY <5>5, <5>6
      <4>3. QED
        BY <4>1, <4>2
    <3>9. \A k \in DOMAIN own2 : ComesFrom(own2[k], now[k])' /\ \A j \in 1..(k - 1) : now[j] < now[k]
      BY <3>4, <3>8
    <3>10. QED
      BY <3>2, <3>5, <3>9 DEF InPlanOrder
  <2>5. QED
    BY <1>1, <1>2, <1>6, <2>3, <2>4 DEF CommitInv
<1>15. QED
  BY <1>1, <1>13, <1>14

\* The records of a transform wait to be announced.
LEMMA TakeRenderTells ==
  ASSUME CommitInv, EvidenceInv, AssetAssumption, RenderAssumption, NEW marks, TakeRender(marks)
  PROVE  CommitInv'
<1>1. PICK out, commits, drafts :
        /\ out = renders[tool.slot].out /\ commits = Plan(tool.asset, out).commits
        /\ drafts = TransformDrafts(commits, marks)
  OBVIOUS
<1>2. /\ pc = "render" /\ renders[tool.slot].state = "done"
      /\ UNCHANGED <<op, told, closing>>
  BY DEF TakeRender
<1>3. /\ op.kind = "ask" /\ report.outcome = "none" /\ op.first \in Nat
      /\ OnlyRecordsUntold /\ ToldSoFar
  BY <1>2 DEF CommitInv
<1>4. \/ (End("failed", <<>>) \/ End("refused", <<>>)) /\ UNCHANGED observations
      \/ /\ observations' = Appended(drafts) /\ pc' = "created" /\ UNCHANGED report
         /\ \E b, c : tool' = [tool EXCEPT !.first = Len(observations) + 1, !.fresh = b, !.dropped = c]
  <2>1. CASE ~Admits(tool.asset, out)
    <3>1. End("failed", <<>>) /\ UNCHANGED observations
      BY <1>1, <2>1 DEF TakeRender
    <3>2. QED
      BY <3>1
  <2>2. CASE Admits(tool.asset, out) /\ ~Admissible(drafts, DOMAIN records')
    <3>1. End("refused", <<>>) /\ UNCHANGED observations
      BY <1>1, <2>2 DEF TakeRender
    <3>2. QED
      BY <3>1
  <2>3. CASE Admits(tool.asset, out) /\ Admissible(drafts, DOMAIN records')
    <3>1. /\ observations' = Appended(drafts) /\ pc' = "created" /\ UNCHANGED report
          /\ tool' = [tool EXCEPT !.first = Len(observations) + 1,
                                  !.fresh = \E i \in DOMAIN commits : ~commits[i].reused,
                                  !.dropped = marks # tool.sources]
      BY <1>1, <2>3 DEF TakeRender
    <3>2. \E b, c : tool' = [tool EXCEPT !.first = Len(observations) + 1, !.fresh = b, !.dropped = c]
      BY <3>1
    <3>3. QED
      BY <3>1, <3>2
  <2>4. QED
    BY <2>1, <2>2, <2>3
<1>5. CASE (End("failed", <<>>) \/ End("refused", <<>>)) /\ UNCHANGED observations
  BY <1>2, <1>3, <1>5, EndTells
<1>6. CASE /\ observations' = Appended(drafts) /\ pc' = "created" /\ UNCHANGED report
           /\ \E b, c : tool' = [tool EXCEPT !.first = Len(observations) + 1, !.fresh = b, !.dropped = c]
  <2>1. commits \in Seq(Commits)
    <3>1. tool.slot \in RenderSlots /\ tool.asset \in Owned
      BY <1>2 DEF EvidenceInv, ToolIsKnown
    <3>2. out \in Renderings
      BY <1>1, <1>2, <3>1 DEF EvidenceInv, RendersOK
    <3>3. out \in Seq(Digests)
      BY <3>2 DEF RenderAssumption
    <3>4. Planned(Plan(tool.asset, out), tool.asset, records, Len(out))
      BY <3>1, <3>3, PlanFacts DEF EvidenceInv
    <3>5. QED
      BY <1>1, <3>4 DEF Planned
  <2>2. Records(commits, marks, drafts)
    BY <1>1, <2>1, DraftsFacts
  <2>3. IsSeq(drafts) /\ \A k \in 1..Len(drafts) : drafts[k].kind \in {"transform", "mark"}
    <3>1. \A kind, a, from, parents, sources : Draft(kind, a, from, parents, sources).kind = kind
      BY DEF Draft
    <3>2. ASSUME NEW k \in 1..Len(drafts) PROVE drafts[k].kind \in {"transform", "mark"}
      <4>1. PICK a, from, parents, sources :
              \/ drafts[k] = Draft("transform", a, from, parents, sources)
              \/ drafts[k] = Draft("mark", a, from, parents, sources)
        BY <2>2 DEF Records
      <4>2. QED
        BY <3>1, <4>1
    <3>3. QED
      BY <2>2, <3>2 DEF Records
  <2>4. PICK s, u : s = observations /\ u = observations'
    OBVIOUS
  <2>5. Joined(s, drafts, u)
    BY <1>6, <2>3, <2>4, ConcatFacts DEF EvidenceInv, Appended
  <2>6. PICK f, m, d \in Nat : /\ f = op.first /\ m = Len(s) /\ d = Len(drafts) /\ Len(u) = m + d
    BY <1>3, <2>5 DEF Joined
  <2>7. tool'.first = m + 1
    <3>1. PICK b, c, n : /\ tool' = [tool EXCEPT !.first = n, !.fresh = b, !.dropped = c]
                         /\ n = m + 1
      BY <1>6, <2>4, <2>6
    <3>2. tool' = [asset |-> tool.asset, capability |-> tool.capability, sources |-> tool.sources,
                   slot |-> tool.slot, first |-> n, fresh |-> b, dropped |-> c]
      BY <3>1 DEF EvidenceInv, ToolIsKnown
    <3>3. tool'.first = n
      BY <3>2
    <3>4. QED
      BY <3>1, <3>3
  <2>8. ASSUME NEW k \in (f + 1)..(m + d), k \notin told
        PROVE  u[k].kind \in {"transform", "mark"} /\ k >= m + 1
    <3>1. CASE k <= m
      <4>1. k \in (f + 1)..m
        BY <2>6, <2>8, <3>1
      <4>2. pc \in {"created", "telling"}
        BY <1>2, <1>3, <2>4, <2>6, <2>8, <4>1 DEF OnlyRecordsUntold
      <4>3. QED
        BY <1>2, <4>2
    <3>2. CASE ~(k <= m)
      <4>1. k - m \in 1..d /\ m + (k - m) = k /\ k >= m + 1
        BY <2>6, <2>8, <3>2
      <4>2. u[k] = drafts[k - m]
        BY <2>5, <2>6, <4>1 DEF Joined
      <4>3. QED
        BY <2>3, <2>6, <4>1, <4>2
    <3>3. QED
      BY <3>1, <3>2
  <2>9. OnlyRecordsUntold' /\ ToldSoFar'
    <3>1. Len(observations)' = m + d /\ op'.first = f /\ told' = told /\ pc' = "created"
      BY <1>2, <1>6, <2>4, <2>6
    <3>2. f <= m /\ \A k \in told : k \in Nat /\ k <= m
      BY <1>2, <1>3, <2>4, <2>6 DEF ToldSoFar
    <3>3. \A k \in told : ~(k >= m + 1)
      BY <2>6, <3>2
    <3>4. ASSUME NEW k \in (f + 1)..(m + d), k \notin told
          PROVE  m + 1 \in (f + 1)..k /\ u[k].kind \in {"transform", "mark"}
      BY <2>6, <2>8, <3>2, <3>4
    <3>5. OnlyRecordsUntold'
      BY <2>4, <2>7, <3>1, <3>3, <3>4 DEF OnlyRecordsUntold
    <3>6. /\ f <= m + d /\ m + 1 \in (f + 1)..((m + d) + 1)
          /\ \A k \in told : k \in Nat /\ k <= m + d /\ k < m + 1
      BY <2>6, <3>2
    <3>7. ToldSoFar'
      BY <2>7, <3>1, <3>6 DEF ToldSoFar
    <3>8. QED
      BY <3>5, <3>7
  <2>10. QED
    BY <1>2, <1>3, <1>6, <2>9 DEF CommitInv
<1>7. QED
  BY <1>4, <1>5, <1>6

\* Only an interrupted transform may leave records untold.
LEMMA InterruptTells ==
  ASSUME CommitInv, Interrupt PROVE CommitInv'
<1>1. /\ pc # "idle" /\ End("cancelled", <<>>) /\ UNCHANGED <<observations, op, told, closing>>
  BY DEF Interrupt
<1>2. QED
  BY <1>1, EndTells

\* A closed session has no observations left to tell.
LEMMA FinishCloseTells ==
  ASSUME CommitInv, FinishClose PROVE CommitInv'
<1>1. /\ pc = "idle" /\ closing' = "closed" /\ observations' = <<>>
      /\ UNCHANGED <<pc, op, report>>
  BY DEF FinishClose
<1>2. Len(observations)' = 0
  BY <1>1
<1>3. op.first \in Nat /\ (op.first + 1)..0 = {}
  BY DEF CommitInv
<1>4. OnlyRecordsUntold' /\ ToldSoFar'
  BY <1>1, <1>2, <1>3 DEF OnlyRecordsUntold, ToldSoFar
<1>5. QED
  BY <1>1, <1>4 DEF CommitInv

\* The steps of an ask that file what they produced.
LEMMA FilingStepsTell ==
  ASSUME CommitInv, EvidenceInv, NEW i,
         InitialResult(i) \/ RefuseTool \/ EndPerceive \/ RenderFailed
  PROVE  CommitInv'
<1>1. /\ IsSeq(observations)
      /\ op = [kind |-> op.kind, failFast |-> op.failFast, first |-> op.first,
               parents |-> op.parents]
      /\ pc # "idle" => op.parents \subseteq Numbers
  BY DEF EvidenceInv, OperationIsKnown
<1>2. /\ pc \notin {"idle", "gather", "created", "telling"}
      /\ pc' \notin {"idle", "gather", "created", "telling"} /\ UNCHANGED report
  BY DEF InitialResult, RefuseTool, EndPerceive, RenderFailed
<1>3. \A x : IsSeq(<<x>>)
  BY ShortSeqs
<1>4. \E drafts, parents : IsSeq(drafts) /\ File(drafts, parents) /\ parents \subseteq Numbers
  <2>1. CASE InitialResult(i)
    <3>1. \E x : File(<<x>>, op.parents)
      BY <2>1 DEF InitialResult
    <3>2. QED
      BY <1>1, <1>2, <1>3, <3>1
  <2>2. CASE RefuseTool \/ EndPerceive \/ RenderFailed
    <3>1. \E x : File(<<x>>, {})
      BY <2>2 DEF RefuseTool, EndPerceive, RenderFailed
    <3>2. QED
      BY <1>3, <3>1
  <2>3. QED
    BY <2>1, <2>2
<1>5. PICK drafts, parents :
        IsSeq(drafts) /\ File(drafts, parents) /\ parents \subseteq Numbers
  BY <1>4
<1>6. QED
  BY <1>1, <1>2, <1>5, FilingTells

\* Every step keeps what is committed and what is told in agreement.
LEMMA CommitsKeep ==
  ASSUME AssetAssumption, RenderAssumption, CommitInv, EvidenceInv, [EvidenceNext]_evidenceVars
  PROVE  CommitInv'
<1>0. IsSeq(observations)
  BY DEF EvidenceInv
<1>1. CASE \E p \in Plans, target \in Owned : BeginInspect(p, target)
  <2>1. PICK p \in Plans, target \in Owned : BeginInspect(p, target)
    BY <1>1
  <2>2. BeginOperation("inspect", p.failFast, InspectionOperations(p, target), "gather")
    BY <2>1 DEF BeginInspect
  <2>3. QED
    BY <1>0, <2>2, BeginTells
<1>2. CASE BeginAsk
  <2>1. BeginOperation("ask", FALSE, InitialPlan, "initial")
    BY <1>2 DEF BeginAsk
  <2>2. QED
    BY <1>0, <2>1, BeginTells
<1>3. CASE Gather
  <2>1. CASE EndInspect
    <3>1. PICK outcome : End(outcome, Own)
      BY <2>1 DEF EndInspect
    <3>2. pc = "gather" /\ UNCHANGED <<observations, op, told, closing>>
      BY <2>1 DEF EndInspect
    <3>3. QED
      BY <3>1, <3>2, EndTells
  <2>2. CASE \E i \in DOMAIN jobs : StartJob(i) \/ FinishJob(i) \/ CommitOutcome(i)
    BY <1>0, <2>2, JobTells, CommitOutcomeTells
  <2>3. QED
    BY <1>3, <2>1, <2>2 DEF Gather
<1>4. CASE Initial
  <2>1. CASE StartLoop \/ \E i \in DOMAIN jobs : InitialCall(i)
    <3>1. /\ pc = "initial" /\ pc' \notin {"idle", "gather", "created", "telling"}
          /\ UNCHANGED <<op, told, report, observations, closing>>
      BY <2>1 DEF StartLoop, InitialCall
    <3>2. QED
      BY <3>1, MovesTell
  <2>2. CASE \E i \in DOMAIN jobs : InitialResult(i)
    BY <2>2, FilingStepsTell
  <2>3. CASE \E i \in DOMAIN jobs : InitialFailure(i)
    <3>1. /\ pc = "initial" /\ End("failed", <<>>)
          /\ UNCHANGED <<observations, op, told, closing>>
      BY <2>3 DEF InitialFailure
    <3>2. op.kind = "ask"
      BY <3>1 DEF CommitInv
    <3>3. QED
      BY <3>1, <3>2, EndTells
  <2>4. QED
    BY <1>4, <2>1, <2>2, <2>3 DEF Initial
<1>5. CASE CallTool
  <2>1. CASE RefuseTool
    BY <2>1, FilingStepsTell
  <2>2. CASE \E a \in Owned, c \in Supported : BeginPerceive(a, c)
    <3>1. /\ pc = "turn" /\ pc' = "perceive"
          /\ UNCHANGED <<op, told, report, observations, closing>>
      BY <2>2 DEF BeginPerceive
    <3>2. QED
      BY <3>1, MovesTell
  <2>3. CASE \E a, S, count, r : BeginRender(a, S, count, r)
    <3>1. /\ pc = "turn" /\ pc' = "render"
          /\ UNCHANGED <<op, told, report, observations, closing>>
      BY <2>3 DEF BeginRender
    <3>2. QED
      BY <3>1, MovesTell
  <2>4. QED
    BY <1>5, <2>1, <2>2, <2>3 DEF CallTool
<1>6. CASE FinishTool
  <2>1. \/ EndPerceive \/ RenderFailed \/ AnnounceAssets \/ TellNext
        \/ \E marks : TakeRender(marks)
    BY <1>6 DEF FinishTool
  <2>2. QED
    BY <2>1, FilingStepsTell, AnnouncingTells, TakeRenderTells
<1>7. CASE EndAsk
  <2>1. /\ pc = "turn" /\ End("ok", <<>>) /\ UNCHANGED <<observations, op, told, closing>>
    BY <1>7 DEF EndAsk
  <2>2. op.kind = "ask"
    BY <2>1 DEF CommitInv
  <2>3. QED
    BY <2>1, <2>2, EndTells
<1>8. CASE \/ (\E r \in RenderSlots : Thread(r)) \/ BeginClose \/ UNCHANGED evidenceVars
  <2>1. /\ UNCHANGED <<pc, op, plan, jobs, tool, told, report, observations>>
        /\ closing' # "closed" => closing # "closed"
    BY <1>8 DEF Thread, RenderEnds, CloseLate, BeginClose, evidenceVars, sessionVars
  <2>2. QED
    BY <2>1, QuietTells
<1>9. CASE Interrupt \/ FinishClose
  BY <1>9, InterruptTells, FinishCloseTells
<1>10. QED
  BY <1>1, <1>2, <1>3, <1>4, <1>5, <1>6, <1>7, <1>8, <1>9 DEF EvidenceNext

\* What is committed is told and reported, for every session.
THEOREM SessionCommitsAreTold == EvidenceSpec => []CommitsAreTold
<1>1. EvidenceInit => EvidenceInv /\ CommitInv
  <2>1. SUFFICES ASSUME EvidenceInit PROVE CommitInv
    BY AssetAssumption, RenderAssumption, EvidenceInitially
  <2>2. /\ observations = <<>> /\ pc = "idle" /\ op.first = 0 /\ op.kind = "none"
        /\ report.outcome = "none"
    <3>1. /\ observations = <<>> /\ pc = "idle"
          /\ op = [kind |-> "none", failFast |-> FALSE, first |-> 0, parents |-> {}]
          /\ report = [outcome |-> "none", listed |-> <<>>]
      BY <2>1 DEF EvidenceInit
    <3>2. QED
      BY <3>1
  <2>3. (0 + 1)..Len(observations) = {}
    BY <2>2
  <2>4. QED
    BY <2>2, <2>3 DEF CommitInv, OnlyRecordsUntold, ToldSoFar
<1>2. EvidenceInv /\ CommitInv /\ [EvidenceNext]_evidenceVars => EvidenceInv' /\ CommitInv'
  BY AssetAssumption, RenderAssumption, EvidenceKeeps, CommitsKeep
<1>3. CommitInv => CommitsAreTold
  <2>1. SUFFICES ASSUME CommitInv PROVE CommitsAreTold
    OBVIOUS
  <2>2. InspectionReportsCommits
    BY <2>1 DEF CommitInv, InspectionReportsCommits, InPlanOrder
  <2>3. TraceTellsCommits
    BY <2>1 DEF CommitInv, OnlyRecordsUntold, TraceTellsCommits
  <2>4. QED
    BY <2>2, <2>3 DEF CommitsAreTold
<1>4. QED
  BY <1>1, <1>2, <1>3, PTL DEF EvidenceSpec
=============================================================================
