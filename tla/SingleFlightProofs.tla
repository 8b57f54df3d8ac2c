-------------------------- MODULE SingleFlightProofs --------------------------
(***************************************************************************)
(* Proofs about SingleFlight for every finite set of callers, every set of *)
(* keys and closers: type correctness, the reference-count invariants, and *)
(* that the coordinator implements SharedWork.                             *)
(***************************************************************************)
EXTENDS SingleFlight, FiniteSetTheorems, TLAPS

\* Where a caller stands determines which of its references exist.
CallersConsistent ==
  \A c \in Callers :
    /\ caller[c] = "idle" => /\ joined[c] = NoFlight
                             /\ release[c] = "none"
                             /\ population[c] = "absent"
    /\ caller[c] = "waiting" => joined[c] # NoFlight /\ release[c] = "none"
    /\ caller[c] = "leaving" => joined[c] # NoFlight /\ release[c] # "none"
    /\ caller[c] = "returned" => joined[c] = NoFlight \/ release[c] # "none"
    /\ release[c] # "none" => joined[c] # NoFlight

\* A caller shares a flight of its own key that has been started, and shares
\* the filed one until it has given its reference back or the coordinator is
\* closed.
JoinedConsistent ==
  \A c \in Callers : joined[c] # NoFlight =>
    /\ KeyOf[joined[c]] = KeyOf[c]
    /\ population[joined[c]] # "absent"
    /\ release[c] # "done" /\ ~closed => flights[KeyOf[c]] = joined[c]

\* A filed flight belongs to its key and has not been cancelled.
FiledConsistent ==
  /\ \A k \in Keys : flights[k] # NoFlight =>
       /\ KeyOf[flights[k]] = k
       /\ population[flights[k]] \in {"running", "finished"}
       /\ ~closed
  /\ \A f \in Callers : population[f] = "running" => flights[KeyOf[f]] = f
  /\ \A f \in Callers : population[f] = "absent" => waiters[f] = 0

IInv == /\ TypeOK
        /\ CallersConsistent
        /\ JoinedConsistent
        /\ FiledConsistent
        /\ WaitersAccounted

-------------------------------------------------------------------------------
USE CallerAssumption

\* The holders of a flight are finitely many callers.
LEMMA HoldersFinite ==
  ASSUME NEW f
  PROVE  IsFiniteSet(Holders(f)) /\ Cardinality(Holders(f)) \in Nat
BY FS_Subset, FS_CardinalityType DEF Holders

\* A flight that somebody holds has a positive number of holders.
LEMMA HeldIsCounted ==
  ASSUME NEW f, NEW c \in Holders(f)
  PROVE  Cardinality(Holders(f)) > 0
BY HoldersFinite, FS_EmptySet

LEMMA InitIInv == Init => IInv
<1> SUFFICES ASSUME Init PROVE IInv
  OBVIOUS
<1> USE DEF Init
<1>1. TypeOK
  BY DEF TypeOK, Populations, CallerSteps
<1>2. CallersConsistent
  BY DEF CallersConsistent
<1>3. JoinedConsistent
  BY DEF JoinedConsistent
<1>4. FiledConsistent
  BY DEF FiledConsistent
<1>5. WaitersAccounted
  BY DEF WaitersAccounted
<1>6. QED
  BY <1>1, <1>2, <1>3, <1>4, <1>5 DEF IInv

\* Steps that leave the dictionary, the counts and the references alone keep
\* the counts right.
LEMMA CountsUntouched ==
  ASSUME WaitersAccounted, UNCHANGED <<flights, waiters, joined>>,
         \A c \in Callers : release'[c] = "done" <=> release[c] = "done"
  PROVE  WaitersAccounted'
<1>1. \A f : Holders(f)' = Holders(f)
  BY DEF Holders
<1>2. QED
  BY <1>1 DEF WaitersAccounted

LEMMA StartFlightIInv ==
  ASSUME IInv, NEW c \in Callers, StartFlight(c)
  PROVE  IInv'
<1> USE DEF IInv, StartFlight, Enter
<1>1. TypeOK'
  BY DEF TypeOK, Populations, CallerSteps
<1>2. CallersConsistent'
  BY DEF TypeOK, CallersConsistent
<1>3. JoinedConsistent'
  BY DEF TypeOK, CallersConsistent, JoinedConsistent
<1>4. FiledConsistent'
  BY DEF TypeOK, CallersConsistent, JoinedConsistent, FiledConsistent, Outcomes
<1>5. WaitersAccounted'
  <2> SUFFICES ASSUME NEW k \in Keys, flights'[k] # NoFlight
               PROVE  /\ waiters'[flights'[k]] = Cardinality(Holders(flights[k])')
                      /\ waiters'[flights'[k]] > 0
    BY DEF WaitersAccounted
  <2>1. CASE k = KeyOf[c]
    <3>1. flights'[k] = c
      BY <2>1 DEF TypeOK
    <3>2. Holders(flights[k])' = {c}
      BY <3>1 DEF TypeOK, CallersConsistent, JoinedConsistent, Holders
    <3>3. waiters'[flights'[k]] = 1
      BY <3>1 DEF TypeOK, CallersConsistent, FiledConsistent
    <3>4. Cardinality({c}) = 1
      BY FS_Singleton
    <3>5. QED
      BY SMTT(30), <3>2, <3>3, <3>4
  <2>2. CASE k # KeyOf[c]
    <3>1. flights'[k] = flights[k] /\ flights[k] # c
      BY <2>2 DEF TypeOK, FiledConsistent
    <3>2. Holders(flights[k])' = Holders(flights[k])
      <4>1. \A d \in Callers : joined'[d] = flights'[k] <=> joined[d] = flights[k]
        BY <3>1 DEF TypeOK, CallersConsistent
      <4>2. QED
        BY <4>1 DEF Holders
    <3>3. waiters'[flights'[k]] = waiters[flights[k]]
      BY <3>1 DEF TypeOK
    <3>4. QED
      BY <3>1, <3>2, <3>3 DEF WaitersAccounted
  <2>3. QED
    BY <2>1, <2>2
<1>6. QED
  BY <1>1, <1>2, <1>3, <1>4, <1>5

LEMMA JoinFlightIInv ==
  ASSUME IInv, NEW c \in Callers, JoinFlight(c)
  PROVE  IInv'
<1> DEFINE f == flights[KeyOf[c]]
<1> USE DEF IInv, JoinFlight, Enter
<1>0. f \in Callers /\ f # c /\ KeyOf[f] = KeyOf[c] /\ population[f] # "absent"
  BY DEF TypeOK, CallersConsistent, FiledConsistent
<1>1. TypeOK'
  BY <1>0 DEF TypeOK, CallerSteps
<1>2. CallersConsistent'
  BY <1>0 DEF TypeOK, CallersConsistent
<1>3. JoinedConsistent'
  BY <1>0 DEF TypeOK, CallersConsistent, JoinedConsistent
<1>4. FiledConsistent'
  BY <1>0 DEF TypeOK, FiledConsistent
<1>5. WaitersAccounted'
  <2> SUFFICES ASSUME NEW k \in Keys, flights[k] # NoFlight
               PROVE  /\ waiters'[flights[k]] = Cardinality(Holders(flights[k])')
                      /\ waiters'[flights[k]] > 0
    BY DEF WaitersAccounted
  <2>1. CASE k = KeyOf[c]
    <3>1. Holders(f)' = Holders(f) \cup {c} /\ c \notin Holders(f)
      BY <1>0 DEF TypeOK, CallersConsistent, Holders
    <3>2. waiters'[f] = waiters[f] + 1
      BY <1>0 DEF TypeOK
    <3>3. Cardinality(Holders(f)') = Cardinality(Holders(f)) + 1
      BY <3>1, HoldersFinite, FS_AddElement
    <3>4. QED
      BY <2>1, <3>2, <3>3, HoldersFinite DEF WaitersAccounted
  <2>2. CASE k # KeyOf[c]
    <3>1. flights[k] # f
      BY <1>0, <2>2 DEF FiledConsistent
    <3>2. Holders(flights[k])' = Holders(flights[k])
      BY <3>1 DEF TypeOK, CallersConsistent, Holders
    <3>3. waiters'[flights[k]] = waiters[flights[k]]
      BY <3>1 DEF TypeOK
    <3>4. QED
      BY <3>2, <3>3 DEF WaitersAccounted
  <2>3. QED
    BY <2>1, <2>2
<1>6. QED
  BY <1>1, <1>2, <1>3, <1>4, <1>5

\* The steps of a caller that move no reference: rejection, waking, both
\* interruptions, and the return.
LEMMA CallerMovesIInv ==
  ASSUME IInv, NEW c \in Callers,
         RejectCall(c) \/ Wake(c) \/ InterruptWait(c) \/ InterruptRelease(c) \/ Return(c)
  PROVE  IInv'
<1> USE DEF IInv, RejectCall, Wake, InterruptWait, InterruptRelease, Return, StartLeaving
<1>1. TypeOK'
  BY DEF TypeOK, CallerSteps
<1>2. CallersConsistent'
  BY DEF TypeOK, CallersConsistent
<1>3. JoinedConsistent'
  BY DEF TypeOK, CallersConsistent, JoinedConsistent
<1>4. FiledConsistent'
  BY DEF FiledConsistent
<1>5. WaitersAccounted'
  BY CountsUntouched DEF TypeOK, CallersConsistent
<1>6. QED
  BY <1>1, <1>2, <1>3, <1>4, <1>5

LEMMA ReleaseDetachedIInv ==
  ASSUME IInv, NEW c \in Callers, ReleaseDetached(c)
  PROVE  IInv'
<1> USE DEF IInv, ReleaseDetached, Released
<1>1. TypeOK'
  BY DEF TypeOK
<1>2. CallersConsistent'
  BY DEF TypeOK, CallersConsistent
<1>3. JoinedConsistent'
  BY DEF TypeOK, JoinedConsistent
<1>4. FiledConsistent'
  BY DEF FiledConsistent
<1>5. WaitersAccounted'
  <2> SUFFICES ASSUME NEW k \in Keys, flights[k] # NoFlight
               PROVE  Holders(flights[k])' = Holders(flights[k])
    BY DEF WaitersAccounted
  <2>1. joined[c] # flights[k]
    BY DEF TypeOK, CallersConsistent, JoinedConsistent, FiledConsistent
  <2>2. QED
    BY <2>1 DEF TypeOK, Holders
<1>6. QED
  BY <1>1, <1>2, <1>3, <1>4, <1>5

\* Giving back one reference of the filed flight takes one holder away.
LEMMA ReleasedHolders ==
  ASSUME IInv, NEW c \in Callers, Released(c), flights[KeyOf[c]] = joined[c]
  PROVE  /\ joined[c] \in Callers
         /\ Holders(joined[c])' = Holders(joined[c]) \ {c}
         /\ c \in Holders(joined[c])
         /\ Cardinality(Holders(joined[c])') = waiters[joined[c]] - 1
         /\ \A f : f # joined[c] => Holders(f)' = Holders(f)
<1> USE DEF IInv, Released
<1>1. joined[c] \in Callers /\ joined[c] # NoFlight
  BY DEF TypeOK, CallersConsistent
<1>2. Holders(joined[c])' = Holders(joined[c]) \ {c} /\ c \in Holders(joined[c])
  BY DEF TypeOK, Holders
<1>3. waiters[joined[c]] = Cardinality(Holders(joined[c]))
  BY <1>1 DEF WaitersAccounted
<1>4. Cardinality(Holders(joined[c])') = waiters[joined[c]] - 1
  BY <1>2, <1>3, HoldersFinite, FS_RemoveElement
<1>5. \A f : f # joined[c] => Holders(f)' = Holders(f)
  BY DEF TypeOK, Holders
<1>6. QED
  BY <1>1, <1>2, <1>4, <1>5

LEMMA ReleaseSharedIInv ==
  ASSUME IInv, NEW c \in Callers, ReleaseShared(c)
  PROVE  IInv'
<1> USE DEF IInv, ReleaseShared, Released
<1>0. /\ joined[c] \in Callers
      /\ Cardinality(Holders(joined[c])') = waiters[joined[c]] - 1
      /\ \A f : f # joined[c] => Holders(f)' = Holders(f)
  BY ReleasedHolders
<1>0a. waiters[joined[c]] - 1 \in Nat /\ waiters[joined[c]] - 1 > 0
  BY <1>0 DEF TypeOK, WaitersAccounted
<1>1. TypeOK'
  BY <1>0, <1>0a DEF TypeOK
<1>2. CallersConsistent'
  BY DEF TypeOK, CallersConsistent
<1>3. JoinedConsistent'
  BY DEF TypeOK, JoinedConsistent
<1>4. FiledConsistent'
  BY <1>0 DEF TypeOK, FiledConsistent, CallersConsistent, JoinedConsistent
<1>5. WaitersAccounted'
  <2> SUFFICES ASSUME NEW k \in Keys, flights[k] # NoFlight
               PROVE  /\ waiters'[flights[k]] = Cardinality(Holders(flights[k])')
                      /\ waiters'[flights[k]] > 0
    BY DEF WaitersAccounted
  <2>1. CASE flights[k] = joined[c]
    BY <2>1, <1>0, <1>0a DEF TypeOK
  <2>2. CASE flights[k] # joined[c]
    BY <2>2, <1>0 DEF TypeOK, WaitersAccounted
  <2>3. QED
    BY <2>1, <2>2
<1>6. QED
  BY <1>1, <1>2, <1>3, <1>4, <1>5

LEMMA ReleaseLastIInv ==
  ASSUME IInv, NEW c \in Callers, ReleaseLast(c)
  PROVE  IInv'
<1> USE DEF IInv, ReleaseLast, Released
<1>0. /\ joined[c] \in Callers
      /\ Holders(joined[c])' = Holders(joined[c]) \ {c}
      /\ Cardinality(Holders(joined[c])') = 0
      /\ \A f : f # joined[c] => Holders(f)' = Holders(f)
  BY ReleasedHolders
<1>0a. Holders(joined[c])' = {}
  BY <1>0, HoldersFinite, FS_RemoveElement, FS_EmptySet
<1>0b. KeyOf[joined[c]] = KeyOf[c] /\ population[joined[c]] # "absent"
  BY <1>0 DEF CallersConsistent, JoinedConsistent
<1>1. TypeOK'
  BY <1>0 DEF TypeOK, Populations
<1>2. CallersConsistent'
  BY <1>0, <1>0b DEF TypeOK, CallersConsistent
<1>3. JoinedConsistent'
  <2> SUFFICES ASSUME NEW d \in Callers, joined[d] # NoFlight
               PROVE  /\ KeyOf[joined[d]] = KeyOf[d]
                      /\ population'[joined[d]] # "absent"
                      /\ release'[d] # "done" /\ ~closed => flights'[KeyOf[d]] = joined[d]
    BY DEF JoinedConsistent
  <2>1. KeyOf[joined[d]] = KeyOf[d] /\ population'[joined[d]] # "absent"
    BY <1>0 DEF TypeOK, JoinedConsistent, Outcomes
  <2>2. ASSUME release'[d] # "done", ~closed
        PROVE  flights'[KeyOf[d]] = joined[d]
    <3>1. joined[d] # joined[c]
      BY <1>0a, <2>2 DEF Holders
    <3>2. release[d] # "done" /\ flights[KeyOf[d]] = joined[d]
      BY <2>2 DEF TypeOK, JoinedConsistent
    <3>3. KeyOf[d] # KeyOf[c]
      BY <3>1, <3>2
    <3>4. QED
      BY <3>2, <3>3 DEF TypeOK
  <2>3. QED
    BY <2>1, <2>2
<1>4. FiledConsistent'
  BY <1>0, <1>0b DEF TypeOK, FiledConsistent, Outcomes
<1>5. WaitersAccounted'
  <2> SUFFICES ASSUME NEW k \in Keys, flights'[k] # NoFlight
               PROVE  /\ waiters'[flights'[k]] = Cardinality(Holders(flights[k])')
                      /\ waiters'[flights'[k]] > 0
    BY DEF WaitersAccounted
  <2>1. flights'[k] = flights[k] /\ flights[k] # joined[c]
    BY <1>0, <1>0b DEF TypeOK, FiledConsistent
  <2>2. QED
    BY <2>1, <1>0 DEF TypeOK, WaitersAccounted
<1>6. QED
  BY <1>1, <1>2, <1>3, <1>4, <1>5

LEMMA PopulationIInv ==
  ASSUME IInv, NEW f \in Callers, PopulationEnds(f) \/ PopulationUnwinds(f)
  PROVE  IInv'
<1> USE DEF IInv, PopulationEnds, PopulationUnwinds, Outcomes
<1>1. TypeOK'
  BY DEF TypeOK, Populations
<1>2. CallersConsistent'
  BY DEF TypeOK, CallersConsistent
<1>3. JoinedConsistent'
  BY DEF TypeOK, JoinedConsistent
<1>4. FiledConsistent'
  BY DEF TypeOK, FiledConsistent
<1>5. WaitersAccounted'
  BY CountsUntouched
<1>6. QED
  BY <1>1, <1>2, <1>3, <1>4, <1>5

LEMMA CloseIInv ==
  ASSUME IInv, NEW x \in Closers, Close(x) \/ CloseAgain(x) \/ CloseReturns(x)
  PROVE  IInv'
<1>1. CASE Close(x)
  <2> USE <1>1 DEF IInv, Close
  <2>1. TypeOK'
    BY DEF TypeOK, Populations
  <2>2. CallersConsistent'
    <3>1. \A d \in Callers : caller[d] = "idle" => \A k \in Keys : flights[k] # d
      BY DEF CallersConsistent, FiledConsistent
    <3>2. QED
      BY <3>1 DEF TypeOK, CallersConsistent
  <2>3. JoinedConsistent'
    BY DEF TypeOK, JoinedConsistent
  <2>4. FiledConsistent'
    BY DEF TypeOK, FiledConsistent, Outcomes
  <2>5. WaitersAccounted'
    BY DEF WaitersAccounted
  <2>6. QED
    BY <2>1, <2>2, <2>3, <2>4, <2>5
<1>2. CASE CloseAgain(x) \/ CloseReturns(x)
  <2> USE <1>2 DEF IInv, CloseAgain, CloseReturns
  <2>1. TypeOK'
    BY DEF TypeOK
  <2>2. CallersConsistent' /\ JoinedConsistent' /\ FiledConsistent'
    BY DEF CallersConsistent, JoinedConsistent, FiledConsistent
  <2>3. WaitersAccounted'
    BY CountsUntouched
  <2>4. QED
    BY <2>1, <2>2, <2>3
<1>3. QED
  BY <1>1, <1>2

LEMMA NextIInv == IInv /\ [Next]_vars => IInv'
<1> SUFFICES ASSUME IInv, [Next]_vars PROVE IInv'
  OBVIOUS
<1>1. ASSUME NEW c \in Callers, CallerStep(c)
      PROVE  IInv'
  BY <1>1, StartFlightIInv, JoinFlightIInv, CallerMovesIInv, ReleaseDetachedIInv,
     ReleaseSharedIInv, ReleaseLastIInv DEF CallerStep, Release
<1>2. ASSUME NEW f \in Callers, PopulationEnds(f) \/ PopulationUnwinds(f)
      PROVE  IInv'
  BY <1>2, PopulationIInv
<1>3. ASSUME NEW x \in Closers, Close(x) \/ CloseAgain(x) \/ CloseReturns(x)
      PROVE  IInv'
  BY <1>3, CloseIInv
<1>4. CASE UNCHANGED vars
  BY SMTT(30), <1>4 DEF vars, IInv, TypeOK, CallersConsistent, JoinedConsistent, FiledConsistent,
              WaitersAccounted, Holders
<1>5. QED
  BY <1>1, <1>2, <1>3, <1>4 DEF Next


\* The strengthened invariant holds in every reachable state, types included.
THEOREM Inductive == Spec => []IInv
<1>1. Init => IInv
  BY InitIInv
<1>2. IInv /\ [Next]_vars => IInv'
  BY NextIInv
<1>3. QED
  BY <1>1, <1>2, PTL DEF Spec

\* The reference count of every filed flight is the number of its holders, for
\* any number of callers, keys and closers.
THEOREM CountsAreRight == Spec => []WaitersAccounted
<1>1. IInv => WaitersAccounted
  BY DEF IInv
<1>2. QED
  BY <1>1, Inductive, PTL

\* No waiter of an open coordinator shares a population that was cancelled on
\* somebody else's departure.
THEOREM WaitersProtected == Spec => []WaitersKeepTheirWork
<1>1. IInv => WaitersKeepTheirWork
  <2> SUFFICES ASSUME IInv, NEW c \in Callers, caller[c] = "waiting", ~closed
               PROVE  population[joined[c]] \in {"running", "finished"}
    BY DEF WaitersKeepTheirWork
  <2>1. flights[KeyOf[c]] = joined[c] /\ joined[c] # NoFlight
    BY DEF IInv, CallersConsistent, JoinedConsistent
  <2>2. QED
    BY <2>1 DEF IInv, FiledConsistent
<1>2. QED
  BY <1>1, Inductive, PTL

\* Running work is on file under its key and held by somebody.
THEOREM RunningWorkIsFiled == Spec => []RunningIsFiled
<1>1. IInv => RunningIsFiled
  <2> SUFFICES ASSUME IInv, NEW f \in Callers, population[f] = "running"
               PROVE  flights[KeyOf[f]] = f /\ Holders(f) # {}
    BY DEF RunningIsFiled
  <2>1. flights[KeyOf[f]] = f
    BY DEF IInv, FiledConsistent
  <2>2. Cardinality(Holders(f)) > 0
    BY <2>1 DEF IInv, WaitersAccounted
  <2>3. QED
    BY <2>1, <2>2, FS_EmptySet
<1>2. QED
  BY <1>1, Inductive, PTL

\* Sharing is safe for any number of callers, keys and closers: the counts, the dictionary and
\* the populations agree in every reachable state.
THEOREM SharingSound == Spec => []SharingIsSound
<1>1. IInv => TypeOK
  BY DEF IInv
<1>2. TypeOK /\ WaitersAccounted /\ WaitersKeepTheirWork /\ RunningIsFiled => SharingIsSound
  BY DEF SharingIsSound
<1>3. QED
  BY <1>1, <1>2, Inductive, CountsAreRight, WaitersProtected, RunningWorkIsFiled, PTL

-------------------------------------------------------------------------------
(***************************************************************************)
(* The refinement.  Attached(k) and Work(k) are the values the mapping     *)
(* gives to SharedWork's variables.                                        *)
(***************************************************************************)
Attached(k) == IF flights[k] = NoFlight THEN {} ELSE Holders(flights[k])

\* Waking, interrupting, rejecting, returning, and the unwinding of cancelled
\* populations are invisible to SharedWork.
LEMMA InvisibleSteps ==
  ASSUME IInv, UNCHANGED <<flights, joined, closed>>,
         \A d \in Callers : release'[d] = "done" <=> release[d] = "done",
         \A d \in Callers : population'[d] = "running" <=> population[d] = "running"
  PROVE  UNCHANGED Shared!vars
<1>1. \A f : Holders(f)' = Holders(f)
  BY DEF Holders
<1>2. ASSUME NEW k \in Keys PROVE Work(k)' = Work(k)
  BY DEF IInv, TypeOK, Work
<1>3. QED
  BY <1>1, <1>2 DEF Shared!vars

LEMMA StartAttaches ==
  ASSUME IInv, IInv', NEW c \in Callers, StartFlight(c) \/ JoinFlight(c)
  PROVE  Shared!Attach(c, KeyOf[c])
<1> USE DEF IInv, StartFlight, JoinFlight, Enter
<1>1. \A k \in Keys : c \notin Attached(k)
  BY DEF TypeOK, CallersConsistent, FiledConsistent, Attached, Holders
<1>2. Attached(KeyOf[c])' = Attached(KeyOf[c]) \cup {c}
  <2>1. CASE StartFlight(c)
    BY <2>1 DEF TypeOK, CallersConsistent, JoinedConsistent, Attached, Holders
  <2>2. CASE JoinFlight(c)
    BY <2>2 DEF TypeOK, CallersConsistent, Attached, Holders
  <2>3. QED
    BY <2>1, <2>2
<1>3. ASSUME NEW k \in Keys, k # KeyOf[c]
      PROVE  Attached(k)' = Attached(k) /\ Work(k)' = Work(k)
  <2>1. flights'[k] = flights[k] /\ joined'[c] # flights[k] /\ flights[k] # c
    BY <1>3 DEF TypeOK, CallersConsistent, FiledConsistent
  <2>2. flights[k] # NoFlight =>
          \A d \in Callers : joined'[d] = flights'[k] <=> joined[d] = flights[k]
    BY <2>1 DEF TypeOK, CallersConsistent
  <2>3. Attached(k)' = Attached(k)
    BY <2>1, <2>2 DEF Attached, Holders
  <2>4. Work(k)' = Work(k)
    BY <2>1 DEF TypeOK, Work
  <2>5. QED
    BY <2>3, <2>4
<1>4. Work(KeyOf[c])' = IF Work(KeyOf[c]) = "none" THEN "underway" ELSE Work(KeyOf[c])
  BY DEF TypeOK, Work
<1>5. QED
  BY <1>1, <1>2, <1>3, <1>4 DEF Shared!Attach, Attached

LEMMA EndSettles ==
  ASSUME IInv, NEW f \in Callers, PopulationEnds(f)
  PROVE  Shared!Settle(KeyOf[f])
<1> USE DEF IInv, PopulationEnds
<1>1. flights[KeyOf[f]] = f
  BY DEF FiledConsistent
<1>2. \A g : Holders(g)' = Holders(g)
  BY DEF Holders
<1>3. Work(KeyOf[f]) = "underway" /\ Work(KeyOf[f])' = "known"
  BY <1>1 DEF TypeOK, Work
<1>4. ASSUME NEW k \in Keys, k # KeyOf[f] PROVE Work(k)' = Work(k)
  BY <1>4 DEF TypeOK, FiledConsistent, Work
<1>5. QED
  BY <1>2, <1>3, <1>4 DEF Shared!Settle

\* Giving back a reference of the filed flight detaches its caller.
LEMMA ReleaseDetaches ==
  ASSUME IInv, NEW c \in Callers, ReleaseShared(c) \/ ReleaseLast(c)
  PROVE  Shared!Detach(c, KeyOf[c])
<1> DEFINE q == KeyOf[c]
<1> USE DEF IInv, ReleaseShared, ReleaseLast, Released
<1>1. /\ joined[c] \in Callers
      /\ flights[q] = joined[c]
      /\ c \in Holders(joined[c])
      /\ Holders(joined[c])' = Holders(joined[c]) \ {c}
      /\ Cardinality(Holders(joined[c])') = waiters[joined[c]] - 1
      /\ \A f : f # joined[c] => Holders(f)' = Holders(f)
  BY ReleasedHolders
<1>2. q \in Keys /\ joined[c] # NoFlight
  BY <1>1
<1>3. c \in Attached(q)
  BY <1>1, <1>2 DEF Attached
<1>4. ASSUME NEW k \in Keys, k # q
      PROVE  Attached(k)' = Attached(k) /\ Work(k)' = Work(k)
  <2>1. flights'[k] = flights[k] /\ (flights[k] # NoFlight => flights[k] # joined[c])
    BY <1>1, <1>4 DEF TypeOK, FiledConsistent
  <2>2. flights[k] # NoFlight => Holders(flights[k])' = Holders(flights[k])
    BY <2>1 DEF TypeOK, Holders
  <2>3. Attached(k)' = Attached(k)
    BY <2>1, <2>2 DEF Attached
  <2>4. Work(k)' = Work(k)
    BY <2>1 DEF TypeOK, Work
  <2>5. QED
    BY <2>3, <2>4
<1>5. CASE ReleaseShared(c)
  <2>1. flights' = flights /\ population' = population
    BY <1>5
  <2>2. Holders(flights[q])' = Holders(flights[q]) \ {c}
    BY <1>1, <2>1 DEF TypeOK, Holders
  <2>3. Attached(q)' = Attached(q) \ {c}
    BY <2>1, <2>2, <1>1, <1>2 DEF Attached
  <2>4. Attached(q) # {c}
    <3>1. waiters[joined[c]] - 1 # 0
      BY <1>5
    <3>2. Holders(joined[c])' # {}
      BY <1>1, <3>1, FS_EmptySet
    <3>3. QED
      BY <1>1, <1>2, <3>2 DEF Attached
  <2>5. Work(q)' = Work(q)
    BY <2>1 DEF Work
  <2>6. QED
    BY <1>2, <1>3, <1>4, <1>5, <2>3, <2>4, <2>5 DEF Shared!Detach, Attached
<1>6. CASE ReleaseLast(c)
  <2>1. flights'[q] = NoFlight
    BY <1>2, <1>6 DEF TypeOK
  <2>2. Attached(q)' = {} /\ Work(q)' = "none"
    BY <2>1 DEF Attached, Work
  <2>3. Attached(q) = {c}
    <3>1. Cardinality(Holders(joined[c])') = 0
      BY <1>1, <1>6
    <3>2. Holders(joined[c]) \ {c} = {}
      BY <1>1, <3>1, HoldersFinite, FS_RemoveElement, FS_EmptySet
    <3>3. QED
      BY <1>1, <1>2, <3>2 DEF Attached
  <2>4. Attached(q)' = Attached(q) \ {c}
    BY <2>2, <2>3
  <2>5. [k \in Keys |-> Attached(k)]' =
          [[k \in Keys |-> Attached(k)] EXCEPT ![q] = @ \ {c}]
    BY <1>2, <1>4, <2>4
  <2>6. [k \in Keys |-> Work(k)]' =
          [[k \in Keys |-> Work(k)] EXCEPT
             ![q] = IF [k \in Keys |-> Attached(k)][q] = {c} THEN "none" ELSE @]
    BY <1>2, <1>4, <2>2, <2>3
  <2>7. closed' = closed
    BY <1>6
  <2>8. QED
    BY <1>2, <1>3, <2>5, <2>6, <2>7 DEF Shared!Detach, Attached
<1>7. QED
  BY <1>5, <1>6

\* After close nobody is attached, so a late release changes nothing there.
LEMMA DetachedIsInvisible ==
  ASSUME IInv, NEW c \in Callers, ReleaseDetached(c)
  PROVE  UNCHANGED Shared!vars
<1> USE DEF IInv, ReleaseDetached, Released
<1>1. closed /\ \A k \in Keys : flights[k] = NoFlight
  BY DEF TypeOK, CallersConsistent, JoinedConsistent, FiledConsistent
<1>2. QED
  BY <1>1 DEF Shared!vars, Work

LEMMA CloseShuts ==
  ASSUME IInv, NEW x \in Closers, Close(x)
  PROVE  Shared!Shut
BY DEF IInv, TypeOK, Close, Shared!Shut, Work

\* Every step of the coordinator is a step of SharedWork or leaves it alone.
LEMMA NextImplements == IInv /\ IInv' /\ [Next]_vars => [Shared!Next]_(Shared!vars)
<1> SUFFICES ASSUME IInv, IInv', [Next]_vars
             PROVE  Shared!Next \/ UNCHANGED Shared!vars
  OBVIOUS
<1>1. ASSUME NEW c \in Callers, StartFlight(c) \/ JoinFlight(c)
      PROVE  Shared!Next
  BY <1>1, StartAttaches DEF Shared!Next
<1>2. ASSUME NEW c \in Callers, ReleaseShared(c) \/ ReleaseLast(c)
      PROVE  Shared!Next
  BY <1>2, ReleaseDetaches DEF Shared!Next
<1>3. ASSUME NEW c \in Callers, ReleaseDetached(c)
      PROVE  UNCHANGED Shared!vars
  BY <1>3, DetachedIsInvisible
<1>4. ASSUME NEW c \in Callers,
             RejectCall(c) \/ Wake(c) \/ InterruptWait(c) \/ InterruptRelease(c) \/ Return(c)
      PROVE  UNCHANGED Shared!vars
  <2>1. UNCHANGED <<flights, joined, closed, population>>
    BY <1>4 DEF RejectCall, Wake, InterruptWait, InterruptRelease, Return, StartLeaving
  <2>2. \A d \in Callers : release'[d] = "done" <=> release[d] = "done"
    BY <1>4 DEF IInv, TypeOK, CallersConsistent, RejectCall, Wake, InterruptWait,
                InterruptRelease, Return, StartLeaving
  <2>3. QED
    BY <2>1, <2>2, InvisibleSteps
<1>5. ASSUME NEW f \in Callers, PopulationEnds(f)
      PROVE  Shared!Next
  BY <1>5, EndSettles DEF Shared!Next
<1>6. ASSUME NEW f \in Callers, PopulationUnwinds(f)
      PROVE  UNCHANGED Shared!vars
  BY <1>6, InvisibleSteps DEF IInv, TypeOK, PopulationUnwinds, Outcomes
<1>7. ASSUME NEW x \in Closers, Close(x)
      PROVE  Shared!Next
  BY <1>7, CloseShuts DEF Shared!Next
<1>8. ASSUME NEW x \in Closers, CloseAgain(x) \/ CloseReturns(x)
      PROVE  UNCHANGED Shared!vars
  BY <1>8, InvisibleSteps DEF CloseAgain, CloseReturns
<1>9. CASE UNCHANGED vars
  BY <1>9, InvisibleSteps DEF vars
<1>10. QED
  BY <1>1, <1>2, <1>3, <1>4, <1>5, <1>6, <1>7, <1>8, <1>9
     DEF Next, CallerStep, Release

LEMMA InitImplements == Init => Shared!Init
BY DEF Init, Shared!Init, Work

\* Counted references and detached release tasks implement work that is shared
\* by whoever is attached and lives exactly as long as somebody is.
THEOREM Implements == Spec => ImplementsSharedWork
<1>1. Init => Shared!Init
  BY InitImplements
<1>2. IInv /\ IInv' /\ [Next]_vars => [Shared!Next]_(Shared!vars)
  BY NextImplements
<1>3. QED
  BY <1>1, <1>2, Inductive, PTL DEF Spec, ImplementsSharedWork, Shared!Spec

===============================================================================
