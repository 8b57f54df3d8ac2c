----------------------------- MODULE SingleFlight -----------------------------
(***************************************************************************)
(* SingleFlightCoordinator of perception/cache.py: concurrent callers of   *)
(* run(key, populate) share one population per key.  Each element of       *)
(* Callers makes one call; the flight that a caller creates is named by    *)
(* that caller, so flights need no identifiers of their own.               *)
(*                                                                         *)
(* The coordinator runs on one event loop.  A critical section under       *)
(* self._lock contains no await, so it is one step; the steps in between   *)
(* are those at which another task may run: while a caller awaits the      *)
(* shielded population, and while it awaits its shielded release task.     *)
(***************************************************************************)
EXTENDS Naturals, FiniteSets

CONSTANTS
  Callers,    \* tasks that call run() once each
  Closers,    \* tasks that call aclose()
  Keys,       \* cache keys
  KeyOf,      \* the key each caller asks for
  NoFlight    \* an absent dictionary entry

ASSUME CallerAssumption ==
  /\ IsFiniteSet(Callers)
  /\ NoFlight \notin Callers
  /\ KeyOf \in [Callers -> Keys]

VARIABLES
  flights,     \* self._flights: the flight filed under each key
  waiters,     \* _Flight.waiters of each flight
  population,  \* the task running populate() for each flight
  caller,      \* where each call of run() stands
  joined,      \* the flight each caller shares
  release,     \* the release task each caller spawned
  closed,      \* self._closed
  closer,      \* where each call of aclose() stands
  cancelled    \* the futures each aclose() gathers

vars == <<flights, waiters, population, caller, joined, release,
          closed, closer, cancelled>>

Outcomes    == {"finished", "cancelled"}
Populations == {"absent", "running", "cancelling"} \cup Outcomes
CallerSteps == {"idle", "waiting", "leaving", "returned"}

\* The callers whose reference to flight f has not been given back.
Holders(f) == {c \in Callers : joined[c] = f /\ release[c] # "done"}

-------------------------------------------------------------------------------
Init ==
  /\ flights    = [k \in Keys |-> NoFlight]
  /\ waiters    = [c \in Callers |-> 0]
  /\ population = [c \in Callers |-> "absent"]
  /\ caller     = [c \in Callers |-> "idle"]
  /\ joined     = [c \in Callers |-> NoFlight]
  /\ release    = [c \in Callers |-> "none"]
  /\ closed     = FALSE
  /\ closer     = [x \in Closers |-> "idle"]
  /\ cancelled  = [x \in Closers |-> {}]

\* The caller is one more waiter of flight f.
Enter(c, f) ==
  /\ caller' = [caller EXCEPT ![c] = "waiting"]
  /\ joined' = [joined EXCEPT ![c] = f]
  /\ waiters' = [waiters EXCEPT ![f] = @ + 1]
  /\ UNCHANGED <<release, closed, closer, cancelled>>

\* Mutant: the closed flag is not looked at.
StartFlightUnchecked(c) ==
  /\ caller[c] = "idle"
  /\ flights[KeyOf[c]] = NoFlight
  /\ flights' = [flights EXCEPT ![KeyOf[c]] = c]
  /\ population' = [population EXCEPT ![c] = "running"]
  /\ Enter(c, c)

\* run() finds no flight for its key: it starts the population and files it.
StartFlight(c) ==
  /\ caller[c] = "idle" /\ ~closed
  /\ flights[KeyOf[c]] = NoFlight
  /\ flights' = [flights EXCEPT ![KeyOf[c]] = c]
  /\ population' = [population EXCEPT ![c] = "running"]
  /\ Enter(c, c)

\* run() finds a flight, whatever the state of its future, and shares it.
JoinFlight(c) ==
  /\ caller[c] = "idle" /\ ~closed
  /\ flights[KeyOf[c]] # NoFlight
  /\ Enter(c, flights[KeyOf[c]])
  /\ UNCHANGED <<flights, population>>

\* run() on a closed coordinator raises RuntimeError.
RejectCall(c) ==
  /\ caller[c] = "idle" /\ closed
  /\ caller' = [caller EXCEPT ![c] = "returned"]
  /\ UNCHANGED <<flights, waiters, population, joined, release, closed, closer,
                 cancelled>>

\* The finally clause of run(): a detached task will give the reference back.
StartLeaving(c) ==
  /\ caller' = [caller EXCEPT ![c] = "leaving"]
  /\ release' = [release EXCEPT ![c] = "pending"]
  /\ UNCHANGED <<flights, waiters, population, joined, closed, closer, cancelled>>

\* Mutant: only a result wakes the waiter, not a cancelled population.
WakeOnResult(c) ==
  /\ caller[c] = "waiting"
  /\ population[joined[c]] = "finished"
  /\ StartLeaving(c)

\* The shielded population is done and the waiter receives its outcome.
Wake(c) ==
  /\ caller[c] = "waiting"
  /\ population[joined[c]] \in Outcomes
  /\ StartLeaving(c)

\* The waiter's own task is cancelled while it awaits the population.
InterruptWait(c) ==
  /\ caller[c] = "waiting"
  /\ StartLeaving(c)

\* The waiter's task is cancelled while it awaits the release task, which
\* goes on by itself.
InterruptRelease(c) ==
  /\ caller[c] = "leaving"
  /\ caller' = [caller EXCEPT ![c] = "returned"]
  /\ UNCHANGED <<flights, waiters, population, joined, release, closed, closer,
                 cancelled>>

\* run() returns once its release task is done.
Return(c) ==
  /\ caller[c] = "leaving" /\ release[c] = "done"
  /\ caller' = [caller EXCEPT ![c] = "returned"]
  /\ UNCHANGED <<flights, waiters, population, joined, release, closed,
                 closer, cancelled>>

Released(c) ==
  /\ release[c] = "pending"
  /\ release' = [release EXCEPT ![c] = "done"]
  /\ UNCHANGED <<caller, joined, closed, closer, cancelled>>

\* _release of a flight that is no longer the one filed under its key.
ReleaseDetached(c) ==
  /\ Released(c)
  /\ flights[KeyOf[c]] # joined[c]
  /\ UNCHANGED <<flights, waiters, population>>

\* Mutant: a departure is not counted.
ReleaseUncounted(c) ==
  /\ Released(c)
  /\ flights[KeyOf[c]] = joined[c]
  /\ waiters[joined[c]] - 1 # 0
  /\ UNCHANGED <<flights, waiters, population>>

\* _release of a flight that others still hold.
ReleaseShared(c) ==
  /\ Released(c)
  /\ flights[KeyOf[c]] = joined[c]
  /\ waiters[joined[c]] - 1 # 0
  /\ waiters' = [waiters EXCEPT ![joined[c]] = @ - 1]
  /\ UNCHANGED <<flights, population>>

\* _release of the last reference: the flight is dropped, and its population
\* is cancelled unless it is already done.
ReleaseLast(c) ==
  /\ Released(c)
  /\ flights[KeyOf[c]] = joined[c]
  /\ waiters[joined[c]] - 1 = 0
  /\ waiters' = [waiters EXCEPT ![joined[c]] = 0]
  /\ flights' = [flights EXCEPT ![KeyOf[c]] = NoFlight]
  /\ population' = [population EXCEPT ![joined[c]] =
                      IF @ \in Outcomes THEN @ ELSE "cancelling"]

-------------------------------------------------------------------------------
\* populate() returns or raises: its outcome is known to all that wait for it.
PopulationEnds(f) ==
  /\ population[f] = "running"
  /\ population' = [population EXCEPT ![f] = "finished"]
  /\ UNCHANGED <<flights, waiters, caller, joined, release, closed,
                 closer, cancelled>>

\* A cancelled populate() unwinds: it usually ends cancelled, but a cleanup
\* that raises or an await that was already done can give it another outcome.
PopulationUnwinds(f) ==
  /\ population[f] = "cancelling"
  /\ \E o \in Outcomes : population' = [population EXCEPT ![f] = o]
  /\ UNCHANGED <<flights, waiters, caller, joined, release, closed,
                 closer, cancelled>>

\* The first aclose(): no more flights, and every filed population that is not
\* done is cancelled and gathered.
Close(x) ==
  LET filed == {c \in Callers : \E k \in Keys : flights[k] = c}
  IN /\ closer[x] = "idle" /\ ~closed
     /\ closed' = TRUE
     /\ flights' = [k \in Keys |-> NoFlight]
     /\ population' = [c \in Callers |->
                         IF c \in filed /\ population[c] \notin Outcomes
                         THEN "cancelling" ELSE population[c]]
     /\ cancelled' = [cancelled EXCEPT ![x] = filed]
     /\ closer' = [closer EXCEPT ![x] = "gathering"]
     /\ UNCHANGED <<waiters, caller, joined, release>>

\* A later aclose() returns at once, whether or not the first has.
CloseAgain(x) ==
  /\ closer[x] = "idle" /\ closed
  /\ closer' = [closer EXCEPT ![x] = "returned"]
  /\ UNCHANGED <<flights, waiters, population, caller, joined, release,
                 closed, cancelled>>

\* gather() of the cancelled populations is complete.
CloseReturns(x) ==
  /\ closer[x] = "gathering"
  /\ \A f \in cancelled[x] : population[f] \in Outcomes
  /\ closer' = [closer EXCEPT ![x] = "returned"]
  /\ UNCHANGED <<flights, waiters, population, caller, joined, release,
                 closed, cancelled>>

Release(c) == ReleaseDetached(c) \/ ReleaseShared(c) \/ ReleaseLast(c)

CallerStep(c) ==
  \/ StartFlight(c) \/ JoinFlight(c) \/ RejectCall(c)
  \/ Wake(c) \/ InterruptWait(c) \/ InterruptRelease(c) \/ Return(c)
  \/ Release(c)

Next ==
  \/ \E c \in Callers : CallerStep(c) \/ PopulationEnds(c) \/ PopulationUnwinds(c)
  \/ \E x \in Closers : Close(x) \/ CloseAgain(x) \/ CloseReturns(x)

\* The event loop runs every ready task; a population ends because each backend
\* attempt runs under a timeout.  Calls, interruptions and closing are the
\* environment's choice.
Fairness ==
  /\ \A c \in Callers : /\ WF_vars(Wake(c))
                        /\ WF_vars(Release(c))
                        /\ WF_vars(Return(c))
                        /\ WF_vars(PopulationEnds(c) \/ PopulationUnwinds(c))
  /\ \A x \in Closers : WF_vars(CloseReturns(x))

Spec == Init /\ [][Next]_vars /\ Fairness

-------------------------------------------------------------------------------
TypeOK ==
  /\ flights \in [Keys -> Callers \cup {NoFlight}]
  /\ waiters \in [Callers -> Nat]
  /\ population \in [Callers -> Populations]
  /\ caller \in [Callers -> CallerSteps]
  /\ joined \in [Callers -> Callers \cup {NoFlight}]
  /\ release \in [Callers -> {"none", "pending", "done"}]
  /\ closed \in BOOLEAN
  /\ closer \in [Closers -> {"idle", "gathering", "returned"}]
  /\ cancelled \in [Closers -> SUBSET Callers]

\* The count of a filed flight is the number of callers that still hold it, and
\* it is never filed with nobody holding it: a cancelled waiter's release task
\* that runs late or never would leak the flight, one that runs twice would
\* cancel the others' work.
WaitersAccounted ==
  \A k \in Keys : flights[k] # NoFlight =>
    /\ waiters[flights[k]] = Cardinality(Holders(flights[k]))
    /\ waiters[flights[k]] > 0

\* While the coordinator is open, a caller that waits is never made to share a
\* population that somebody else's departure has cancelled: "without
\* propagating waiter cancellation" in run()'s contract.
WaitersKeepTheirWork ==
  \A c \in Callers : caller[c] = "waiting" /\ ~closed =>
    population[joined[c]] \in {"running", "finished"}

\* Uncancelled work is always on file under its key, held by somebody, so a key
\* never has two populations that both expect to finish and none is forgotten.
RunningIsFiled ==
  \A f \in Callers : population[f] = "running" =>
    /\ flights[KeyOf[f]] = f
    /\ Holders(f) # {}

\* Every caller that shares a population gets back to its own work, whoever is
\* cancelled and however late release tasks and close run.
CallersReturn ==
  \A c \in Callers : caller[c] = "waiting" ~> caller[c] = "returned"

\* aclose() comes to an end even with populations that were under way.
ClosersReturn ==
  \A x \in Closers : closer[x] = "gathering" ~> closer[x] = "returned"


\* Sharing a population is safe for everybody who shares it: references, counts, the
\* dictionary and the populations agree, whoever is cancelled and whenever its release runs
\* (SingleFlightCoordinator).
SharingIsSound == TypeOK /\ WaitersAccounted /\ WaitersKeepTheirWork /\ RunningIsFiled

\* Nobody is left waiting by the coordinator: neither a caller nor its aclose().
EverybodyReturns == CallersReturn /\ ClosersReturn

-------------------------------------------------------------------------------
\* The work of a key as its callers see it.
Work(k) ==
  IF flights[k] = NoFlight THEN "none"
  ELSE IF population[flights[k]] = "running" THEN "underway" ELSE "known"

Shared == INSTANCE SharedWork
            WITH attached <- [k \in Keys |->
                                IF flights[k] = NoFlight THEN {} ELSE Holders(flights[k])],
                 work <- [k \in Keys |-> Work(k)],
                 shut <- closed

\* Counted references with detached release tasks implement shared work that
\* lives exactly while somebody is attached to it.
ImplementsSharedWork == Shared!Spec

===============================================================================
