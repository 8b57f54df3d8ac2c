----------------------------- MODULE Perception -----------------------------
(***************************************************************************)
(* One perception (asset, request) asked for by several runs of a client   *)
(* at the same time: session.py _perceive with its populate(), the backend *)
(* router's fallback loop, the cache, and the single-flight coordinator.   *)
(* The coordinator is used as SharedWork specifies it: attached[k] and     *)
(* leader[k] stand for the flight filed under k.                           *)
(*                                                                         *)
(* A cache key identifies asset, request and the backend it credits.  All  *)
(* runs here agree on asset and request, so a key is a backend's name.     *)
(* populate() runs with the budget and the trace of the run that leads it. *)
(***************************************************************************)
EXTENDS Naturals, Sequences, FiniteSets

CONSTANTS
  Runs,              \* asks or inspections of sessions of one client
  Backends,
  RouteOf,           \* router.route(): each run's candidates, best first
  MaxBackends,       \* RunLimits.max_backend_calls
  FallbackBackends,  \* AgentSettings.fallback_backends
  Nobody

ASSUME RouteAssumption ==
  /\ Nobody \notin Runs \cup Backends
  /\ \A r \in Runs : RouteOf[r] \in Seq(Backends) \ {<<>>}
  /\ MaxBackends \in Nat \ {0}
  /\ FallbackBackends \in BOOLEAN

VARIABLES
  cache,     \* the backend whose bytes are stored under each key
  attached,  \* the runs that wait for the shared population of each key
  leader,    \* the run whose populate() that is
  deaf,      \* the runs whose populate() has missed the cancellation meant for it
  run,       \* how far each run has come with its perception
  work,      \* how far the populate() of each run has come
  attempt,   \* the candidate it is at
  result,    \* the backend it got its bytes from, or why it failed
  charged,   \* backend calls reserved on each run's budget
  started,   \* backend calls made for the populate() of each run
  open,      \* the run's trace is not final
  answer     \* what the run is told

vars == <<cache, attached, leader, deaf, run, work, attempt, result, charged,
          started, open, answer>>

KeyOf(r) == RouteOf[r][1]

Working  == {"routing", "attempting", "expiring", "storing"}
Waiting  == {"reading", "missed", "sharing", "alone"}
Over     == {"done", "failed", "left"}
Causes   == {"backend", "budget", "trace", "cache", "cancelled"}

\* A cache hit is credited to the backend of the run's own key.
Success(producer, credit, hit) ==
  [ok |-> TRUE, producer |-> producer, credit |-> credit, hit |-> hit]
Failure(cause, whose) == [ok |-> FALSE, cause |-> cause, whose |-> whose]
NoAnswer == [ok |-> FALSE, cause |-> "none", whose |-> Nobody]

Init ==
  /\ cache = [b \in Backends |-> Nobody]
  /\ attached = [b \in Backends |-> {}]
  /\ leader = [b \in Backends |-> Nobody] /\ deaf = {}
  /\ run = [r \in Runs |-> "idle"]
  /\ work = [r \in Runs |-> "none"]
  /\ attempt = [r \in Runs |-> 1]
  /\ result = [r \in Runs |-> Nobody]
  /\ charged = [r \in Runs |-> 0] /\ started = [r \in Runs |-> 0]
  /\ open = [r \in Runs |-> TRUE]
  /\ answer = [r \in Runs |-> NoAnswer]

flights == <<attached, leader, deaf>>
budgets == <<charged, started>>
filled  == <<work, attempt, result>>

Goto(r, p)   == run' = [run EXCEPT ![r] = p]
Answer(r, a) == answer' = [answer EXCEPT ![r] = a]

-------------------------------------------------------------------------------
\* _perceive up to the flight.

Begin(r) ==
  /\ run[r] = "idle"
  /\ Goto(r, "reading")
  /\ UNCHANGED <<cache, flights, filled, budgets, open, answer>>

CacheHit(r) ==
  /\ run[r] = "reading" /\ cache[KeyOf(r)] # Nobody
  /\ Answer(r, Success(cache[KeyOf(r)], KeyOf(r), TRUE))
  /\ Goto(r, "done")
  /\ UNCHANGED <<cache, flights, filled, budgets, open>>

\* The entry is absent, invalid or unreadable.
CacheMiss(r) ==
  /\ run[r] = "reading"
  /\ Goto(r, "missed")
  /\ UNCHANGED <<cache, flights, filled, budgets, open, answer>>

\* populate() begins: as the work of a new flight, or for the run alone.
StartWork(r) ==
  /\ work' = [work EXCEPT ![r] = "routing"]
  /\ attempt' = [attempt EXCEPT ![r] = 1]
  /\ result' = [result EXCEPT ![r] = Nobody]

\* Mutant: a flight replaces the one that is filed under its key.
LeadUnchecked(r) ==
  LET k == KeyOf(r) IN
  /\ run[r] = "missed"
  /\ attached' = [attached EXCEPT ![k] = {r}]
  /\ leader' = [leader EXCEPT ![k] = r]
  /\ StartWork(r)
  /\ Goto(r, "sharing")
  /\ UNCHANGED <<cache, deaf, budgets, open, answer>>

Lead(r) ==
  LET k == KeyOf(r) IN
  /\ run[r] = "missed" /\ attached[k] = {}
  /\ attached' = [attached EXCEPT ![k] = {r}]
  /\ leader' = [leader EXCEPT ![k] = r]
  /\ StartWork(r)
  /\ Goto(r, "sharing")
  /\ UNCHANGED <<cache, deaf, budgets, open, answer>>

Join(r) ==
  LET k == KeyOf(r) IN
  /\ run[r] = "missed" /\ attached[k] # {}
  /\ attached' = [attached EXCEPT ![k] = @ \cup {r}]
  /\ Goto(r, "sharing")
  /\ UNCHANGED <<cache, leader, deaf, filled, budgets, open, answer>>

-------------------------------------------------------------------------------
\* populate() and the router, on the budget and the trace of run r.

EndWork(r, v) ==
  /\ work' = [work EXCEPT ![r] = "ended"]
  /\ result' = [result EXCEPT ![r] = v]
  /\ UNCHANGED attempt

\* before_attempt: reserve_backend_call ...
Charge(r) == charged' = [charged EXCEPT ![r] = @ + 1]

\* ... which refuses when the calls are used up or the deadline has passed (late),
\* then start_invocation, which a final trace refuses.
StartAttempt(r, late) ==
  /\ work[r] = "routing"
  /\ IF late \/ charged[r] >= MaxBackends THEN EndWork(r, "budget") /\ UNCHANGED budgets
     ELSE /\ Charge(r)
          /\ IF open[r]
             THEN /\ work' = [work EXCEPT ![r] = "attempting"]
                  /\ started' = [started EXCEPT ![r] = @ + 1]
                  /\ UNCHANGED <<attempt, result>>
             ELSE EndWork(r, "trace") /\ UNCHANGED started
  /\ UNCHANGED <<cache, flights, run, open, answer>>

AttemptSucceeds(r) ==
  /\ work[r] = "attempting"
  /\ work' = [work EXCEPT ![r] = "storing"]
  /\ result' = [result EXCEPT ![r] = RouteOf[r][attempt[r]]]
  /\ UNCHANGED <<cache, flights, run, attempt, budgets, open, answer>>

CanFallback(r, retryable) ==
  retryable /\ FallbackBackends /\ attempt[r] < Len(RouteOf[r])

\* The attempt runs out of time: it is cancelled, and its clean-up awaited.
AttemptExpires(r) ==
  /\ work[r] = "attempting"
  /\ work' = [work EXCEPT ![r] = "expiring"]
  /\ UNCHANGED <<cache, flights, run, attempt, result, budgets, open, answer>>

\* A timeout that is cleaned up, an unavailable backend or a retryable error falls
\* back to the next candidate; any other error, or a result that cannot be
\* normalized, is final.
AttemptFails(r, retryable) ==
  /\ work[r] = "attempting" \/ (work[r] = "expiring" /\ retryable)
  /\ IF CanFallback(r, retryable)
     THEN /\ work' = [work EXCEPT ![r] = "routing"]
          /\ attempt' = [attempt EXCEPT ![r] = @ + 1]
          /\ UNCHANGED result
     ELSE EndWork(r, "backend")
  /\ UNCHANGED <<cache, flights, run, budgets, open, answer>>

\* Mutant: the entry is filed under the key that was asked for.
StoreKeyAsked(r) == KeyOf(r)

\* The key that the serving backend reproduces.
StoreKey(r) == result[r]

\* An entry is kept, or not: NullCache, or no durable entry for this backend.
Store(r, kept) ==
  /\ work[r] = "storing"
  /\ IF kept THEN cache' = [cache EXCEPT ![StoreKey(r)] = result[r]]
     ELSE UNCHANGED cache
  /\ work' = [work EXCEPT ![r] = "ended"]
  /\ UNCHANGED <<flights, run, attempt, result, budgets, open, answer>>

\* The cache raises: a warning and a trace event, which a final trace refuses.
StoreFails(r) ==
  /\ work[r] = "storing"
  /\ EndWork(r, IF open[r] THEN result[r] ELSE "cache")
  /\ UNCHANGED <<cache, flights, run, budgets, open, answer>>

\* A cancelled populate() gives up its attempt; one that was storing may have
\* stored already.
Unwind(r, stored) ==
  /\ work[r] = "cancelling"
  /\ IF stored /\ result[r] \in Backends
     THEN cache' = [cache EXCEPT ![StoreKey(r)] = result[r]]
     ELSE UNCHANGED cache
  /\ EndWork(r, "cancelled")
  /\ UNCHANGED <<flights, run, budgets, open, answer>>

-------------------------------------------------------------------------------
\* Back in _perceive.

\* The bytes of leader l were produced under the key of run r.
Reproduces(r, l) == result[l] = KeyOf(r)

\* Run r gives its share of the flight of k back; the last one drops it.
Detach(r, k) ==
  /\ attached' = [attached EXCEPT ![k] = @ \ {r}]
  /\ leader' = [leader EXCEPT ![k] = IF attached[k] = {r} THEN Nobody ELSE @]

\* Mutant: nobody is told the result when the leader has left.
ToldWhileLed(l) == work[l] = "ended" /\ run[l] # "left"

\* The future of the flight that l leads is set.
Told(l) == work[l] = "ended"

\* The shared population has ended.  Its leader credits the backend that served
\* it, a follower takes it for a hit only if that is the backend of its own key.
Receive(r) ==
  LET k == KeyOf(r)
      l == leader[k]
  IN /\ run[r] = "sharing" /\ Told(l)
     /\ Detach(r, k)
     /\ IF result[l] \notin Backends
        THEN Answer(r, Failure(result[l], l)) /\ Goto(r, "failed") /\ UNCHANGED filled
        ELSE IF l = r
        THEN Answer(r, Success(result[l], result[l], FALSE)) /\ Goto(r, "done") /\ UNCHANGED filled
        ELSE IF Reproduces(r, l)
        THEN Answer(r, Success(result[l], k, TRUE)) /\ Goto(r, "done") /\ UNCHANGED filled
        ELSE StartWork(r) /\ Goto(r, "alone") /\ UNCHANGED answer
     /\ UNCHANGED <<cache, deaf, budgets, open>>

ReceiveOwn(r) ==
  /\ run[r] = "alone" /\ work[r] = "ended"
  /\ IF result[r] \in Backends
     THEN Answer(r, Success(result[r], result[r], FALSE)) /\ Goto(r, "done")
     ELSE Answer(r, Failure(result[r], r)) /\ Goto(r, "failed")
  /\ UNCHANGED <<cache, flights, filled, budgets, open>>

\* Mutant: a leaving run leaves its own work behind.
AbandonedNever(r) == {}

\* The populations that a leaving run takes with it: the shared one if nobody
\* else waits for it, and one of its own.
Abandoned(r) ==
  {l \in Runs : /\ work[l] \in Working
                /\ \/ run[r] = "sharing" /\ l = leader[KeyOf(r)] /\ attached[KeyOf(r)] = {r}
                   \/ run[r] = "alone" /\ l = r}

\* The run is cancelled or runs out of time during the perception.  Work it does
\* alone is part of its own task and unwinds before the run goes on.  In the
\* clean-up of an expired attempt the router suppresses the cancellation: a shared
\* population is left to itself, and a run that works alone just goes on.
Leave(r) ==
  /\ run[r] \in Waiting
  /\ run[r] = "alone" => work[r] \in Working \ {"expiring"}
  /\ IF run[r] = "sharing" THEN Detach(r, KeyOf(r)) ELSE UNCHANGED <<attached, leader>>
  /\ work' = [l \in Runs |-> IF l \in Abandoned(r) /\ work[l] # "expiring"
                            THEN "cancelling" ELSE work[l]]
  /\ deaf' = deaf \cup {l \in Abandoned(r) : work[l] = "expiring"}
  /\ IF run[r] = "alone" THEN UNCHANGED run ELSE Goto(r, "left")
  /\ UNCHANGED <<cache, attempt, result, budgets, open, answer>>

\* The run ends, its perception over, and its trace is final.  Only the population
\* it has left to others still looks at that.
FinalizeTrace(r) ==
  /\ run[r] \in Over /\ open[r] /\ work[r] \in Working
  /\ open' = [open EXCEPT ![r] = FALSE]
  /\ UNCHANGED <<cache, flights, run, filled, budgets, answer>>

WorkStep(r) ==
  \/ \E late \in BOOLEAN : StartAttempt(r, late)
  \/ \E retryable \in BOOLEAN : AttemptFails(r, retryable)
  \/ AttemptSucceeds(r) \/ AttemptExpires(r) \/ StoreFails(r)
  \/ \E kept \in BOOLEAN : Store(r, kept) \/ Unwind(r, kept)

RunStep(r) ==
  CacheHit(r) \/ CacheMiss(r) \/ Lead(r) \/ Join(r) \/ Receive(r) \/ ReceiveOwn(r)

Next == \E r \in Runs :
  \/ Begin(r) \/ RunStep(r) \/ WorkStep(r)
  \/ Leave(r) \/ FinalizeTrace(r)

\* The event loop runs every ready task, and each backend attempt is under a
\* timeout, whose cancellation it comes to the end of.
Fairness == \A r \in Runs : WF_vars(RunStep(r)) /\ WF_vars(WorkStep(r))

Spec == Init /\ [][Next]_vars /\ Fairness

-------------------------------------------------------------------------------
Answers ==
  [ok : {TRUE}, producer : Backends, credit : Backends, hit : BOOLEAN]
  \cup [ok : {FALSE}, cause : Causes \cup {"none"}, whose : Runs \cup {Nobody}]

TypeOK ==
  /\ cache \in [Backends -> Backends \cup {Nobody}]
  /\ attached \in [Backends -> SUBSET Runs]
  /\ leader \in [Backends -> Runs \cup {Nobody}] /\ deaf \subseteq Runs
  /\ run \in [Runs -> {"idle"} \cup Waiting \cup Over]
  /\ work \in [Runs -> {"none", "cancelling", "ended"} \cup Working]
  /\ attempt \in [Runs -> Nat]
  /\ \A r \in Runs : attempt[r] \in 1 .. Len(RouteOf[r])
  /\ result \in [Runs -> Backends \cup Causes \cup {Nobody}]
  /\ charged \in [Runs -> Nat] /\ started \in [Runs -> Nat]
  /\ open \in [Runs -> BOOLEAN]
  /\ answer \in [Runs -> Answers]

\* "cache_hit=True never masks backend attribution" (docs/runtime.md): the
\* backend that a run's provenance credits is the one whose bytes it got, with
\* fallbacks, overrides that start elsewhere, shared populations and the cache
\* in between.
ProvenanceHonest ==
  \A r \in Runs : answer[r].ok => answer[r].producer = answer[r].credit

\* A stored entry was produced by the backend its key credits, whichever run's
\* fallback wrote it.
CacheHonest == \A b \in Backends : cache[b] \in {b, Nobody}

\* Whoever asked first, fell back or found the cache filled, what is given to a run and kept
\* for the next is credited to the backend that made it.
AnswersAreHonest == TypeOK /\ ProvenanceHonest /\ CacheHonest

\* Every backend call is reserved on the budget of the run that leads the work
\* before it starts, fallback attempts included, and within its limit.
AttemptsAreCharged ==
  \A r \in Runs : started[r] <= charged[r] /\ charged[r] <= MaxBackends

\* Somebody waits for the population of run l.
Wanted(l) == run[l] = "alone" \/ (leader[KeyOf(l)] = l /\ attached[KeyOf(l)] # {})

\* The last run that leaves a population stops it, wherever it is and whoever leads
\* it, unless the cancellation strikes in the clean-up of an expired attempt.
WorkIsWanted == \A l \in Runs : work[l] \in Working => Wanted(l) \/ l \in deaf

\* Backends work only for somebody who waits, or where a suppressed cancellation left
\* the population to itself, and somebody pays for each of their calls even then.
WorkIsPaidAndWanted == AttemptsAreCharged /\ WorkIsWanted

\* A run that asks gets an answer or an error, also when the leader it follows
\* leaves, fails or falls back to a backend that is not the follower's.
PerceptionEnds == \A r \in Runs : run[r] = "reading" ~> run[r] \in Over

\* The shared work of each key, for the coordinator's contract.
FlightWork ==
  [k \in Backends |-> IF attached[k] = {} THEN "none"
                      ELSE IF work[leader[k]] \in Working THEN "underway" ELSE "known"]

Flights == INSTANCE SharedWork
  WITH Callers <- Runs, Keys <- Backends, shut <- FALSE, work <- FlightWork
\* The runs use flights as the coordinator's contract says: work is under way or
\* known only while somebody is attached to it, and ends otherwise only when the
\* last one has left it.
UsesSharedWork == Flights!Spec

\* What the coordinator cancels for (perception/cache.py:392-395): a population that
\* everybody has left starts no further attempt.
CancelledWorkStops == \A l \in deaf : work[l] # "attempting"

\* docs/runtime.md: "A cache failure never fails a vision run."
CacheFailureIsHarmless ==
  \A r \in Runs : ~answer[r].ok => answer[r].cause # "cache"

\* SingleFlightCoordinator.run: "Return the shared population result without
\* propagating waiter cancellation": no run fails because another one's trace is
\* final.
LeaderLeavesNoTrace ==
  \A r \in Runs : ~answer[r].ok /\ answer[r].cause = "trace" => answer[r].whose = r

===============================================================================
