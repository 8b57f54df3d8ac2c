------------------------------- MODULE Router -------------------------------
(***************************************************************************)
(* perception/router.py BackendRouter: which backends a request may go to   *)
(* and in which order; calls that try them one after another, each attempt  *)
(* a task of its own behind the backend's semaphore, under a timeout and    *)
(* under cancellation of the caller; and the close that waits for the calls *)
(* and then closes the backends.  The callbacks around an attempt (budget,  *)
(* trace) belong to the session; here they end well, fail or are cancelled. *)
(***************************************************************************)
EXTENDS Naturals, Sequences, SequencesExt, FiniteSets

CONSTANTS
  Registered,    \* backend names in order of registration
  Declared,      \* the capabilities each one declares
  Verdict,       \* what its supports() says of each capability: yes, no, or it fails
  Proven,        \* backends with a pinned mark-reference contract
  Preferred,     \* the configured order for each capability
  Authority,     \* the only backend for a capability, or Nobody
  Concurrency,   \* max_concurrency
  Fallback,      \* fallback_backends
  Calls, Closers,
  Requests,      \* each call's: capability, whether marks are referred to, override or Nobody
  Nobody

Backends == ToSet(Registered)

Asked == UNION {Requests[c] : c \in Calls}

\* The built-in backend is always registered; preferences and authorities are
\* validated, and a capability without any has an empty entry.
ASSUME RouterAssumption ==
  /\ Registered \in Seq(Backends) /\ Registered # <<>> /\ IsInjective(Registered)
  /\ Nobody \notin Backends
  /\ IsFiniteSet(Calls) /\ Fallback \in BOOLEAN
  /\ Concurrency \in [Backends -> Nat \ {0}]
  /\ \A q \in Asked :
       /\ Preferred[q.capability] \in Seq({b \in Backends : q.capability \in Declared[b]})
       /\ IsInjective(Preferred[q.capability])
       /\ Authority[q.capability] # Nobody =>
            Authority[q.capability] \in {b \in Backends : q.capability \in Declared[b]}

-----------------------------------------------------------------------------
(* Routing.                                                                *)

Declares(b, q) == q.capability \in Declared[b]

\* _supports: marks go to a proven backend only; supports() is asked else.
Supports(b, q) == IF q.marks /\ b \notin Proven THEN "no" ELSE Verdict[b][q.capability]

Refusal(code) == [code |-> code, order |-> <<>>]

\* The override, then the preferences, then the order of registration.
Ranking(q) ==
  (IF q.override = Nobody THEN <<>> ELSE <<q.override>>) \o Preferred[q.capability] \o Registered

\* Each declaring and supporting backend once, where it is ranked first.
Candidates(q) ==
  LET ranking == Ranking(q)
      upTo[n \in 0..Len(ranking)] ==
        IF n = 0 THEN <<>>
        ELSE LET sofar == upTo[n - 1]
                 b == ranking[n]
             IN IF Declares(b, q) /\ Supports(b, q) = "yes" /\ ~Contains(sofar, b)
                THEN Append(sofar, b) ELSE sofar
  IN upTo[Len(ranking)]

\* _override_entry.
OverrideCode(q) ==
  IF q.override = Nobody THEN "none"
  ELSE IF q.override \notin Backends THEN "backend_override_unavailable"
  ELSE IF ~Declares(q.override, q) THEN "backend_override_incompatible"
  ELSE IF Supports(q.override, q) = "no" THEN "capability_option_unavailable"
  ELSE IF Supports(q.override, q) = "fails" THEN "backend_supports_failed"
  ELSE "none"

\* _route of a capability with an authoritative backend.
AuthoritativeRoute(b, q) ==
  IF q.override \notin {Nobody, b} THEN Refusal("backend_override_incompatible")
  ELSE CASE Supports(b, q) = "yes" -> [code |-> "none", order |-> <<b>>]
         [] Supports(b, q) = "no" -> Refusal("capability_option_unavailable")
         [] OTHER -> Refusal("backend_supports_failed")

\* _route.
Route(q) ==
  LET declaring == {b \in Backends : Declares(b, q)}
  IN IF Authority[q.capability] # Nobody THEN AuthoritativeRoute(Authority[q.capability], q)
     ELSE IF OverrideCode(q) # "none" THEN Refusal(OverrideCode(q))
     ELSE IF \E b \in declaring : Supports(b, q) = "fails" THEN Refusal("backend_supports_failed")
     ELSE IF Candidates(q) = <<>>
     THEN Refusal(IF declaring = {} THEN "capability_unavailable"
                                    ELSE "capability_option_unavailable")
     ELSE [code |-> "none", order |-> Candidates(q)]

-----------------------------------------------------------------------------
VARIABLES
  pc,        \* where each call of analyze() waits
  request,
  order,     \* its candidates
  tried,     \* the outcomes of its attempts, which it returns with its result
  reason,    \* the outcome of the attempt that has just ended
  told,      \* outcomes the session was told of by after_attempt
  cancelled, \* its task was asked to stop
  ended,     \* how it ended
  inv,       \* the task of its attempt, or what that came to
  queue,     \* attempts waiting for each backend's semaphore
  slots,     \* the semaphore's value
  active,    \* _active_calls
  closing,   \* _closing
  closeTask, \* _close_task
  shut,      \* how many backends have been closed
  closer     \* how far each aclose() has come

callVars  == <<pc, request, order, tried, reason, told, cancelled, ended, active>>
invVars   == <<inv, queue, slots>>
closeVars == <<closing, closeTask, shut, closer>>
vars == <<callVars, invVars, closeVars>>

NoRequest == [capability |-> "none", marks |-> FALSE, override |-> Nobody]

Init ==
  /\ pc = [c \in Calls |-> "idle"] /\ request = [c \in Calls |-> NoRequest]
  /\ order = [c \in Calls |-> <<>>] /\ tried = [c \in Calls |-> <<>>]
  /\ reason = [c \in Calls |-> "none"] /\ told = [c \in Calls |-> <<>>]
  /\ cancelled = [c \in Calls |-> FALSE] /\ ended = [c \in Calls |-> "none"]
  /\ inv = [c \in Calls |-> "none"]
  /\ queue = [b \in Backends |-> <<>>] /\ slots = Concurrency /\ active = 0
  /\ closing = FALSE /\ closeTask = "none" /\ shut = 0
  /\ closer = [x \in Closers |-> "idle"]

Current(c) == order[c][Len(tried[c]) + 1]
Enter(c, where) == pc' = [pc EXCEPT ![c] = where]

\* Mutant: the call is not counted off when it is cancelled.
EndForgotten(c, how) ==
  /\ Enter(c, "over") /\ ended' = [ended EXCEPT ![c] = how]
  /\ active' = IF how = "cancelled" THEN active ELSE active - 1

\* The finally clause: _end_call.
End(c, how) ==
  /\ Enter(c, "over") /\ ended' = [ended EXCEPT ![c] = how]
  /\ active' = active - 1

\* _begin_call and _route, without a suspension between them.
Begin(c, q) ==
  /\ pc[c] = "idle"
  /\ request' = [request EXCEPT ![c] = q]
  /\ IF closing THEN /\ Enter(c, "over") /\ ended' = [ended EXCEPT ![c] = "closed"]
                     /\ UNCHANGED <<order, active>>
     ELSE IF Route(q).order = <<>>
     THEN /\ Enter(c, "over") /\ ended' = [ended EXCEPT ![c] = Route(q).code]
          /\ UNCHANGED <<order, active>>
     ELSE /\ Enter(c, "preparing") /\ order' = [order EXCEPT ![c] = Route(q).order]
          /\ active' = active + 1 /\ UNCHANGED ended
  /\ UNCHANGED <<tried, reason, told, cancelled, invVars, closeVars>>

\* before_attempt fails: a budget is used up, or the trace is final.
PreparationFails(c) ==
  /\ pc[c] = "preparing" /\ End(c, "failed")
  /\ UNCHANGED <<request, order, tried, reason, told, cancelled, invVars, closeVars>>

\* The attempt becomes a task, which queues for the semaphore.
StartAttempt(c) ==
  /\ pc[c] = "preparing" /\ Enter(c, "waiting")
  /\ inv' = [inv EXCEPT ![c] = "queued"]
  /\ queue' = [queue EXCEPT ![Current(c)] = Append(@, c)]
  /\ UNCHANGED <<request, order, tried, reason, told, cancelled, ended, active, slots, closeVars>>

-----------------------------------------------------------------------------
(* _invoke.                                                                *)

Acquire(c) ==
  LET b == Current(c)
  IN /\ inv[c] = "queued" /\ Head(queue[b]) = c /\ slots[b] > 0
     /\ inv' = [inv EXCEPT ![c] = "running"]
     /\ queue' = [queue EXCEPT ![b] = Tail(@)] /\ slots' = [slots EXCEPT ![b] = @ - 1]
     /\ UNCHANGED <<callVars, closeVars>>

\* What a backend may do: answer, say that it is not available or that another
\* try may help, or anything else: answer with something that is no result,
\* fail, cancel itself.  The except clauses of analyze() name the outcomes.
Outcomes == {"success", "unavailable", "retryable_error", "error"}

InvocationEnds(c, outcome) ==
  /\ inv' = [inv EXCEPT ![c] = outcome]
  /\ slots' = [slots EXCEPT ![Current(c)] = @ + 1]
  /\ UNCHANGED <<callVars, queue, closeVars>>

BackendReturns(c) ==
  inv[c] = "running" /\ \E outcome \in Outcomes : InvocationEnds(c, outcome)

\* A cancelled backend cleans up, which may take its time.
BackendUnwinds(c) == inv[c] = "unwinding" /\ InvocationEnds(c, "gone")

\* invocation.cancel(): one that waits for the semaphore leaves the queue.
CancelInvocation(c) ==
  /\ inv' = [inv EXCEPT ![c] = IF @ = "running" THEN "unwinding" ELSE "gone"]
  /\ queue' = [queue EXCEPT ![Current(c)] = RemoveFirst(@, c)]
  /\ UNCHANGED slots

-----------------------------------------------------------------------------
(* The call, from the end of an attempt to the next one.                   *)

\* wait_for returns or raises what the attempt came to.
Observe(c) ==
  /\ pc[c] = "waiting" /\ inv[c] \in Outcomes
  /\ Enter(c, "reporting") /\ reason' = [reason EXCEPT ![c] = inv[c]]
  /\ inv' = [inv EXCEPT ![c] = "gone"]
  /\ UNCHANGED <<request, order, tried, told, cancelled, ended, active, queue, slots, closeVars>>

StopWaiting(c, why) ==
  /\ pc[c] = "waiting"
  /\ Enter(c, "cleaning") /\ reason' = [reason EXCEPT ![c] = why]
  /\ CancelInvocation(c)
  /\ UNCHANGED <<request, order, tried, told, ended, active, closeVars>>

\* The timeout runs from the moment the attempt queues.
TimesOut(c) ==
  inv[c] \notin Outcomes /\ StopWaiting(c, "timeout") /\ UNCHANGED cancelled

\* Mutant: the call goes on without the attempt it has cancelled.
CleanedAtOnce(c) == TRUE

\* _cancel_invocation awaits the attempt that it has cancelled.
Cleaned(c) == inv[c] = "gone"

CleanUp(c) ==
  /\ pc[c] = "cleaning" /\ Cleaned(c) /\ Enter(c, "reporting")
  /\ UNCHANGED <<request, order, tried, reason, told, cancelled, ended, active, invVars, closeVars>>

\* Mutant: every failure is a reason to try the next backend.
MayFallBackAlways(c) == Fallback /\ Len(tried[c]) + 1 < Len(order[c])

\* _can_fallback.
MayFallBack(c) ==
  /\ Fallback /\ Len(tried[c]) + 1 < Len(order[c])
  /\ reason[c] \in {"timeout", "unavailable", "retryable_error"}

Attempt(c) == [backend |-> Current(c), outcome |-> reason[c]]

\* after_attempt returns: the call is over, or the next backend is tried.
Report(c) ==
  /\ pc[c] = "reporting"
  /\ told' = [told EXCEPT ![c] = Append(@, reason[c])]
  /\ tried' = [tried EXCEPT ![c] = IF reason[c] = "cancelled" THEN @ ELSE Append(@, Attempt(c))]
  /\ IF reason[c] \notin {"success", "cancelled"} /\ MayFallBack(c)
     THEN Enter(c, "preparing") /\ UNCHANGED <<ended, active>>
     ELSE End(c, IF reason[c] \in {"success", "cancelled"} THEN reason[c] ELSE "failed")
  /\ UNCHANGED <<request, order, reason, cancelled, invVars, closeVars>>

\* after_attempt fails, for the trace it writes to is final.
ReportFails(c) ==
  /\ pc[c] = "reporting" /\ End(c, "failed")
  /\ UNCHANGED <<request, order, tried, reason, told, cancelled, invVars, closeVars>>

\* The calling task is cancelled where it waits.  In _cancel_invocation the
\* cancellation goes to the attempt and is suppressed with what that raises.
Interrupt(c) ==
  /\ cancelled' = [cancelled EXCEPT ![c] = TRUE]
  /\ \/ StopWaiting(c, "cancelled")
     \/ /\ pc[c] = "cleaning" /\ ~Cleaned(c) /\ ~cancelled[c]
        /\ UNCHANGED <<pc, request, order, tried, reason, told, ended, active, invVars, closeVars>>
     \/ /\ pc[c] \in {"preparing", "reporting"} /\ End(c, "cancelled")
        /\ UNCHANGED <<request, order, tried, reason, told, invVars, closeVars>>

-----------------------------------------------------------------------------
(* Closing.                                                                *)

Close(x) ==
  /\ closer[x] = "idle" /\ closer' = [closer EXCEPT ![x] = "waiting"]
  /\ closing' = TRUE
  /\ closeTask' = IF closeTask = "none" THEN "draining" ELSE closeTask
  /\ UNCHANGED <<callVars, invVars, shut>>

Drain ==
  /\ closeTask = "draining" /\ active = 0 /\ closeTask' = "closing"
  /\ UNCHANGED <<callVars, invVars, closing, shut, closer>>

\* One backend's aclose() ends, well or not; the others are closed all the same.
CloseBackend ==
  /\ closeTask = "closing" /\ shut' = shut + 1
  /\ closeTask' = IF shut' = Len(Registered) THEN "ended" ELSE closeTask
  /\ UNCHANGED <<callVars, invVars, closing, closer>>

\* The close task itself is cancelled, as asyncio.run() does at its end.
AbortClose ==
  /\ closeTask \in {"draining", "closing"} /\ closeTask' = "aborted"
  /\ UNCHANGED <<callVars, invVars, closing, shut, closer>>

CloserReturns(x) ==
  /\ closer[x] = "waiting" /\ closeTask \in {"ended", "aborted"}
  /\ closer' = [closer EXCEPT ![x] = "over"]
  /\ UNCHANGED <<callVars, invVars, closing, closeTask, shut>>

CancelCloser(x) ==
  /\ closer[x] = "waiting" /\ closer' = [closer EXCEPT ![x] = "over"]
  /\ UNCHANGED <<callVars, invVars, closing, closeTask, shut>>

CallStep(c) ==
  \/ PreparationFails(c) \/ StartAttempt(c)
  \/ Acquire(c) \/ BackendUnwinds(c)
  \/ Observe(c) \/ TimesOut(c) \/ CleanUp(c) \/ Report(c) \/ ReportFails(c)

Next ==
  \/ \E c \in Calls : \/ \E q \in Requests[c] : Begin(c, q)
                      \/ CallStep(c) \/ BackendReturns(c) \/ Interrupt(c)
  \/ \E x \in Closers : Close(x) \/ CloserReturns(x) \/ CancelCloser(x)
  \/ Drain \/ CloseBackend \/ AbortClose

\* Callbacks return, every wait for a backend has its timeout, and a cancelled
\* backend stops; no backend has to answer, and nobody has to cancel or close.
Fairness ==
  /\ \A c \in Calls : WF_vars(CallStep(c))
  /\ WF_vars(Drain \/ CloseBackend \/ \E x \in Closers : CloserReturns(x))

Spec == Init /\ [][Next]_vars /\ Fairness

-----------------------------------------------------------------------------
TypeOK ==
  /\ pc \in [Calls -> {"idle", "preparing", "waiting", "cleaning", "reporting", "over"}]
  /\ \A c \in Calls : request[c] \in Requests[c] \cup {NoRequest}
  /\ inv \in [Calls -> {"none", "queued", "running", "unwinding", "gone"} \cup Outcomes]
  /\ slots \in [Backends -> Nat] /\ active \in Nat /\ shut \in 0..Len(Registered)
  /\ closing \in BOOLEAN /\ closeTask \in {"none", "draining", "closing", "ended", "aborted"}
  /\ closer \in [Closers -> {"idle", "waiting", "over"}]

Using(b) == {c \in Calls : inv[c] \in {"running", "unwinding"} /\ Current(c) = b}

\* No interleaving of attempts, timeouts and cancellations leaves an attempt behind that no
\* call waits for, leaks a slot of a semaphore or a place in its queue, or counts a call off
\* twice or never; and no backend is closed while it works, queues work or cleans up after a
\* cancelled attempt (router.py _invoke, _cancel_invocation, _end_call, _close_owned_backends).
RouterIsOrderly ==
  /\ TypeOK
  /\ \A c \in Calls : inv[c] \notin {"none", "gone"} => pc[c] \in {"waiting", "cleaning"}
  /\ \A b \in Backends :
       /\ slots[b] + Cardinality(Using(b)) = Concurrency[b]
       /\ IsInjective(queue[b])
       /\ ToSet(queue[b]) = {c \in Calls : inv[c] = "queued" /\ Current(c) = b}
  /\ active = Cardinality({c \in Calls : pc[c] \notin {"idle", "over"}})
  /\ closeTask \in {"closing", "ended"} => \A c \in Calls : inv[c] \in {"none", "gone"}

\* The place of a backend in the order the documentation gives: an explicit override, the
\* preferences, the order of registration.
PlaceOf(b, q) ==
  IF b = q.override THEN <<0, 0>>
  ELSE IF Contains(Preferred[q.capability], b)
  THEN <<1, CHOOSE n \in DOMAIN Preferred[q.capability] : Preferred[q.capability][n] = b>>
  ELSE <<2, CHOOSE n \in DOMAIN Registered : Registered[n] = b>>
Before(p, r) == p[1] < r[1] \/ (p[1] = r[1] /\ p[2] < r[2])

\* "Routing is deterministic: an explicit compatible override, configured preferences, then
\* registration order. Optional fallback proceeds only through compatible backends and
\* records every attempt" (docs/runtime.md): a call goes down that order, passes over no
\* backend that supports the request, goes on only from a failure that another backend may
\* mend, stops at the first success, and its session has been told of each attempt that
\* another one followed.
FallbackIsEarned ==
  \A c \in Calls : LET q == request[c] IN
    /\ \A n \in DOMAIN tried[c] :
         LET b == tried[c][n].backend
         IN /\ Supports(b, q) = "yes" /\ Declares(b, q)
            /\ \A d \in Backends :
                 (/\ Authority[q.capability] = Nobody
                  /\ Declares(d, q) /\ Supports(d, q) = "yes" /\ Before(PlaceOf(d, q), PlaceOf(b, q)))
                 => \E m \in 1..(n - 1) : tried[c][m].backend = d
            /\ \A m \in 1..(n - 1) :
                 /\ tried[c][m].backend # b
                 /\ tried[c][m].outcome \in {"timeout", "unavailable", "retryable_error"}
            /\ n <= Len(told[c]) /\ told[c][n] = tried[c][n].outcome
    /\ ended[c] = "success" => Last(tried[c]).outcome = "success"

\* Every call ends though a backend never answers, and every close though calls were
\* under way, timed out or cancelled.
RoutesEnd ==
  /\ \A c \in Calls : (pc[c] # "idle") ~> (pc[c] = "over")
  /\ \A x \in Closers : (closer[x] = "waiting") ~> (closer[x] = "over")

\* What one would expect and does not hold: a call whose task was asked to stop starts no
\* other attempt.  A cancellation that strikes while a timed-out attempt unwinds is lost.
CancelledCallsStop ==
  [][\A c \in Calls : cancelled[c] => ~(pc[c] = "preparing" /\ pc'[c] = "waiting")]_vars
=============================================================================
