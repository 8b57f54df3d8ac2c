----------------------------- MODULE Lifecycle -----------------------------
(***************************************************************************)
(* Sessions and their client: the operations client.py counts              *)
(* (open_image, and the one-shot ask and inspect, which open and close a   *)
(* private session), calls of an open session (session.py ask, inspect),   *)
(* and aclose() of both, with every cancellation the awaits allow.  A      *)
(* session is named after the operation that opened it.                    *)
(*                                                                         *)
(* Both state locks guard blocks without an await, so each is one step.    *)
(***************************************************************************)
EXTENDS Naturals, Sequences, FiniteSets

CONSTANTS
  OneShot,   \* client.ask and client.inspect
  Opens,     \* client.open_image
  Calls,     \* ask or inspect of an open session
  On,        \* the operation whose session each call uses
  Closers,   \* callers of the client's aclose()
  Nobody     \* holds the operation lock

Ops == OneShot \cup Opens

ASSUME ParticipantAssumption ==
  /\ OneShot \cap Opens = {} /\ Ops \cap Calls = {}
  /\ Nobody \notin Ops \cup Calls
  /\ IsFiniteSet(Ops)
  /\ On \in [Calls -> Opens]

VARIABLES
  op,        \* how far each client operation has come
  load,      \* its worker thread: _load_store
  orphan,    \* a cancelled operation left the thread's store to a callback
  store,     \* the image store that the thread returned
  sess,      \* the session over that store
  filed,     \* it is in the client's _sessions
  lock,      \* who holds the session's operation lock
  call,      \* how far each session call has come
  active,    \* _active_operations
  closing,   \* _closing of the client
  stage,     \* where its close task stands in Stages
  snapshot,  \* the sessions _close_sessions has still to close
  cancelled, \* it was cancelled while it waited for them
  failure,   \* the first base exception, _close_failure in the end
  closed,    \* _closed of the client
  closer     \* how far each aclose() has come

vars == <<op, load, orphan, store, sess, filed, lock, call, active, closing,
          stage, snapshot, cancelled, failure, closed, closer>>

\* _close_sequence.
Stages == <<"active_operations", "session", "singleflight", "router", "policy",
            "cache", "trace_sinks">>
Resources == 3 .. Len(Stages)

OpActive == {"loading", "rejecting", "opened", "serving", "closing", "insisting"}
OpOver   == {"returned", "failed"}

Init ==
  /\ op = [o \in Ops |-> "idle"] /\ load = [o \in Ops |-> "none"]
  /\ orphan = [o \in Ops |-> FALSE] /\ store = [o \in Ops |-> "none"]
  /\ sess = [o \in Ops |-> "none"] /\ filed = [o \in Ops |-> FALSE]
  /\ lock = [o \in Ops |-> Nobody]
  /\ call = [c \in Calls |-> "idle"]
  /\ active = 0 /\ closing = FALSE
  /\ stage = 0 /\ snapshot = {} /\ cancelled = FALSE
  /\ failure = "none" /\ closed = FALSE
  /\ closer = [x \in Closers |-> "idle"]

sessions == <<sess, filed, lock>>
loading  == <<load, orphan, store>>
shutdown == <<stage, snapshot, cancelled, failure, closed>>

-------------------------------------------------------------------------------
\* A client operation: _begin_operation, _create_session, _end_operation.

Begin(o) ==
  /\ op[o] = "idle"
  /\ IF closing
     THEN op' = [op EXCEPT ![o] = "failed"] /\ UNCHANGED <<load, active>>
     ELSE /\ op' = [op EXCEPT ![o] = "loading"]
          /\ load' = [load EXCEPT ![o] = "running"]
          /\ active' = active + 1
  /\ UNCHANGED <<orphan, store, sessions, call, closing, shutdown, closer>>

\* The thread ends with a store or an error.
LoadEnds(o, fine) ==
  /\ load[o] = "running"
  /\ load' = [load EXCEPT ![o] = IF fine THEN "loaded" ELSE "broken"]
  /\ store' = [store EXCEPT ![o] = IF fine THEN "open" ELSE @]
  /\ UNCHANGED <<op, orphan, sessions, call, active, closing, shutdown, closer>>

End(o, how) ==
  /\ op' = [op EXCEPT ![o] = how]
  /\ active' = active - 1

\* session.aclose(): the first one starts the close task, which waits for the lock.
BeginSessionClose(s) == sess' = [sess EXCEPT ![s] = IF @ = "open" THEN "closing" ELSE @]

\* Mutant: a session is filed although the client closes.
RejectedNever == FALSE

\* The client has begun to close while the image was loaded.
Rejected == closing

CreateSession(o) ==
  /\ op[o] = "loading" /\ load[o] = "loaded"
  /\ load' = [load EXCEPT ![o] = "over"]
  /\ IF Rejected
     THEN /\ op' = [op EXCEPT ![o] = "rejecting"]
          /\ sess' = [sess EXCEPT ![o] = "closing"]
          /\ UNCHANGED <<filed, active>>
     ELSE /\ sess' = [sess EXCEPT ![o] = "open"]
          /\ filed' = [filed EXCEPT ![o] = TRUE]
          /\ IF o \in OneShot THEN op' = [op EXCEPT ![o] = "opened"] /\ UNCHANGED active
                              ELSE End(o, "returned")
  /\ UNCHANGED <<orphan, store, lock, call, closing, shutdown, closer>>

LoadFailed(o) ==
  /\ op[o] = "loading" /\ load[o] = "broken"
  /\ load' = [load EXCEPT ![o] = "over"]
  /\ End(o, "failed")
  /\ UNCHANGED <<orphan, store, sessions, call, closing, shutdown, closer>>

\* Mutant: a store that arrives too late is forgotten.
LateStoreForgotten(o) == UNCHANGED orphan

\* worker.add_done_callback(_close_late_store)
LeaveStoreToCallback(o) == orphan' = [orphan EXCEPT ![o] = TRUE]

\* A cancellation, or the deadline of a one-shot operation, during the loading.
CancelLoading(o) ==
  /\ op[o] = "loading"
  /\ LeaveStoreToCallback(o)
  /\ End(o, "failed")
  /\ UNCHANGED <<load, store, sessions, call, closing, shutdown, closer>>

CloseLateStore(o) ==
  /\ orphan[o] /\ load[o] \in {"loaded", "broken"}
  /\ load' = [load EXCEPT ![o] = "over"]
  /\ store' = [store EXCEPT ![o] = IF @ = "open" THEN "closed" ELSE @]
  /\ UNCHANGED <<op, orphan, sessions, call, active, closing, shutdown, closer>>

\* The rejected session is closed, or the wait for that is cancelled.
Reject(o) ==
  /\ op[o] = "rejecting"
  /\ store' = [store EXCEPT ![o] = "closed"]
  /\ End(o, "failed")
  /\ UNCHANGED <<load, orphan, sessions, call, closing, shutdown, closer>>

\* A one-shot operation uses its session unless its time is up or the session
\* is closing.
Serve(o, late) ==
  /\ op[o] = "opened"
  /\ IF sess[o] = "open" /\ ~late
     THEN /\ op' = [op EXCEPT ![o] = "serving"]
          /\ lock' = [lock EXCEPT ![o] = o]
          /\ UNCHANGED sess
     ELSE op' = [op EXCEPT ![o] = "closing"] /\ BeginSessionClose(o) /\ UNCHANGED lock
  /\ UNCHANGED <<loading, filed, call, active, closing, shutdown, closer>>

\* An answer, an error, the deadline or a cancellation ends it.
ServeEnds(o) ==
  /\ op[o] = "serving"
  /\ op' = [op EXCEPT ![o] = "closing"]
  /\ lock' = [lock EXCEPT ![o] = Nobody]
  /\ BeginSessionClose(o)
  /\ UNCHANGED <<loading, filed, call, active, closing, shutdown, closer>>

\* _close_session: a first cancellation is kept until the session is closed, a
\* second one is not.
PrivateSessionClosed(o) ==
  /\ op[o] \in {"closing", "insisting"} /\ sess[o] = "closed"
  /\ \E how \in OpOver : End(o, how)
  /\ UNCHANGED <<loading, sessions, call, closing, shutdown, closer>>

CancelClosing(o) ==
  /\ op[o] \in {"closing", "insisting"}
  /\ IF op[o] = "closing"
     THEN op' = [op EXCEPT ![o] = "insisting"] /\ UNCHANGED active
     ELSE End(o, "failed")
  /\ UNCHANGED <<loading, sessions, call, closing, shutdown, closer>>

-------------------------------------------------------------------------------
\* Calls of an open session, and its aclose().

\* _require_open before the lock; the user has the session once open_image returned it.
Call(c) ==
  /\ call[c] = "idle" /\ op[On[c]] = "returned"
  /\ IF sess[On[c]] = "open"
     THEN call' = [call EXCEPT ![c] = "queued"]
     ELSE call' = [call EXCEPT ![c] = "over"]
  /\ UNCHANGED <<op, loading, sessions, active, closing, shutdown, closer>>

\* _require_open once more under the lock.
EnterCall(c) ==
  LET s == On[c] IN
  /\ call[c] = "queued" /\ lock[s] = Nobody
  /\ IF sess[s] = "open"
     THEN call' = [call EXCEPT ![c] = "running"] /\ lock' = [lock EXCEPT ![s] = c]
     ELSE call' = [call EXCEPT ![c] = "over"] /\ UNCHANGED lock
  /\ UNCHANGED <<op, loading, sess, filed, active, closing, shutdown, closer>>

CallEnds(c) ==
  /\ call[c] = "running"
  /\ call' = [call EXCEPT ![c] = "over"]
  /\ lock' = [lock EXCEPT ![On[c]] = Nobody]
  /\ UNCHANGED <<op, loading, sess, filed, active, closing, shutdown, closer>>

CancelQueued(c) ==
  /\ call[c] = "queued"
  /\ call' = [call EXCEPT ![c] = "over"]
  /\ UNCHANGED <<op, loading, sessions, active, closing, shutdown, closer>>

UserClosesSession(o) ==
  /\ o \in Opens /\ op[o] = "returned" /\ sess[o] = "open"
  /\ BeginSessionClose(o)
  /\ UNCHANGED <<op, loading, filed, lock, call, active, closing, shutdown, closer>>

\* The close task gets the operation lock.
LockAcquired(s) == lock[s] = Nobody

\* session._close_owned releases the store and tells the client.
SessionCloses(s) ==
  /\ sess[s] = "closing" /\ LockAcquired(s)
  /\ sess' = [sess EXCEPT ![s] = "closed"]
  /\ store' = [store EXCEPT ![s] = "closed"]
  /\ filed' = [filed EXCEPT ![s] = FALSE]
  /\ UNCHANGED <<op, load, orphan, lock, call, active, closing, shutdown, closer>>

-------------------------------------------------------------------------------
\* The client's aclose() and its close task.

Close(x) ==
  /\ closer[x] = "idle"
  /\ closer' = [closer EXCEPT ![x] = "waiting"]
  /\ closing' = TRUE
  /\ stage' = IF closing THEN stage ELSE 1
  /\ UNCHANGED <<op, loading, sessions, call, active, snapshot, cancelled,
                 failure, closed>>

\* An ordinary error is a warning, the first base exception is kept.
Keep(e) == failure' = IF e = "base" THEN "base" ELSE failure

\* One stage is over, well or with an error; after the last one the client is closed.
Advance(e) ==
  /\ Keep(e)
  /\ stage' = stage + 1
  /\ closed' = (stage = Len(Stages))

\* _idle.wait(); a cancellation of the close task there does not stop the rest.
Drain(e) ==
  /\ stage = 1
  /\ active = 0 \/ e = "base"
  /\ Advance(e)
  /\ snapshot' = {s \in Ops : filed[s]}
  /\ UNCHANGED <<op, loading, sessions, call, active, closing, cancelled, closer>>

\* _close_one_session, a task for each session.
CloseOneSession(s) ==
  /\ stage = 2 /\ s \in snapshot /\ sess[s] = "open"
  /\ BeginSessionClose(s)
  /\ UNCHANGED <<op, loading, filed, lock, call, active, closing, shutdown, closer>>

SessionsClosed == \A s \in snapshot : sess[s] = "closed"

\* A cancellation does not end the wait for the sessions and is kept after it.
CancelCloseSessions ==
  /\ stage = 2 /\ ~cancelled
  /\ cancelled' = TRUE
  /\ UNCHANGED <<op, loading, sessions, call, active, closing, stage, snapshot,
                 failure, closed, closer>>

CloseSessions ==
  /\ stage = 2 /\ SessionsClosed
  /\ Advance(IF cancelled THEN "base" ELSE "fine")
  /\ snapshot' = {} /\ cancelled' = FALSE
  /\ UNCHANGED <<op, loading, sessions, call, active, closing, closer>>

\* A resource's aclose() ends: well, with an error, or cut off by a cancellation.
CloseResource(e) ==
  /\ stage \in Resources /\ ~closed
  /\ Advance(e)
  /\ UNCHANGED <<op, loading, sessions, call, active, closing, snapshot,
                 cancelled, closer>>

\* aclose() tells every caller that was not cancelled the kept failure.
Return(x) ==
  /\ closer[x] \in {"waiting", "draining"} /\ closed
  /\ closer' = [closer EXCEPT ![x] =
       IF @ = "draining" \/ failure # "none" THEN "raised" ELSE "returned"]
  /\ UNCHANGED <<op, loading, sessions, call, active, closing, shutdown>>

\* Mutant: a cancelled caller leaves at once.
LeaveAtOnce(x) == "raised"

\* A cancelled caller waits on, for _drain_close.
AfterCancel(x) == IF closed THEN "raised" ELSE "draining"

CancelCloser(x) ==
  /\ closer[x] = "waiting"
  /\ closer' = [closer EXCEPT ![x] = AfterCancel(x)]
  /\ UNCHANGED <<op, loading, sessions, call, active, closing, shutdown>>

Outcomes == {"fine", "warning", "base"}

OpStep(o) ==
  \/ \E fine \in BOOLEAN : LoadEnds(o, fine)
  \/ CreateSession(o) \/ LoadFailed(o) \/ CloseLateStore(o)
  \/ op[o] = "rejecting" /\ sess[o] = "closed" /\ Reject(o)
  \/ \E late \in BOOLEAN : Serve(o, late)
  \/ ServeEnds(o) \/ PrivateSessionClosed(o)

CloseStep ==
  \/ \E e \in Outcomes : CloseResource(e)
  \/ active = 0 /\ Drain("fine")
  \/ CloseSessions

Next ==
  \/ \E o \in Ops : \/ Begin(o) \/ OpStep(o)
                    \/ CancelLoading(o) \/ Reject(o) \/ CancelClosing(o)
                    \/ UserClosesSession(o)
                    \/ CloseOneSession(o) \/ SessionCloses(o)
  \/ \E c \in Calls : Call(c) \/ EnterCall(c) \/ CallEnds(c) \/ CancelQueued(c)
  \/ \E x \in Closers : Close(x) \/ Return(x) \/ CancelCloser(x)
  \/ CloseStep \/ Drain("base") \/ CancelCloseSessions

\* The event loop runs every ready task; runs of a session end by their deadline,
\* an image is loaded or not, and every aclose() of a resource ends.  The FIFO
\* operation lock is strongly fair.
Fairness ==
  /\ \A o \in Ops : WF_vars(OpStep(o)) /\ WF_vars(CloseOneSession(o)) /\ SF_vars(SessionCloses(o))
  /\ \A c \in Calls : SF_vars(EnterCall(c)) /\ WF_vars(CallEnds(c))
  /\ \A x \in Closers : WF_vars(Return(x))
  /\ WF_vars(CloseStep)

Spec == Init /\ [][Next]_vars /\ Fairness

-------------------------------------------------------------------------------
TypeOK ==
  /\ op \in [Ops -> {"idle"} \cup OpActive \cup OpOver]
  /\ load \in [Ops -> {"none", "running", "loaded", "broken", "over"}]
  /\ orphan \in [Ops -> BOOLEAN]
  /\ store \in [Ops -> {"none", "open", "closed"}]
  /\ sess \in [Ops -> {"none", "open", "closing", "closed"}]
  /\ filed \in [Ops -> BOOLEAN]
  /\ lock \in [Ops -> Ops \cup Calls \cup {Nobody}]
  /\ call \in [Calls -> {"idle", "queued", "running", "over"}]
  /\ active \in Nat /\ closing \in BOOLEAN
  /\ stage \in 0 .. Len(Stages) + 1
  /\ snapshot \subseteq Ops /\ cancelled \in BOOLEAN
  /\ failure \in {"none", "base"} /\ closed \in BOOLEAN
  /\ closer \in [Closers -> {"idle", "waiting", "draining", "returned", "raised"}]

\* The counter the drain waits for is the number of operations under way, on
\* every way out of one, also when its clean-up is cancelled twice.
ActiveAccounted == active = Cardinality({o \in Ops : op[o] \in OpActive})

Busy(s) == op[s] = "serving" \/ \E c \in Calls : On[c] = s /\ call[c] = "running"

\* No session closes underneath an operation that runs in it, or lets one in
\* after it has closed.
SessionsCloseQuietly == \A s \in Ops : Busy(s) => sess[s] \in {"open", "closing"} /\ store[s] = "open"

\* "Sessions close before the resources they borrow" (_close_sequence), also
\* when the drain or the wait for the sessions is cancelled, and whoever opens,
\* calls or closes sessions meanwhile: nothing runs, or can start to run, in a
\* session while the resources close.
ResourcesLast ==
  stage > 2 => \A s \in Ops : ~Busy(s) /\ sess[s] # "open"

\* aclose() never ends before the clean-up has, however often it is cancelled, and
\* hides no base exception from a caller that was not cancelled.
ClosersSeeWholeClose ==
  \A x \in Closers : /\ closer[x] \in {"returned", "raised"} => closed
                     /\ closer[x] = "returned" => failure = "none"

\* The client closes in order: it waits for the operations it counts, then for the sessions,
\* then closes what they borrow, and tells no closer that it is over before it is.
ClosingIsOrderly ==
  TypeOK /\ ActiveAccounted /\ SessionsCloseQuietly /\ ResourcesLast /\ ClosersSeeWholeClose

\* "One-shot inspect and ask calls create and close a private session in all
\* outcomes" (docs/architecture.md), and no cancelled open_image leaks the image
\* that its thread is still loading.
PrivateStoresClose ==
  \A o \in Ops : store[o] = "open" /\ (o \in OneShot \/ op[o] = "failed") ~> store[o] = "closed"

\* The client's shutdown ends and leaves no store open.
ShutdownCompletes == closing ~> closed /\ \A o \in Ops : store[o] # "open"

===============================================================================
