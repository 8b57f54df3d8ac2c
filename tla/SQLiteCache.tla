---------------------------- MODULE SQLiteCache ----------------------------
(***************************************************************************)
(* perception/sqlite_cache.py: callers on event loops hand jobs to the      *)
(* worker thread of their instance, which runs them in order against the   *)
(* one connection, in transactions on a table other instances use as well. *)
(* Callers are cancelled at any time, contention outlasts the deadline at  *)
(* any operation, entries expire, and instances are closed.                *)
(***************************************************************************)
EXTENDS SQLiteFile, Sequences, SequencesExt

CONSTANTS
  Keys, Jobs, Closers,
  Op,          \* what each job does: get, set, clear or prune
  Key, Size,   \* with which key and size
  At,          \* the instance of each job and closer
  KeyOrder,    \* pairs of keys, the first of which sorts before the second
  Preloaded,   \* rows of a current file from an earlier process
  MaxEntries, MaxBytes, TTL, TouchInterval,
  LastTick,    \* bound on the clock
  Missing

LowEntries == IF (9 * MaxEntries) \div 10 > 1 THEN (9 * MaxEntries) \div 10 ELSE 1
LowBytes   == IF (9 * MaxBytes) \div 10 > 1 THEN (9 * MaxBytes) \div 10 ELSE 1

Rows == [value : Jobs \cup {"earlier"}, size : Nat, created : Nat, accessed : Nat, expires : Nat]
IsTable(t) == DOMAIN t \subseteq Keys /\ IsFiniteSet(DOMAIN t) /\ t \in [DOMAIN t -> Rows]

ASSUME JobAssumption ==
  /\ At \in [Jobs \cup Closers -> Instances]
  /\ Jobs \cap Closers = {} /\ IsFiniteSet(Jobs)
  /\ Op \in [Jobs -> {"get", "set", "clear", "prune"}]
  /\ Key \in [Jobs -> Keys] /\ Size \in [Jobs -> Nat]
  /\ IsTable(Preloaded) /\ TTL \in Nat
  /\ MaxEntries \in Nat \ {0} /\ MaxBytes \in Nat \ {0}
  /\ {"nobody", "unreachable"} \cap (Jobs \cup {Missing}) = {}

\* Keys are texts: of two, one sorts before the other.
ASSUME KeyAssumption ==
  /\ KeyOrder \subseteq Keys \X Keys
  /\ \A k, l \in Keys : k # l => (<<k, l>> \in KeyOrder <=> <<l, k>> \notin KeyOrder)
  /\ \A k, l, m \in Keys : <<k, l>> \in KeyOrder /\ <<l, m>> \in KeyOrder => <<k, m>> \in KeyOrder
  /\ \A k \in Keys : <<k, k>> \notin KeyOrder

VARIABLES
  rows,   \* the entries table of each file, a function on the keys it holds
  saved,  \* the table that has been written back from its log into the main file
  now,    \* the clock
  queue,  \* the jobs and close jobs of each instance
  busy,   \* the job its worker is running
  shut,   \* _closed
  job,    \* how far each job's caller has come
  reply,  \* what was posted to its future
  closer  \* how far each aclose() has come

cacheVars == <<rows, saved, now, queue, busy, shut, job, reply, closer>>
vars == <<fileVars, cacheVars>>

Nobody == "nobody"
None == <<>>

Init ==
  /\ FileInit
  /\ rows = [f \in Files |-> IF kind[f] = "current" THEN Preloaded ELSE None]
  /\ saved = rows
  /\ now = 1
  /\ queue = [i \in Instances |-> <<>>] /\ busy = [i \in Instances |-> Nobody]
  /\ shut = [i \in Instances |-> FALSE]
  /\ job = [j \in Jobs |-> "idle"] /\ reply = [j \in Jobs |-> {}]
  /\ closer = [c \in Closers |-> "idle"]

Usable(i) == Available(i) /\ ~shut[i]
Step(j, s) == job' = [job EXCEPT ![j] = s]
\* _post_result, _post_exception: the future is resolved on the caller's loop
\* unless the caller has stopped waiting.
Post(jobs, a) ==
  /\ reply' = [j \in Jobs |-> IF j \in jobs THEN {a} ELSE reply[j]]
  /\ job' = [j \in Jobs |-> IF j \in jobs /\ job[j] # "abandoned" THEN "answered" ELSE job[j]]

-----------------------------------------------------------------------------
\* The caller's side, on an event loop.

\* Mutant: a disabled or closed instance is handed work all the same.
AcceptedBlindly(j) == Op[j] = "set" => Size[j] <= MaxBytes

\* The public operations.  Get and set of an unusable instance miss and do
\* nothing; clear and prune raise; a value above the byte limit is not stored.
Accepted(j) == Usable(At[j]) /\ (Op[j] = "set" => Size[j] <= MaxBytes)

\* _submit.
Submit(j) ==
  /\ job[j] = "idle" /\ Opened(At[j])
  /\ IF Accepted(j)
     THEN /\ queue' = [queue EXCEPT ![At[j]] = Append(@, j)]
          /\ Step(j, "waiting") /\ UNCHANGED reply
     ELSE Post({j}, Missing) /\ UNCHANGED queue
  /\ UNCHANGED <<fileVars, rows, saved, now, busy, shut, closer>>

Cancel(j) ==
  /\ job[j] = "waiting"
  /\ Step(j, "abandoned")
  /\ UNCHANGED <<fileVars, rows, saved, now, queue, busy, shut, reply, closer>>

\* aclose: the first marks the instance closed and puts the sentinel behind
\* the work that is queued; every other returns at once.
Close(c) ==
  /\ closer[c] = "idle" /\ Opened(At[c])
  /\ IF Usable(At[c])
     THEN /\ queue' = [queue EXCEPT ![At[c]] = Append(@, c)]
          /\ closer' = [closer EXCEPT ![c] = "waiting"]
     ELSE /\ closer' = [closer EXCEPT ![c] = "returned"]
          /\ UNCHANGED queue
  /\ shut' = [shut EXCEPT ![At[c]] = TRUE]
  /\ UNCHANGED <<fileVars, rows, saved, now, busy, job, reply>>

CloseReturns(c) ==
  /\ closer[c] = "waiting" /\ phase[At[c]] = "closed"
  /\ closer' = [closer EXCEPT ![c] = "returned"]
  /\ UNCHANGED <<fileVars, rows, saved, now, queue, busy, shut, job, reply>>

\* The await of the shielded future is cancelled; the worker still closes.
CancelClose(c) ==
  /\ closer[c] = "waiting"
  /\ closer' = [closer EXCEPT ![c] = "cancelled"]
  /\ UNCHANGED <<fileVars, rows, saved, now, queue, busy, shut, job, reply>>

-----------------------------------------------------------------------------
\* The table operations, as functions of a table.

Expired(row) == row.expires <= now
Dead(t) == {k \in DOMAIN t : Expired(t[k])}
Without(t, keys) == [k \in DOMAIN t \ keys |-> t[k]]

\* SUM(size), for sizes by key.
AnyOf(S) == CHOOSE x \in S : TRUE
SumOf(sizes) ==
  LET sum[S \in SUBSET DOMAIN sizes] ==
        IF S = {} THEN 0 ELSE sizes[AnyOf(S)] + sum[S \ {AnyOf(S)}]
  IN  sum[DOMAIN sizes]
Bytes(t, keys) == SumOf([k \in keys |-> t[k].size])

Fits(t, keys, entries, bytes) ==
  Cardinality(keys) <= entries /\ Bytes(t, keys) <= bytes

\* The order of eviction: accessed_at, then created_at, then the key.
Staler(t, k, l) ==
  \/ t[k].accessed < t[l].accessed
  \/ t[k].accessed = t[l].accessed /\ t[k].created < t[l].created
  \/ t[k].accessed = t[l].accessed /\ t[k].created = t[l].created /\ <<k, l>> \in KeyOrder

\* What goes if the stalest entries of these go first.
Stalest(t, keys) == {V \in SUBSET keys : \A k \in V, l \in keys \ V : ~Staler(t, l, k)}

\* The smallest of some sets of keys.
Fewest(sets) == CHOOSE V \in sets : \A W \in sets : Cardinality(V) <= Cardinality(W)

\* Mutant: what was just written may be evicted, too.
VictimsUnprotected(t, protected) ==
  IF Fits(t, DOMAIN t, MaxEntries, MaxBytes) THEN {}
  ELSE Fewest({V \in Stalest(t, DOMAIN t) : Fits(t, DOMAIN t \ V, LowEntries, LowBytes)})

\* _evict: above a limit, the stalest entries go until both low watermarks
\* hold or only the protected one is left.
Victims(t, protected) ==
  LET keys == DOMAIN t \ protected
  IN IF Fits(t, DOMAIN t, MaxEntries, MaxBytes) THEN {}
     ELSE Fewest({V \in Stalest(t, keys) :
                    V = keys \/ Fits(t, DOMAIN t \ V, LowEntries, LowBytes)})

Evict(t, protected) == Without(t, Victims(t, protected))

\* _set_operation.
Stored(t, j) ==
  LET row == [value |-> j, size |-> Size[j], created |-> now, accessed |-> now,
              expires |-> now + TTL]
      live == Without(t, Dead(t))
  IN Evict([k \in DOMAIN live \cup {Key[j]} |-> IF k = Key[j] THEN row ELSE live[k]],
           {Key[j]})

\* _get_operation: an expired row takes all expired rows with it, an old
\* access time is refreshed.
Read(t, k) ==
  IF k \notin DOMAIN t THEN t
  ELSE IF Expired(t[k]) THEN Without(t, Dead(t))
  ELSE IF now - t[k].accessed >= TouchInterval
       THEN [t EXCEPT ![k].accessed = now] ELSE t

\* Mutant: the expiry of the row that was found is not looked at.
FoundStale(t, k) == IF k \in DOMAIN t THEN t[k].value ELSE Missing

Found(t, k) ==
  IF k \in DOMAIN t /\ ~Expired(t[k]) THEN t[k].value ELSE Missing

\* _clear_operation, _prune_operation.
After(t, j) ==
  CASE Op[j] = "get"   -> Read(t, Key[j])
    [] Op[j] = "set"   -> Stored(t, j)
    [] Op[j] = "clear" -> None
    [] Op[j] = "prune" -> Evict(Without(t, Dead(t)), {})

-----------------------------------------------------------------------------
\* The worker thread.

\* What stays at the path when a log is taken is the table written back last.
TakeLog(i) ==
  /\ \E h \in Unused :
       /\ TakeLogOfAnother(i, h, IF saved[path] = None THEN "empty" ELSE "current")
       /\ rows' = [rows EXCEPT ![h] = saved[path]]
       /\ saved' = [saved EXCEPT ![h] = saved[path]]
  /\ UNCHANGED <<now, queue, busy, shut, job, reply, closer>>

OpenDatabase(i) == (Open(i) /\ UNCHANGED cacheVars) \/ TakeLog(i)

\* The log through which f is read is written back into the main file.  Those who
\* read the same main file through another log then find in it what was written
\* back, what they had, or nothing: SQLite promises them none of it.
Others(f) == {g \in Files \ {f} : main[g] = main[f]}
WriteBack(f, t) ==
  /\ saved' = [g \in Files |-> IF main[g] = main[f] THEN t ELSE saved[g]]
  /\ \E seen \in [Others(f) -> {t, None} \cup {rows[g] : g \in Others(f)}] :
       rows' = [g \in Files |-> IF g = f THEN t ELSE IF g \in Others(f) THEN seen[g] ELSE rows[g]]

\* A transaction that has changed the table goes to the log; SQLite may write a
\* long one back at once.
Commit(f, t) ==
  \/ rows' = [rows EXCEPT ![f] = t] /\ UNCHANGED saved
  \/ t # rows[f] /\ WriteBack(f, t)

Pop(i) == queue' = [queue EXCEPT ![i] = Tail(@)]

\* The next job; one whose caller has gone is skipped.
Take(i) ==
  /\ Available(i) /\ busy[i] = Nobody /\ queue[i] # <<>> /\ Head(queue[i]) \in Jobs
  /\ Pop(i)
  /\ busy' = [busy EXCEPT ![i] = IF job[Head(queue[i])] = "abandoned" THEN @
                                 ELSE Head(queue[i])]
  /\ UNCHANGED <<fileVars, rows, saved, now, shut, job, reply, closer>>

\* _run_operation: the transaction commits, and the result is posted.  The clock
\* is read just before the transaction; here both are one step.
Run(i) ==
  /\ busy[i] # Nobody
  /\ LET j == busy[i]
     IN /\ Commit(conn[i], After(rows[conn[i]], j))
        /\ Post({j}, IF Op[j] = "get" THEN Found(rows[conn[i]], Key[j]) ELSE "done")
  /\ busy' = [busy EXCEPT ![i] = Nobody]
  /\ UNCHANGED <<fileVars, now, queue, shut, closer>>

\* Contention until the deadline, or an error: rolled back, a miss or no-op.
RunFails(i) ==
  /\ busy[i] # Nobody
  /\ Post({busy[i]}, Missing)
  /\ busy' = [busy EXCEPT ![i] = Nobody]
  /\ UNCHANGED <<fileVars, rows, saved, now, queue, shut, closer>>

CloseDatabase(i) ==
  /\ CloseConnection(i)
  /\ IF WritesBack(i) THEN WriteBack(conn[i], rows[conn[i]]) ELSE UNCHANGED <<rows, saved>>

\* Mutant: the sentinel is taken before the work that is queued.
FinishCloseEarly(i) ==
  /\ Available(i) /\ busy[i] = Nobody /\ ToSet(queue[i]) \cap Closers # {}
  /\ CloseDatabase(i)
  /\ queue' = [queue EXCEPT ![i] = <<>>]
  /\ Post(ToSet(queue[i]), "unreachable")
  /\ UNCHANGED <<now, busy, shut, closer>>

\* The sentinel: the connection is closed, and what is still queued cannot run.
FinishClose(i) ==
  /\ Available(i) /\ busy[i] = Nobody /\ queue[i] # <<>> /\ Head(queue[i]) \in Closers
  /\ CloseDatabase(i)
  /\ queue' = [queue EXCEPT ![i] = <<>>]
  /\ Post(ToSet(queue[i]), "unreachable")
  /\ UNCHANGED <<now, busy, shut, closer>>

Tick ==
  /\ now < LastTick
  /\ now' = now + 1
  /\ UNCHANGED <<fileVars, rows, saved, queue, busy, shut, job, reply, closer>>

Next ==
  \/ \E j \in Jobs : Submit(j) \/ Cancel(j)
  \/ \E c \in Closers : Close(c) \/ CloseReturns(c) \/ CancelClose(c)
  \/ \E i \in Instances :
       OpenDatabase(i) \/ Take(i) \/ Run(i) \/ RunFails(i) \/ FinishClose(i)
  \/ Tick

\* The worker thread runs, and its deadline bounds every operation.
Work(i) == OpenDatabase(i) \/ Take(i) \/ Run(i) \/ RunFails(i) \/ FinishClose(i)
Fairness ==
  /\ \A i \in Instances : WF_vars(Work(i))
  /\ \A c \in Closers : WF_vars(CloseReturns(c))

Spec == Init /\ [][Next]_vars /\ Fairness

-----------------------------------------------------------------------------
\* What a job may do to a table t; u is what it leaves.
Protected(j) == IF Op[j] = "set" THEN {Key[j]} ELSE {}
ChangesSoundly(j, t, u) ==
  /\ Op[j] # "get" => Fits(u, DOMAIN u, MaxEntries, MaxBytes)
  /\ Op[j] = "get" => \A k \in DOMAIN u : k \in DOMAIN t /\ u[k].size = t[k].size
  /\ \A k \in Protected(j) : k \in DOMAIN u /\ u[k].value = j
  /\ Op[j] # "clear" =>
       \A k \in DOMAIN t \ DOMAIN u :
         Expired(t[k]) \/ \A l \in DOMAIN u \ Protected(j) : ~Staler(t, l, k)

\* A table of a file that no other shares changes only by a job that runs on it.  A write
\* leaves it within both limits, and a get neither adds to it nor enlarges an entry; a set
\* keeps the entry it has written, and no entry is evicted while a staler one stays
\* (sqlite_cache.py _evict).
EvictionIsSound ==
  [][\A f \in Files : rows'[f] # rows[f] =>
       \/ \E i \in Instances :
            /\ conn[i] = f /\ busy[i] \in Jobs /\ busy'[i] = Nobody
            /\ ChangesSoundly(busy[i], rows[f], rows'[f])
       \/ \E g \in Files \ {f} : main'[g] = main'[f]
    ]_vars

\* Closing runs the work that was queued ahead of it: no job that an instance
\* accepted is told it came too late, and a close that returns has left
\* neither a job nor the connection behind.
CloseDrainsQueue ==
  /\ \A j \in Jobs : reply[j] # {"unreachable"}
  /\ \A i \in Instances : phase[i] = "closed" => queue[i] = <<>> /\ busy[i] = Nobody

\* Every caller hears of its job, though the instance be disabled, contended
\* or closing, and every aclose() returns.
EverybodyIsAnswered ==
  /\ \A j \in Jobs : (job[j] = "waiting") ~> (job[j] \in {"answered", "abandoned"})
  /\ \A c \in Closers : (closer[c] = "waiting") ~> (closer[c] \in {"returned", "cancelled"})

\* The tables are a lossy cache: a get tells what is stored under its key and has not
\* expired, or nothing, whatever instances, evictions, expiries and cancelled callers do,
\* and whichever log is taken away.
Live(t, k) == IF k \in DOMAIN t \ Dead(t) THEN {t[k].value} ELSE {}
Lossy == INSTANCE LossyCache WITH
  Values <- Jobs \cup {"earlier"},
  Readers <- {j \in Jobs : Op[j] = "get"},
  Asked <- [j \in {j \in Jobs : Op[j] = "get"} |-> {Key[j]}],
  held <- [k \in Keys |-> UNION {Live(rows[f], k) \cup Live(saved[f], k) : f \in Files}],
  told <- [j \in {j \in Jobs : Op[j] = "get"} |-> reply[j]]
TableIsLossy == Lossy!Spec
=============================================================================
