------------------------------- MODULE Caches -------------------------------
(***************************************************************************)
(* A client has one perception cache (client.py _default_cache): in memory, *)
(* disabled, or on disk, where other clients and processes use it too.  All *)
(* keep the contract LossyCache that the session relies on.                 *)
(***************************************************************************)
EXTENDS SQLiteCache, MemoryCache

VARIABLE medium  \* "disk" or "memory"

cachesVars == <<medium, vars, memoryVars>>

\* In memory there is no file and nobody opens one.
CachesInit ==
  /\ Init /\ MemoryInit
  /\ \/ medium = "disk" /\ retains = TRUE
     \/ medium = "memory" /\ path = NoFile

OnDisk(A) == medium = "disk" /\ A /\ UNCHANGED <<medium, memoryVars>>

CachesNext ==
  \/ OnDisk(Next)
  \/ medium = "memory" /\ MemoryNext /\ UNCHANGED <<medium, vars>>

CachesSpec ==
  /\ CachesInit /\ [][CachesNext]_cachesVars
  /\ \A i \in Instances : WF_cachesVars(OnDisk(Work(i)))
  /\ \A c \in Closers : WF_cachesVars(OnDisk(CloseReturns(c)))

-----------------------------------------------------------------------------
\* Whatever the medium, a cache loses what it is meant to lose and nothing else: entries by
\* eviction, in order and down to its limits, and no file (sqlite_cache.py _evict,
\* _quarantine; cache.py _evict).
LosesOnlyWhatIsStale == NothingIsDestroyed /\ EvictionIsSound /\ MemoryEvictsOldest

\* Both caches keep the contract.
ImplementsLossyCache == TableIsLossy /\ MemoryIsLossy
=============================================================================
