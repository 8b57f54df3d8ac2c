----------------------------- MODULE MemoryCache -----------------------------
(***************************************************************************)
(* The caches of one process (perception/cache.py): MemoryLRUCache keeps    *)
(* values within a number of entries and of bytes and evicts the least      *)
(* recently used; NullCache keeps nothing.  Their methods hold a lock that  *)
(* is never kept across a suspension, so each call is one step.  A value's  *)
(* size is the length of its bytes, which set() verifies.                   *)
(***************************************************************************)
EXTENDS Naturals, Sequences, SequencesExt

CONSTANTS
  MemoryKeys, MemoryValues,
  ValueSize,          \* how many bytes each value has
  MemoryReaders,      \* calls of get()
  ReaderKey,          \* and the key of each
  MemoryMaxEntries, MemoryMaxBytes,
  Retains,            \* whether the cache may retain anything: NullCache does not
  NoValue             \* a miss

ASSUME MemoryAssumption ==
  /\ MemoryMaxEntries \in Nat \ {0} /\ MemoryMaxBytes \in Nat \ {0}
  /\ ValueSize \in [MemoryValues -> Nat \ {0}]
  /\ ReaderKey \in [MemoryReaders -> MemoryKeys] /\ Retains \subseteq BOOLEAN

VARIABLES
  retains,     \* this cache is a MemoryLRUCache
  entries,     \* _entries, the least recently used first
  totalBytes,  \* _total_bytes
  memoryShut,  \* _closed
  heard        \* what each get() has returned; {} before

memoryVars == <<retains, entries, totalBytes, memoryShut, heard>>

MemoryInit ==
  /\ retains \in Retains
  /\ entries = <<>> /\ totalBytes = 0 /\ memoryShut = FALSE
  /\ heard = [r \in MemoryReaders |-> {}]

Entry(k, v) == [key |-> k, value |-> v]
Place(s, k) == {n \in DOMAIN s : s[n].key = k}
Where(s, k) == CHOOSE n \in Place(s, k) : TRUE

\* OrderedDict.pop(): the entry under a key goes, if there is one.
Popped(s, k) == IF Place(s, k) = {} THEN s ELSE RemoveAt(s, Where(s, k))

\* How many bytes the first entries have.
BytesOf(s) ==
  LET sum[n \in 0..Len(s)] == IF n = 0 THEN 0 ELSE sum[n - 1] + ValueSize[s[n].value]
  IN sum
Total(s) == BytesOf(s)[Len(s)]

\* The value under a key, or a miss.
Lookup(k) == IF Place(entries, k) = {} THEN NoValue ELSE entries[Where(entries, k)].value

\* get(): a closed cache misses; a hit becomes the most recently used entry.
MemoryGet(r) ==
  /\ heard[r] = {}
  /\ LET k == ReaderKey[r]
     IN /\ heard' = [heard EXCEPT ![r] = {Lookup(k)}]
        /\ entries' = IF Lookup(k) = NoValue THEN entries
                      ELSE Append(Popped(entries, k), Entry(k, Lookup(k)))
  /\ UNCHANGED <<retains, totalBytes, memoryShut>>

\* _evict(): from the front, until both limits hold, each on what is counted.
Evicted(s, bytes) ==
  LET fits(n) == Len(s) - n <= MemoryMaxEntries /\ bytes - BytesOf(s)[n] <= MemoryMaxBytes
      n == CHOOSE n \in 0..Len(s) : fits(n) /\ \A m \in 0..(n - 1) : ~fits(m)
  IN [entries |-> SubSeq(s, n + 1, Len(s)), bytes |-> bytes - BytesOf(s)[n]]

Retain(e) == entries' = e.entries /\ totalBytes' = e.bytes

\* set(): a value that can never fit leaves the entry under its key alone.
MemorySet(k, v) ==
  /\ retains /\ ~memoryShut /\ ValueSize[v] <= MemoryMaxBytes
  /\ LET replaced == IF Place(entries, k) = {} THEN 0 ELSE ValueSize[Lookup(k)]
     IN Retain(Evicted(Append(Popped(entries, k), Entry(k, v)), totalBytes - replaced + ValueSize[v]))
  /\ UNCHANGED <<retains, memoryShut, heard>>

\* prune() of a healthy cache has nothing to do; clear() drops everything.
MemoryPrune ==
  /\ ~memoryShut /\ Retain(Evicted(entries, totalBytes))
  /\ UNCHANGED <<retains, memoryShut, heard>>

MemoryClear ==
  /\ ~memoryShut /\ entries' = <<>> /\ totalBytes' = 0
  /\ UNCHANGED <<retains, memoryShut, heard>>

MemoryClose ==
  /\ ~memoryShut /\ memoryShut' = TRUE /\ entries' = <<>> /\ totalBytes' = 0
  /\ UNCHANGED <<retains, heard>>

MemoryNext ==
  \/ \E r \in MemoryReaders : MemoryGet(r)
  \/ \E k \in MemoryKeys, v \in MemoryValues : MemorySet(k, v)
  \/ MemoryPrune \/ MemoryClear \/ MemoryClose

-----------------------------------------------------------------------------
\* Over any sequence of overwrites, reads and evictions the bytes counted are
\* the bytes held, both limits hold after every call, what is evicted was used
\* less recently than all that stays but the value just set, and one eviction
\* less would have been too few (cache.py set, _evict).
MemoryEvictsOldest ==
  [][LET gone(n) == Place(entries', entries[n].key) = {}
     IN /\ totalBytes' = Total(entries')
        /\ Len(entries') <= MemoryMaxEntries /\ totalBytes' <= MemoryMaxBytes
        /\ entries' # <<>> => \A n \in DOMAIN entries : gone(n) =>
             /\ \A m \in 1..(n - 1) : gone(m) \/ entries[m].key = Last(entries').key
             /\ (\A m \in (n + 1)..Len(entries) : ~gone(m)) =>
                  \/ Len(entries') + 1 > MemoryMaxEntries
                  \/ totalBytes' + ValueSize[entries[n].value] > MemoryMaxBytes
    ]_memoryVars

\* The cache is a lossy cache: a reader is told nothing, or what was set last
\* under its key.
MemoryLossy == INSTANCE LossyCache WITH
  Keys <- MemoryKeys,
  Values <- MemoryValues,
  Readers <- MemoryReaders,
  Asked <- [r \in MemoryReaders |-> {ReaderKey[r]}],
  Missing <- NoValue,
  held <- [k \in MemoryKeys |-> {Lookup(k)} \ {NoValue}],
  told <- heard
MemoryIsLossy == MemoryLossy!Spec
=============================================================================
