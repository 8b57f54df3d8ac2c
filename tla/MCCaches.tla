--------------------------- MODULE MCCaches ------------------------------
(* On disk: two instances on one path.  The first overwrites an entry, gets *)
(* it and is closed; the second tidies up.  In memory: three keys, values   *)
(* of one to four bytes.                                                    *)
EXTENDS Caches

CONSTANTS a, b, k1, k2, put, get, tidy, close

MCOp == [j \in {put, get, tidy} |->
           CASE j = put -> "set" [] j = get -> "get" [] j = tidy -> "prune"]
MCKey == [j \in {put, get, tidy} |-> k2]
MCSize == [j \in {put, get, tidy} |-> 4]
MCAt == [j \in {put, get, tidy, close} |-> IF j = tidy THEN b ELSE a]
Row(size, accessed, expires) ==
  [value |-> "earlier", size |-> size, created |-> 0, accessed |-> accessed,
   expires |-> expires]
MCKeyOrder == {<<k1, k2>>}
MCPreloaded == [k \in {k1, k2} |-> IF k = k1 THEN Row(2, 1, 3) ELSE Row(2, 0, 2)]
CONSTANTS k3, r1, r2
MCValues == {<<1, 1>>, <<2, 1>>, <<3, 2>>, <<4, 4>>}
MCValueSize == [v \in MCValues |-> v[2]]
MCReaderKey == [r \in {r1, r2} |-> IF r = r1 THEN k1 ELSE k2]
=============================================================================
