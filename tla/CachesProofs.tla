---------------------------- MODULE CachesProofs ----------------------------
(***************************************************************************)
(* Proofs about Caches for all keys, values, limits, jobs, instances and    *)
(* files: both caches implement the lossy contract, they lose only what is  *)
(* stale, a close runs what is queued, and no file is destroyed.            *)
(***************************************************************************)
EXTENDS Caches, SequenceTheorems, FiniteSetTheorems, WellFoundedInduction, TLAPS

-------------------------------------------------------------------------------
\* Sums over sequences.

LEMMA SetInduction ==
  ASSUME NEW T, 0 \in T, \A n \in Nat : n \in T => n + 1 \in T
  PROVE  Nat \subseteq T
<1> DEFINE R == OpToRel(<, Nat)
           U == Nat \ T
<1>1. IsWellFoundedOn(R, Nat)
  BY NatLessThanWellFounded
<1>2. \A m, p \in Nat : m < p => <<m, p>> \in R
  BY DEF OpToRel
<1> HIDE DEF R
<1> SUFFICES ASSUME U # {} PROVE FALSE
  OBVIOUS
<1> HIDE DEF U
<1>3. PICK n \in U : \A m \in U : ~ (<<m, n>> \in R)
  <2>1. U \subseteq Nat
    BY DEF U
  <2>2. QED
    BY <1>1, <2>1, WFMin
<1>4. n \in Nat /\ n # 0
  BY <1>3 DEF U
<1>5. n - 1 \in Nat /\ n - 1 < n /\ (n - 1) + 1 = n
  BY <1>4
<1>6. n - 1 \notin U
  BY <1>2, <1>3, <1>4, <1>5
<1>7. QED
  BY <1>3, <1>5, <1>6 DEF U

Entries == [key : MemoryKeys, value : MemoryValues]

SumExists(L, w) == \E f : f = [n \in 0..L |-> IF n = 0 THEN 0 ELSE f[n - 1] + w[n]]

LEMMA SumsExist == ASSUME NEW w PROVE \A L \in Nat : SumExists(L, w)
<1> DEFINE T == {L \in Nat : SumExists(L, w)}
<1>1. 0 \in T
  <2>1. [n \in 0..0 |-> 0] = [n \in 0..0 |-> IF n = 0 THEN 0 ELSE [m \in 0..0 |-> 0][n - 1] + w[n]]
    OBVIOUS
  <2>2. QED
    BY <2>1 DEF SumExists
<1>2. ASSUME NEW L \in Nat, L \in T PROVE L + 1 \in T
  <2>1. PICK f : f = [n \in 0..L |-> IF n = 0 THEN 0 ELSE f[n - 1] + w[n]]
    BY <1>2 DEF SumExists
  <2> DEFINE g == [n \in 0..(L + 1) |-> IF n = L + 1 THEN f[L] + w[L + 1] ELSE f[n]]
  <2>2. \A n \in 0..L : f[n] = IF n = 0 THEN 0 ELSE f[n - 1] + w[n]
    BY <2>1
  <2>3. \A n \in 0..(L + 1) : g[n] = IF n = 0 THEN 0 ELSE g[n - 1] + w[n]
    BY <2>2
  <2>4. g = [n \in 0..(L + 1) |-> IF n = 0 THEN 0 ELSE g[n - 1] + w[n]]
    BY <2>3
  <2> HIDE DEF g
  <2>5. SumExists(L + 1, w)
    BY <2>4 DEF SumExists
  <2>6. QED
    BY <2>5
<1> HIDE DEF T
<1>3. Nat \subseteq T
  BY <1>1, <1>2, SetInduction
<1>4. QED
  BY <1>3 DEF T

LEMMA BytesDefined ==
  ASSUME NEW s \in Seq(Entries)
  PROVE  /\ BytesOf(s)[0] = 0
         /\ \A n \in 1..Len(s) : BytesOf(s)[n] = BytesOf(s)[n - 1] + ValueSize[s[n].value]
<1> DEFINE w == [n \in 1..Len(s) |-> ValueSize[s[n].value]]
           f == BytesOf(s)
<1>1. Len(s) \in Nat
  BY LenProperties
<1>2. PICK g : g = [n \in 0..Len(s) |-> IF n = 0 THEN 0 ELSE g[n - 1] + w[n]]
  BY <1>1, SumsExist DEF SumExists
<1>3. g = [n \in 0..Len(s) |-> IF n = 0 THEN 0 ELSE g[n - 1] + ValueSize[s[n].value]]
  <2>1. \A n \in 0..Len(s) : n # 0 => w[n] = ValueSize[s[n].value]
    BY <1>1
  <2> HIDE DEF w
  <2>2. QED
    BY <1>2, <2>1
<1>4. f = [n \in 0..Len(s) |-> IF n = 0 THEN 0 ELSE f[n - 1] + ValueSize[s[n].value]]
  BY <1>3 DEF BytesOf
<1> HIDE DEF f
<1>5. \A n \in 0..Len(s) : f[n] = IF n = 0 THEN 0 ELSE f[n - 1] + ValueSize[s[n].value]
  BY <1>4
<1>6. QED
  BY <1>1, <1>5 DEF f

LEMMA SizesAreNat ==
  ASSUME NEW s \in Seq(Entries), NEW n \in 1..Len(s)
  PROVE  ValueSize[s[n].value] \in Nat \ {0}
<1>1. s[n] \in Entries
  BY ElementOfSeq
<1>2. QED
  BY <1>1, MemoryAssumption DEF Entries

LEMMA BytesAreNat ==
  ASSUME NEW s \in Seq(Entries)
  PROVE  \A n \in 0..Len(s) : BytesOf(s)[n] \in Nat
<1> DEFINE T == {n \in Nat : n <= Len(s) => BytesOf(s)[n] \in Nat}
<1>0. Len(s) \in Nat
  BY LenProperties
<1>1. 0 \in T
  BY BytesDefined
<1>2. ASSUME NEW n \in Nat, n \in T PROVE n + 1 \in T
  <2> SUFFICES ASSUME n + 1 <= Len(s) PROVE BytesOf(s)[n + 1] \in Nat
    OBVIOUS
  <2>1. n + 1 \in 1..Len(s) /\ (n + 1) - 1 = n /\ BytesOf(s)[n] \in Nat
    BY <1>0, <1>2
  <2>2. BytesOf(s)[n + 1] = BytesOf(s)[n] + ValueSize[s[n + 1].value]
    BY <2>1, BytesDefined
  <2>3. QED
    BY <2>1, <2>2, SizesAreNat
<1> HIDE DEF T
<1>3. Nat \subseteq T
  BY <1>1, <1>2, SetInduction
<1>4. QED
  BY <1>0, <1>3 DEF T

\* Sequences that agree up to a place have as many bytes up to it.
LEMMA BytesOfPrefix ==
  ASSUME NEW s \in Seq(Entries), NEW t \in Seq(Entries),
         NEW L \in Nat, L <= Len(s), L <= Len(t), \A n \in 1..L : s[n] = t[n]
  PROVE  \A n \in 0..L : BytesOf(s)[n] = BytesOf(t)[n]
<1> DEFINE T == {n \in Nat : n <= L => BytesOf(s)[n] = BytesOf(t)[n]}
<1>0. Len(s) \in Nat /\ Len(t) \in Nat
  BY LenProperties
<1>1. 0 \in T
  BY BytesDefined
<1>2. ASSUME NEW n \in Nat, n \in T PROVE n + 1 \in T
  <2> SUFFICES ASSUME n + 1 <= L PROVE BytesOf(s)[n + 1] = BytesOf(t)[n + 1]
    OBVIOUS
  <2>1. n + 1 \in 1..Len(s) /\ n + 1 \in 1..Len(t) /\ n + 1 \in 1..L /\ (n + 1) - 1 = n
        /\ BytesOf(s)[n] = BytesOf(t)[n]
    BY <1>0, <1>2
  <2>2. /\ BytesOf(s)[n + 1] = BytesOf(s)[n] + ValueSize[s[n + 1].value]
        /\ BytesOf(t)[n + 1] = BytesOf(t)[n] + ValueSize[t[n + 1].value]
    BY <2>1, BytesDefined
  <2>3. QED
    BY <2>1, <2>2
<1> HIDE DEF T
<1>3. Nat \subseteq T
  BY <1>1, <1>2, SetInduction
<1>4. QED
  BY <1>0, <1>3 DEF T

LEMMA TotalOfAppend ==
  ASSUME NEW s \in Seq(Entries), NEW e \in Entries
  PROVE  Total(Append(s, e)) = Total(s) + ValueSize[e.value]
<1> DEFINE t == Append(s, e)
<1>1. /\ t \in Seq(Entries) /\ Len(t) = Len(s) + 1 /\ Len(s) \in Nat /\ t[Len(s) + 1] = e
      /\ \A n \in 1..Len(s) : t[n] = s[n]
  BY AppendProperties, LenProperties
<1> HIDE DEF t
<1>2. BytesOf(s)[Len(s)] = BytesOf(t)[Len(s)]
  <2>1. \A n \in 0..Len(s) : BytesOf(s)[n] = BytesOf(t)[n]
    BY <1>1, BytesOfPrefix
  <2>2. QED
    BY <1>1, <2>1
<1>3. Len(s) + 1 \in 1..Len(t) /\ (Len(s) + 1) - 1 = Len(s)
  BY <1>1
<1>4. BytesOf(t)[Len(s) + 1] = BytesOf(t)[Len(s)] + ValueSize[e.value]
  BY <1>1, <1>3, BytesDefined
<1>5. QED
  BY <1>1, <1>2, <1>4 DEF Total, t

\* What is left when the first entries go has the other bytes.
LEMMA TotalOfRest ==
  ASSUME NEW s \in Seq(Entries), NEW k \in 0..Len(s)
  PROVE  LET t == SubSeq(s, k + 1, Len(s))
         IN /\ t \in Seq(Entries) /\ Len(t) = Len(s) - k
            /\ \A m \in 1..(Len(s) - k) : t[m] = s[k + m]
            /\ Total(t) = Total(s) - BytesOf(s)[k]
<1> DEFINE t == SubSeq(s, k + 1, Len(s))
           T == {m \in Nat : m <= Len(t) => BytesOf(t)[m] = BytesOf(s)[k + m] - BytesOf(s)[k]}
<1>0. Len(s) \in Nat /\ k \in Nat
  BY LenProperties
<1>1. /\ t \in Seq(Entries) /\ Len(t) = Len(s) - k
      /\ \A m \in 1..(Len(s) - k) : t[m] = s[k + m]
  BY <1>0
<1> HIDE DEF t
<1>2. 0 \in T
  BY <1>0, BytesDefined, BytesAreNat, <1>1
<1>3. ASSUME NEW m \in Nat, m \in T PROVE m + 1 \in T
  <2> SUFFICES ASSUME m + 1 <= Len(t) PROVE BytesOf(t)[m + 1] = BytesOf(s)[k + (m + 1)] - BytesOf(s)[k]
    OBVIOUS
  <2>1. m + 1 \in 1..Len(t) /\ k + (m + 1) \in 1..Len(s) /\ (m + 1) - 1 = m
        /\ (k + (m + 1)) - 1 = k + m /\ m <= Len(t) /\ k + m \in 0..Len(s) /\ m \in 0..Len(t)
        /\ m + 1 \in 1..(Len(s) - k)
    BY <1>0, <1>1
  <2>2. BytesOf(t)[m] = BytesOf(s)[k + m] - BytesOf(s)[k]
    BY <1>3, <2>1
  <2>3. /\ BytesOf(t)[m + 1] = BytesOf(t)[m] + ValueSize[t[m + 1].value]
        /\ BytesOf(s)[k + (m + 1)] = BytesOf(s)[k + m] + ValueSize[s[k + (m + 1)].value]
    BY <1>1, <2>1, BytesDefined
  <2>4. t[m + 1] = s[k + (m + 1)] /\ ValueSize[t[m + 1].value] \in Nat
    BY <1>1, <2>1, SizesAreNat
  <2>5. BytesOf(s)[k + m] \in Nat /\ BytesOf(s)[k] \in Nat
    BY <1>0, <2>1, BytesAreNat
  <2>6. QED
    BY <2>2, <2>3, <2>4, <2>5
<1> HIDE DEF T
<1>4. Nat \subseteq T
  BY <1>2, <1>3, SetInduction
<1>5. Total(t) = Total(s) - BytesOf(s)[k]
  <2>1. Len(t) \in T /\ k + Len(t) = Len(s)
    BY <1>0, <1>1, <1>4
  <2>2. QED
    BY <1>1, <2>1 DEF T, Total
<1>6. QED
  BY <1>1, <1>5 DEF t

LEMMA RemoveAtProperties ==
  ASSUME NEW s \in Seq(Entries), NEW k \in 1..Len(s)
  PROVE  /\ RemoveAt(s, k) \in Seq(Entries)
         /\ Len(RemoveAt(s, k)) = Len(s) - 1
         /\ \A j \in 1..(Len(s) - 1) : RemoveAt(s, k)[j] = IF j < k THEN s[j] ELSE s[j + 1]
<1>0. Len(s) \in Nat /\ k \in Nat /\ \A j \in 1..Len(s) : s[j] \in Entries
  BY LenProperties, ElementOfSeq
<1> DEFINE a == SubSeq(s, 1, k - 1)
           b == SubSeq(s, k + 1, Len(s))
<1>3. a \in Seq(Entries) /\ Len(a) = k - 1 /\ \A j \in 1..(k - 1) : a[j] = s[j]
  BY <1>0
<1>4. b \in Seq(Entries) /\ Len(b) = Len(s) - k /\ \A j \in 1..(Len(s) - k) : b[j] = s[k + j]
  BY <1>0
<1>5. RemoveAt(s, k) = a \o b
  BY DEF RemoveAt
<1> HIDE DEF a, b
<1>6. /\ a \o b \in Seq(Entries) /\ Len(a \o b) = Len(a) + Len(b)
      /\ \A i \in 1..Len(a) + Len(b) : (a \o b)[i] = IF i <= Len(a) THEN a[i] ELSE b[i - Len(a)]
  BY <1>3, <1>4, ConcatProperties
<1>7. Len(a \o b) = Len(s) - 1
  BY <1>0, <1>3, <1>4, <1>6
<1>8. ASSUME NEW j \in 1..(Len(s) - 1)
      PROVE  (a \o b)[j] = IF j < k THEN s[j] ELSE s[j + 1]
  <2>1. CASE j < k
    BY <1>0, <1>3, <1>4, <1>6, <2>1
  <2>2. CASE j >= k
    <3>1. b[j - (k - 1)] = s[k + (j - (k - 1))]
      BY <1>0, <1>4, <2>2
    <3>2. (a \o b)[j] = b[j - (k - 1)]
      BY <1>0, <1>3, <1>4, <1>6, <2>2
    <3>3. k + (j - (k - 1)) = j + 1
      BY <1>0
    <3>4. QED
      BY <1>0, <2>2, <3>1, <3>2, <3>3
  <2>3. j < k \/ j >= k
    BY <1>0
  <2>4. QED
    BY <2>1, <2>2, <2>3
<1>9. QED
  BY <1>5, <1>6, <1>7, <1>8

LEMMA TotalOfRemoveAt ==
  ASSUME NEW s \in Seq(Entries), NEW k \in 1..Len(s)
  PROVE  Total(RemoveAt(s, k)) = Total(s) - ValueSize[s[k].value]
<1> DEFINE t == RemoveAt(s, k)
           size == ValueSize[s[k].value]
           T == {m \in Nat : k - 1 <= m /\ m <= Len(t) => BytesOf(t)[m] = BytesOf(s)[m + 1] - size}
<1>0. Len(s) \in Nat /\ k \in Nat /\ size \in Nat
  BY LenProperties, SizesAreNat
<1>1. /\ t \in Seq(Entries) /\ Len(t) = Len(s) - 1
      /\ \A j \in 1..(Len(s) - 1) : t[j] = IF j < k THEN s[j] ELSE s[j + 1]
  BY RemoveAtProperties
<1> HIDE DEF t, size
<1>2. BytesOf(t)[k - 1] = BytesOf(s)[k] - size
  <2>1. k - 1 \in Nat /\ k - 1 <= Len(s) /\ k - 1 <= Len(t) /\ \A n \in 1..(k - 1) : t[n] = s[n]
    BY <1>0, <1>1
  <2>2. BytesOf(t)[k - 1] = BytesOf(s)[k - 1]
    <3>1. \A n \in 0..(k - 1) : BytesOf(t)[n] = BytesOf(s)[n]
      BY <1>1, <2>1, BytesOfPrefix
    <3>2. QED
      BY <2>1, <3>1
  <2>3. BytesOf(s)[k] = BytesOf(s)[k - 1] + size
    BY BytesDefined DEF size
  <2>4. BytesOf(s)[k - 1] \in Nat
    BY <1>0, <2>1, BytesAreNat
  <2>5. QED
    BY <1>0, <2>2, <2>3, <2>4
<1>3. 0 \in T
  BY <1>0, <1>2
<1>4. ASSUME NEW m \in Nat, m \in T PROVE m + 1 \in T
  <2> SUFFICES ASSUME k - 1 <= m + 1, m + 1 <= Len(t)
               PROVE  BytesOf(t)[m + 1] = BytesOf(s)[(m + 1) + 1] - size
    OBVIOUS
  <2>1. CASE k - 1 = m + 1
    <3>1. (m + 1) + 1 = k
      BY <1>0, <2>1
    <3>2. QED
      BY <1>2, <2>1, <3>1
  <2>2. CASE k - 1 # m + 1
    <3>1. /\ k - 1 <= m /\ m <= Len(t) /\ m + 1 \in 1..Len(t) /\ (m + 1) + 1 \in 1..Len(s)
          /\ (m + 1) - 1 = m /\ ((m + 1) + 1) - 1 = m + 1 /\ m + 1 \in 1..(Len(s) - 1) /\ ~ (m + 1 < k)
          /\ m + 1 \in 0..Len(s)
      BY <1>0, <1>1, <2>2
    <3>2. BytesOf(t)[m] = BytesOf(s)[m + 1] - size
      BY <1>4, <3>1
    <3>3. /\ BytesOf(t)[m + 1] = BytesOf(t)[m] + ValueSize[t[m + 1].value]
          /\ BytesOf(s)[(m + 1) + 1] = BytesOf(s)[m + 1] + ValueSize[s[(m + 1) + 1].value]
      BY <1>1, <3>1, BytesDefined
    <3>4. t[m + 1] = s[(m + 1) + 1] /\ ValueSize[t[m + 1].value] \in Nat
      BY <1>1, <3>1, SizesAreNat
    <3>5. BytesOf(s)[m + 1] \in Nat
      BY <3>1, BytesAreNat
    <3>6. QED
      BY <1>0, <3>2, <3>3, <3>4, <3>5
  <2>3. QED
    BY <2>1, <2>2
<1> HIDE DEF T
<1>5. Nat \subseteq T
  BY <1>3, <1>4, SetInduction
<1>6. Len(t) \in T /\ k - 1 <= Len(t) /\ Len(t) + 1 = Len(s)
  BY <1>0, <1>1, <1>5
<1>7. QED
  BY <1>1, <1>6 DEF T, Total, t, size

-------------------------------------------------------------------------------
\* The value a sequence of entries has under a key.

Distinct(s) == \A m, n \in 1..Len(s) : s[m].key = s[n].key => m = n
ValueIn(s, k) == IF Place(s, k) = {} THEN NoValue ELSE s[Where(s, k)].value

LEMMA LookupIsValue == \A k : Lookup(k) = ValueIn(entries, k)
BY DEF Lookup, ValueIn

LEMMA Places ==
  ASSUME NEW s \in Seq(Entries), NEW k
  PROVE  /\ \A n : n \in Place(s, k) <=> n \in 1..Len(s) /\ s[n].key = k
         /\ Place(s, k) # {} => Where(s, k) \in 1..Len(s) /\ s[Where(s, k)].key = k
<1>1. DOMAIN s = 1..Len(s)
  BY LenProperties
<1>2. \A n : n \in Place(s, k) <=> n \in 1..Len(s) /\ s[n].key = k
  BY <1>1 DEF Place
<1>3. Place(s, k) # {} => Where(s, k) \in Place(s, k)
  BY DEF Where
<1>4. QED
  BY <1>2, <1>3

LEMMA ValueAt ==
  ASSUME NEW s \in Seq(Entries), Distinct(s), NEW n \in 1..Len(s)
  PROVE  ValueIn(s, s[n].key) = s[n].value
<1> DEFINE k == s[n].key
<1>1. n \in Place(s, k) /\ Where(s, k) \in 1..Len(s) /\ s[Where(s, k)].key = k
  BY Places
<1>2. Where(s, k) = n
  BY <1>1 DEF Distinct
<1>3. QED
  BY <1>1, <1>2 DEF ValueIn

LEMMA ValueNowhere ==
  ASSUME NEW s \in Seq(Entries), NEW k, \A n \in 1..Len(s) : s[n].key # k
  PROVE  ValueIn(s, k) = NoValue
BY Places DEF ValueIn

LEMMA ValueSomewhere ==
  ASSUME NEW s \in Seq(Entries), Distinct(s), NEW k
  PROVE  \/ \E n \in 1..Len(s) : s[n].key = k /\ ValueIn(s, k) = s[n].value
         \/ (\A n \in 1..Len(s) : s[n].key # k) /\ ValueIn(s, k) = NoValue
BY ValueAt, ValueNowhere

\* OrderedDict.pop() takes the entry under the key and keeps the others in order.
LEMMA PoppedProperties ==
  ASSUME NEW s \in Seq(Entries), Distinct(s), NEW k
  PROVE  LET t == Popped(s, k)
             pos(q) == IF Place(s, k) = {} \/ q < Where(s, k) THEN q ELSE q + 1
         IN /\ t \in Seq(Entries) /\ Distinct(t) /\ Len(t) <= Len(s)
            /\ \A q \in 1..Len(t) : pos(q) \in 1..Len(s) /\ t[q] = s[pos(q)] /\ t[q].key # k
            /\ \A p \in 1..Len(s) : s[p].key # k => \E q \in 1..Len(t) : pos(q) = p
            /\ \A l : l # k => ValueIn(t, l) = ValueIn(s, l)
<1> DEFINE t == Popped(s, k)
           w == Where(s, k)
           pos(q) == IF Place(s, k) = {} \/ q < w THEN q ELSE q + 1
<1>0. Len(s) \in Nat
  BY LenProperties
<1>1. /\ t \in Seq(Entries) /\ Len(t) <= Len(s) /\ Len(t) \in Nat
      /\ \A q \in 1..Len(t) : pos(q) \in 1..Len(s) /\ t[q] = s[pos(q)]
      /\ \A q \in 1..Len(t) : s[pos(q)].key # k
      /\ \A p \in 1..Len(s) : s[p].key # k => \E q \in 1..Len(t) : pos(q) = p
  <2>1. CASE Place(s, k) = {}
    <3>1. t = s
      BY <2>1 DEF Popped
    <3>2. \A q : pos(q) = q
      BY <2>1
    <3>3. \A n \in 1..Len(s) : s[n].key # k
      BY <2>1, Places
    <3> HIDE DEF t, pos
    <3>4. QED
      BY <1>0, <3>1, <3>2, <3>3
  <2>2. CASE Place(s, k) # {}
    <3>1. t = RemoveAt(s, w)
      BY <2>2 DEF Popped
    <3>2. w \in 1..Len(s) /\ s[w].key = k
      BY <2>2, Places
    <3>3. \A q : pos(q) = IF q < w THEN q ELSE q + 1
      BY <2>2
    <3> HIDE DEF t, pos, w
    <3>4. /\ t \in Seq(Entries) /\ Len(t) = Len(s) - 1
          /\ \A j \in 1..(Len(s) - 1) : t[j] = IF j < w THEN s[j] ELSE s[j + 1]
      BY <3>1, <3>2, RemoveAtProperties
    <3>5. \A q \in 1..Len(t) : pos(q) \in 1..Len(s) /\ t[q] = s[pos(q)] /\ pos(q) # w
      BY <1>0, <3>2, <3>3, <3>4
    <3>6. \A q \in 1..Len(t) : s[pos(q)].key # k
      BY <3>2, <3>5 DEF Distinct
    <3>7. ASSUME NEW p \in 1..Len(s), s[p].key # k PROVE \E q \in 1..Len(t) : pos(q) = p
      <4>1. p # w
        BY <3>2, <3>7
      <4>2. CASE p < w
        BY <1>0, <3>2, <3>3, <3>4, <4>2
      <4>3. CASE p > w
        <5>1. p - 1 \in 1..Len(t) /\ ~ (p - 1 < w) /\ (p - 1) + 1 = p
          BY <1>0, <3>2, <3>4, <4>3
        <5>2. pos(p - 1) = p
          BY <3>3, <5>1
        <5>3. QED
          BY <5>1, <5>2
      <4>4. QED
        BY <1>0, <3>2, <4>1, <4>2, <4>3
    <3>8. QED
      BY <1>0, <3>4, <3>5, <3>6, <3>7
  <2>3. QED
    BY <2>1, <2>2
<1>2. \A q, r \in 1..Len(t) : pos(q) = pos(r) => q = r
  <2>0. w \in Int \/ Place(s, k) = {}
    BY Places
  <2>1. CASE Place(s, k) = {}
    BY <2>1
  <2>2. CASE w \in Int /\ Place(s, k) # {}
    <3> HIDE DEF t, w
    <3>1. QED
      BY <1>1, <2>2
  <2>3. QED
    BY <2>0, <2>1, <2>2
<1> HIDE DEF t, pos, w
<1>3. Distinct(t)
  <2> SUFFICES ASSUME NEW m \in 1..Len(t), NEW n \in 1..Len(t), t[m].key = t[n].key PROVE m = n
    BY DEF Distinct
  <2>1. s[pos(m)].key = s[pos(n)].key
    BY <1>1
  <2>2. QED
    BY <1>1, <1>2, <2>1 DEF Distinct
<1>4. ASSUME NEW l, l # k PROVE ValueIn(t, l) = ValueIn(s, l)
  <2>1. CASE \E n \in 1..Len(s) : s[n].key = l
    <3>1. PICK n \in 1..Len(s) : s[n].key = l
      BY <2>1
    <3>2. PICK q \in 1..Len(t) : pos(q) = n
      BY <1>1, <1>4, <3>1
    <3>3. t[q] = s[n]
      BY <1>1, <3>2
    <3>4. QED
      BY <1>1, <1>3, <3>1, <3>3, ValueAt
  <2>2. CASE \A n \in 1..Len(s) : s[n].key # l
    <3>1. \A q \in 1..Len(t) : t[q].key # l
      BY <1>1, <2>2
    <3>2. QED
      BY <1>1, <2>2, <3>1, ValueNowhere
  <2>3. QED
    BY <2>1, <2>2
<1>5. \A q \in 1..Len(t) : t[q].key # k
  BY <1>1
<1>6. QED
  BY <1>1, <1>3, <1>4, <1>5 DEF t, pos, w

LEMMA TotalOfPopped ==
  ASSUME NEW s \in Seq(Entries), NEW k
  PROVE  Total(Popped(s, k)) = Total(s) - (IF Place(s, k) = {} THEN 0 ELSE ValueSize[ValueIn(s, k)])
<1>0. Total(s) \in Nat
  BY BytesAreNat, LenProperties DEF Total
<1>1. CASE Place(s, k) = {}
  BY <1>0, <1>1 DEF Popped
<1>2. CASE Place(s, k) # {}
  <2>1. Where(s, k) \in 1..Len(s)
    BY <1>2, Places
  <2>2. Popped(s, k) = RemoveAt(s, Where(s, k)) /\ ValueIn(s, k) = s[Where(s, k)].value
    BY <1>2 DEF Popped, ValueIn
  <2>3. QED
    BY <1>2, <2>1, <2>2, TotalOfRemoveAt
<1>3. QED
  BY <1>1, <1>2

LEMMA ValueAfterAppend ==
  ASSUME NEW s \in Seq(Entries), Distinct(s), NEW k \in MemoryKeys, NEW v \in MemoryValues,
         \A n \in 1..Len(s) : s[n].key # k
  PROVE  LET t == Append(s, Entry(k, v))
         IN /\ t \in Seq(Entries) /\ Distinct(t) /\ Len(t) = Len(s) + 1
            /\ t[Len(s) + 1] = Entry(k, v) /\ \A n \in 1..Len(s) : t[n] = s[n]
            /\ ValueIn(t, k) = v
            /\ \A l : l # k => ValueIn(t, l) = ValueIn(s, l)
<1> DEFINE e == Entry(k, v)
           t == Append(s, e)
<1>0. e \in Entries /\ e.key = k /\ e.value = v
  BY DEF Entries, Entry
<1>1. /\ t \in Seq(Entries) /\ Len(t) = Len(s) + 1 /\ Len(s) \in Nat /\ t[Len(s) + 1] = e
      /\ \A n \in 1..Len(s) : t[n] = s[n]
  BY <1>0, AppendProperties, LenProperties
<1> HIDE DEF t, e
<1>2. \A n \in 1..Len(t) : n \in 1..Len(s) \/ n = Len(s) + 1
  BY <1>1
<1>3. Distinct(t)
  BY <1>0, <1>1, <1>2 DEF Distinct
<1>4. ValueIn(t, k) = v
  <2>1. Len(s) + 1 \in 1..Len(t)
    BY <1>1
  <2>2. QED
    BY <1>0, <1>1, <1>3, <2>1, ValueAt
<1>5. ASSUME NEW l, l # k PROVE ValueIn(t, l) = ValueIn(s, l)
  <2>1. CASE \E n \in 1..Len(s) : s[n].key = l
    <3>1. PICK n \in 1..Len(s) : s[n].key = l
      BY <2>1
    <3>2. n \in 1..Len(t) /\ t[n] = s[n]
      BY <1>1
    <3>3. QED
      BY <1>1, <1>3, <3>1, <3>2, ValueAt
  <2>2. CASE \A n \in 1..Len(s) : s[n].key # l
    <3>1. \A n \in 1..Len(t) : t[n].key # l
      BY <1>0, <1>1, <1>2, <1>5, <2>2
    <3>2. QED
      BY <1>1, <2>2, <3>1, ValueNowhere
  <2>3. QED
    BY <2>1, <2>2
<1>6. QED
  BY <1>1, <1>3, <1>4, <1>5 DEF t, e

\* _evict() drops the fewest entries from the front with which both limits hold.
LEMMA EvictedProperties ==
  ASSUME NEW s \in Seq(Entries), Distinct(s)
  PROVE  \E n \in 0..Len(s) :
           LET t == SubSeq(s, n + 1, Len(s))
           IN /\ Evicted(s, Total(s)) = [entries |-> t, bytes |-> Total(t)]
              /\ t \in Seq(Entries) /\ Distinct(t) /\ Len(t) = Len(s) - n
              /\ \A m \in 1..Len(t) : t[m] = s[n + m]
              /\ Total(t) \in Nat /\ Total(t) <= MemoryMaxBytes /\ Len(t) <= MemoryMaxEntries
              /\ n # 0 => Len(t) + 1 > MemoryMaxEntries
                          \/ Total(t) + ValueSize[s[n].value] > MemoryMaxBytes
              /\ Len(s) <= MemoryMaxEntries /\ Total(s) <= MemoryMaxBytes => n = 0
              /\ \A l : ValueIn(t, l) \in {ValueIn(s, l), NoValue}
<1> DEFINE fits(n) == Len(s) - n <= MemoryMaxEntries /\ Total(s) - BytesOf(s)[n] <= MemoryMaxBytes
           least(n) == fits(n) /\ \A m \in 0..(n - 1) : ~fits(m)
<1>0. Len(s) \in Nat /\ MemoryMaxEntries \in Nat /\ MemoryMaxBytes \in Nat
  BY LenProperties, MemoryAssumption
<1>00. \A n \in 0..Len(s) : BytesOf(s)[n] \in Nat
  BY BytesAreNat
<1>01. Total(s) \in Nat /\ Total(s) = BytesOf(s)[Len(s)]
  BY <1>0, <1>00 DEF Total
<1>1. fits(Len(s))
  BY <1>0, <1>01
<1>2. \E n \in 0..Len(s) : least(n)
  <2> SUFFICES ASSUME \A n \in 0..Len(s) : ~least(n) PROVE FALSE
    OBVIOUS
  <2> DEFINE T == {n \in Nat : n <= Len(s) => \A m \in 0..n : ~fits(m)}
  <2>1. ~fits(0)
    <3>1. \A m \in 0..(0 - 1) : ~fits(m)
      OBVIOUS
    <3>2. ~least(0) /\ (fits(0) => least(0))
      BY <1>0, <3>1
    <3> HIDE DEF fits, least
    <3>3. QED
      BY <3>2
  <2> HIDE DEF fits
  <2>2. 0 \in T
    BY <2>1
  <2>3. ASSUME NEW n \in Nat, n \in T PROVE n + 1 \in T
    <3> SUFFICES ASSUME n + 1 <= Len(s) PROVE \A m \in 0..(n + 1) : ~fits(m)
      OBVIOUS
    <3>1. n <= Len(s) /\ n + 1 \in 0..Len(s) /\ (n + 1) - 1 = n
      BY <1>0
    <3>2. \A m \in 0..n : ~fits(m)
      BY <2>3, <3>1
    <3>3. ~fits(n + 1)
      BY <3>1, <3>2
    <3>4. \A m \in 0..(n + 1) : m \in 0..n \/ m = n + 1
      OBVIOUS
    <3>5. QED
      BY <3>2, <3>3, <3>4
  <2> HIDE DEF T
  <2>4. Nat \subseteq T
    BY <2>2, <2>3, SetInduction
  <2>5. Len(s) \in T
    BY <1>0, <2>4
  <2>6. QED
    BY <1>0, <1>1, <2>5 DEF T
<1> DEFINE n == CHOOSE n \in 0..Len(s) : least(n)
<1>3. n \in 0..Len(s) /\ least(n)
  BY <1>2
<1>4. Evicted(s, Total(s)) = [entries |-> SubSeq(s, n + 1, Len(s)), bytes |-> Total(s) - BytesOf(s)[n]]
  BY DEF Evicted
<1> HIDE DEF n
<1>5. (Len(s) <= MemoryMaxEntries /\ Total(s) <= MemoryMaxBytes) => n = 0
  <2> SUFFICES ASSUME Len(s) <= MemoryMaxEntries, Total(s) <= MemoryMaxBytes, n # 0 PROVE FALSE
    OBVIOUS
  <2>1. 0 \in 0..(n - 1)
    BY <1>0, <1>3
  <2>2. ~fits(0)
    BY <1>3, <2>1
  <2>3. BytesOf(s)[0] = 0
    BY BytesDefined
  <2>4. QED
    BY <1>0, <1>01, <2>2, <2>3
<1> DEFINE t == SubSeq(s, n + 1, Len(s))
<1>6. /\ t \in Seq(Entries) /\ Len(t) = Len(s) - n
      /\ \A m \in 1..(Len(s) - n) : t[m] = s[n + m]
      /\ Total(t) = Total(s) - BytesOf(s)[n]
  BY <1>3, TotalOfRest
<1> HIDE DEF t
<1>7. Len(t) <= MemoryMaxEntries /\ Total(t) <= MemoryMaxBytes
  BY <1>3, <1>6
<1>8. n # 0 => Len(t) + 1 > MemoryMaxEntries \/ Total(t) + ValueSize[s[n].value] > MemoryMaxBytes
  <2> SUFFICES ASSUME n # 0
               PROVE  Len(t) + 1 > MemoryMaxEntries \/ Total(t) + ValueSize[s[n].value] > MemoryMaxBytes
    OBVIOUS
  <2>1. n - 1 \in 0..(n - 1) /\ n \in 1..Len(s) /\ n - 1 \in 0..Len(s)
    BY <1>0, <1>3
  <2>2. ~fits(n - 1)
    BY <1>3, <2>1
  <2>3. BytesOf(s)[n] = BytesOf(s)[n - 1] + ValueSize[s[n].value] /\ ValueSize[s[n].value] \in Nat
    BY <2>1, BytesDefined, SizesAreNat
  <2>4. BytesOf(s)[n - 1] \in Nat /\ BytesOf(s)[n] \in Nat
    BY <1>00, <1>3, <2>1
  <2>5. Total(t) + ValueSize[s[n].value] = Total(s) - BytesOf(s)[n - 1]
    BY <1>01, <1>6, <2>3, <2>4
  <2>6. Len(t) + 1 = Len(s) - (n - 1)
    BY <1>0, <1>3, <1>6
  <2>7. QED
    BY <1>0, <1>01, <2>2, <2>4, <2>5, <2>6
<1> HIDE DEF fits, least
<1>9. Distinct(t)
  <2> SUFFICES ASSUME NEW i \in 1..Len(t), NEW j \in 1..Len(t), t[i].key = t[j].key PROVE i = j
    BY DEF Distinct
  <2>1. n + i \in 1..Len(s) /\ n + j \in 1..Len(s) /\ t[i] = s[n + i] /\ t[j] = s[n + j]
    BY <1>0, <1>3, <1>6
  <2>2. n + i = n + j
    BY <2>1 DEF Distinct
  <2>3. QED
    BY <1>3, <2>2
<1>10. ASSUME NEW l PROVE ValueIn(t, l) \in {ValueIn(s, l), NoValue}
  <2>1. CASE \E i \in 1..Len(t) : t[i].key = l
    <3>1. PICK i \in 1..Len(t) : t[i].key = l
      BY <2>1
    <3>2. n + i \in 1..Len(s) /\ t[i] = s[n + i]
      BY <1>0, <1>3, <1>6
    <3>3. ValueIn(t, l) = t[i].value
      BY <1>6, <1>9, <3>1, ValueAt
    <3>4. ValueIn(s, l) = s[n + i].value
      BY <3>1, <3>2, ValueAt
    <3>5. QED
      BY <3>2, <3>3, <3>4
  <2>2. CASE \A i \in 1..Len(t) : t[i].key # l
    BY <1>6, <2>2, ValueNowhere
  <2>3. QED
    BY <2>1, <2>2
<1>11. Evicted(s, Total(s)) = [entries |-> t, bytes |-> Total(t)]
  BY <1>4, <1>6 DEF t
<1>12. Total(t) \in Nat
  BY <1>6, BytesAreNat, LenProperties DEF Total
<1>13. \A m \in 1..Len(t) : t[m] = s[n + m]
  BY <1>6
<1>14. QED
  BY <1>3, <1>5, <1>6, <1>7, <1>8, <1>9, <1>10, <1>11, <1>12, <1>13 DEF t

-------------------------------------------------------------------------------
\* The memory cache.

MemoryInv ==
  /\ entries \in Seq(Entries) /\ Distinct(entries)
  /\ totalBytes = Total(entries)
  /\ Len(entries) <= MemoryMaxEntries /\ totalBytes <= MemoryMaxBytes
  /\ DOMAIN heard = MemoryReaders

Gone(n) == Place(entries', entries[n].key) = {}

\* What MemoryEvictsOldest says of a step.
OldestGoes ==
  /\ totalBytes' = Total(entries')
  /\ Len(entries') <= MemoryMaxEntries /\ totalBytes' <= MemoryMaxBytes
  /\ entries' # <<>> => \A n \in DOMAIN entries : Gone(n) =>
       /\ \A m \in 1..(n - 1) : Gone(m) \/ entries[m].key = Last(entries').key
       /\ (\A m \in (n + 1)..Len(entries) : ~Gone(m)) =>
            \/ Len(entries') + 1 > MemoryMaxEntries
            \/ totalBytes' + ValueSize[entries[n].value] > MemoryMaxBytes

LEMMA MemoryLooksUp ==
  /\ \A k : Lookup(k) = ValueIn(entries, k)
  /\ \A k : Lookup(k)' = ValueIn(entries', k)
BY DEF Lookup, ValueIn

LEMMA EmptyCache ==
  /\ <<>> \in Seq(Entries) /\ Distinct(<<>>) /\ Total(<<>>) = 0
  /\ Len(<<>>) <= MemoryMaxEntries /\ 0 <= MemoryMaxBytes
  /\ \A k : ValueIn(<<>>, k) = NoValue
<1>1. <<>> \in Seq(Entries) /\ Len(<<>>) = 0
  BY EmptySeq
<1>2. \A n \in 1..0 : FALSE
  OBVIOUS
<1>3. Total(<<>>) = 0
  BY <1>1, BytesDefined DEF Total
<1>4. \A k : ValueIn(<<>>, k) = NoValue
  BY <1>1, <1>2, ValueNowhere
<1>5. QED
  BY <1>1, <1>2, <1>3, <1>4, MemoryAssumption DEF Distinct

\* A hit moves the entry to the back and changes nothing else.
LEMMA GetStep ==
  ASSUME MemoryInv, NEW r \in MemoryReaders, MemoryGet(r)
  PROVE  /\ MemoryInv' /\ OldestGoes
         /\ heard[r] = {} /\ heard' = [heard EXCEPT ![r] = {ValueIn(entries, ReaderKey[r])}]
         /\ \A l : ValueIn(entries', l) = ValueIn(entries, l)
<1> DEFINE k == ReaderKey[r]
           v == ValueIn(entries, k)
           s == Popped(entries, k)
<1>0. /\ entries \in Seq(Entries) /\ Distinct(entries) /\ totalBytes = Total(entries)
      /\ Len(entries) <= MemoryMaxEntries /\ totalBytes <= MemoryMaxBytes
      /\ DOMAIN heard = MemoryReaders /\ Len(entries) \in Nat
  BY LenProperties DEF MemoryInv
<1>1. /\ heard[r] = {} /\ heard' = [heard EXCEPT ![r] = {v}]
      /\ entries' = (IF v = NoValue THEN entries ELSE Append(s, Entry(k, v)))
      /\ totalBytes' = totalBytes
  BY MemoryLooksUp DEF MemoryGet
<1>2. DOMAIN heard' = MemoryReaders
  BY <1>0, <1>1
<1> HIDE DEF k, v, s
<1>3. CASE v = NoValue
  <2>1. entries' = entries
    BY <1>1, <1>3
  <2>2. \A n \in DOMAIN entries : ~Gone(n)
    BY <2>1 DEF Gone, Place
  <2>3. QED
    BY <1>0, <1>1, <1>2, <2>1, <2>2 DEF MemoryInv, OldestGoes, k, v
<1>4. CASE v # NoValue
  <2>0. entries' = Append(s, Entry(k, v))
    BY <1>1, <1>4
  <2>1. PICK n \in 1..Len(entries) : entries[n].key = k /\ v = entries[n].value
    BY <1>0, <1>4, ValueSomewhere DEF v
  <2>2. k \in MemoryKeys /\ v \in MemoryValues /\ Place(entries, k) # {}
    <3>1. entries[n] \in Entries
      BY <1>0, ElementOfSeq
    <3>2. n \in Place(entries, k)
      BY <1>0, <2>1, Places
    <3>3. QED
      BY <2>1, <3>1, <3>2 DEF Entries
  <2>3. /\ s \in Seq(Entries) /\ Distinct(s) /\ \A q \in 1..Len(s) : s[q].key # k
        /\ \A l : l # k => ValueIn(s, l) = ValueIn(entries, l)
    BY <1>0, PoppedProperties DEF s
  <2>4. Total(s) = Total(entries) - ValueSize[v]
    BY <1>0, <2>2, TotalOfPopped DEF s, v
  <2>5. Len(s) = Len(entries) - 1
    BY <1>0, <2>2, RemoveAtProperties, Places DEF s, Popped
  <2>6. /\ entries' \in Seq(Entries) /\ Distinct(entries') /\ Len(entries') = Len(s) + 1
        /\ ValueIn(entries', k) = v
        /\ \A l : l # k => ValueIn(entries', l) = ValueIn(s, l)
    BY <2>0, <2>2, <2>3, ValueAfterAppend
  <2>7. Total(entries') = Total(entries)
    <3>1. Entry(k, v) \in Entries /\ Entry(k, v).value = v
      BY <2>2 DEF Entry, Entries
    <3>2. ValueSize[v] \in Nat /\ Total(entries) \in Nat
      BY <1>0, <2>2, MemoryAssumption, BytesAreNat DEF Total
    <3>3. QED
      BY <2>0, <2>3, <2>4, <3>1, <3>2, TotalOfAppend
  <2>8. \A l : ValueIn(entries', l) = ValueIn(entries, l)
    BY <2>3, <2>6 DEF v
  <2>9. \A m \in DOMAIN entries : ~Gone(m)
    <3> SUFFICES ASSUME NEW m \in DOMAIN entries, Gone(m) PROVE FALSE
      OBVIOUS
    <3>1. m \in 1..Len(entries)
      BY <1>0, LenProperties
    <3>2. CASE entries[m].key = k
      <4>1. Len(s) + 1 \in 1..Len(entries') /\ entries'[Len(s) + 1].key = k
        <5>1. entries'[Len(s) + 1] = Entry(k, v)
          BY <2>0, <2>2, <2>3, ValueAfterAppend
        <5>2. Len(s) + 1 \in 1..Len(entries')
          BY <1>0, <2>5, <2>6
        <5>3. QED
          BY <5>1, <5>2 DEF Entry
      <4>2. QED
        BY <2>6, <3>2, <4>1, Places DEF Gone
    <3>3. CASE entries[m].key # k
      <4>1. PICK q \in 1..Len(s) : s[q].key = entries[m].key
        BY <1>0, <3>1, <3>3, PoppedProperties DEF s
      <4>2. q \in 1..Len(entries') /\ entries'[q] = s[q]
        BY <1>0, <2>0, <2>2, <2>3, <2>5, <2>6, ValueAfterAppend
      <4>3. QED
        BY SMTT(30), <2>6, <4>1, <4>2, Places DEF Gone
    <3>4. QED
      BY <3>2, <3>3
  <2>10. Len(entries') = Len(entries)
    BY <1>0, <2>5, <2>6
  <2>11. MemoryInv'
    BY <1>0, <1>1, <1>2, <2>6, <2>7, <2>10 DEF MemoryInv
  <2>12. OldestGoes
    BY <1>0, <1>1, <2>7, <2>9, <2>10 DEF OldestGoes
  <2>13. QED
    BY <1>1, <2>8, <2>11, <2>12 DEF k, v
<1>5. QED
  BY <1>3, <1>4

\* set() puts the value behind the entries that are left; the oldest of them go.
LEMMA SetStep ==
  ASSUME MemoryInv, NEW k \in MemoryKeys, NEW v \in MemoryValues, MemorySet(k, v)
  PROVE  /\ MemoryInv' /\ OldestGoes /\ heard' = heard
         /\ ValueIn(entries', k) = v
         /\ \A l : l # k => ValueIn(entries', l) \in {ValueIn(entries, l), NoValue}
<1> DEFINE s == Popped(entries, k)
           t == Append(s, Entry(k, v))
           pos(q) == IF Place(entries, k) = {} \/ q < Where(entries, k) THEN q ELSE q + 1
<1>0. /\ entries \in Seq(Entries) /\ Distinct(entries) /\ totalBytes = Total(entries)
      /\ DOMAIN heard = MemoryReaders /\ Len(entries) \in Nat /\ DOMAIN entries = 1..Len(entries)
      /\ Total(entries) \in Nat
  BY LenProperties, BytesAreNat DEF MemoryInv, Total
<1>00. ValueSize[v] \in Nat /\ MemoryMaxEntries \in Nat \ {0} /\ MemoryMaxBytes \in Nat
  BY MemoryAssumption
<1>1. /\ s \in Seq(Entries) /\ Distinct(s) /\ Len(s) \in Nat
      /\ \A q \in 1..Len(s) : pos(q) \in 1..Len(entries) /\ s[q] = entries[pos(q)] /\ s[q].key # k
      /\ \A p \in 1..Len(entries) : entries[p].key # k => \E q \in 1..Len(s) : pos(q) = p
      /\ \A l : l # k => ValueIn(s, l) = ValueIn(entries, l)
  BY <1>0, PoppedProperties, LenProperties
<1>2. /\ Where(entries, k) \in Nat \/ Place(entries, k) = {}
      /\ \A q, r \in 1..Len(s) : pos(q) < pos(r) => q < r
  <2>1. Where(entries, k) \in Nat \/ Place(entries, k) = {}
    BY <1>0, Places
  <2> HIDE DEF s
  <2>2. QED
    BY <1>1, <2>1
<1>3. /\ t \in Seq(Entries) /\ Distinct(t) /\ Len(t) = Len(s) + 1
      /\ t[Len(s) + 1] = Entry(k, v) /\ \A n \in 1..Len(s) : t[n] = s[n]
      /\ ValueIn(t, k) = v
      /\ \A l : l # k => ValueIn(t, l) = ValueIn(s, l)
  BY <1>1, ValueAfterAppend
<1>4. LET bytes == totalBytes - (IF Place(entries, k) = {} THEN 0 ELSE ValueSize[ValueIn(entries, k)])
                   + ValueSize[v]
      IN /\ entries' = Evicted(t, bytes).entries /\ totalBytes' = Evicted(t, bytes).bytes
         /\ heard' = heard /\ ValueSize[v] <= MemoryMaxBytes
  BY MemoryLooksUp DEF MemorySet, Retain
<1>5. Total(t) = totalBytes - (IF Place(entries, k) = {} THEN 0 ELSE ValueSize[ValueIn(entries, k)])
                 + ValueSize[v]
  <2>1. Entry(k, v) \in Entries /\ Entry(k, v).value = v
    BY DEF Entry, Entries
  <2>2. Total(t) = Total(s) + ValueSize[v]
    BY <1>1, <2>1, TotalOfAppend
  <2>3. QED
    BY <1>0, <2>2, TotalOfPopped
<1>6. /\ entries' = Evicted(t, Total(t)).entries /\ totalBytes' = Evicted(t, Total(t)).bytes
      /\ heard' = heard /\ ValueSize[v] <= MemoryMaxBytes
  BY <1>4, <1>5
<1> HIDE DEF s, t, pos
<1>7. PICK n \in 0..Len(t) :
        LET u == SubSeq(t, n + 1, Len(t))
        IN /\ Evicted(t, Total(t)) = [entries |-> u, bytes |-> Total(u)]
           /\ u \in Seq(Entries) /\ Distinct(u) /\ Len(u) = Len(t) - n
           /\ \A m \in 1..Len(u) : u[m] = t[n + m]
           /\ Total(u) \in Nat /\ Total(u) <= MemoryMaxBytes /\ Len(u) <= MemoryMaxEntries
           /\ n # 0 => Len(u) + 1 > MemoryMaxEntries
                       \/ Total(u) + ValueSize[t[n].value] > MemoryMaxBytes
           /\ Len(t) <= MemoryMaxEntries /\ Total(t) <= MemoryMaxBytes => n = 0
           /\ \A l : ValueIn(u, l) \in {ValueIn(t, l), NoValue}
  BY <1>3, EvictedProperties
<1> DEFINE u == SubSeq(t, n + 1, Len(t))
<1>8. /\ Evicted(t, Total(t)) = [entries |-> u, bytes |-> Total(u)]
      /\ u \in Seq(Entries) /\ Distinct(u) /\ Len(u) = Len(t) - n
      /\ \A m \in 1..Len(u) : u[m] = t[n + m]
      /\ Total(u) \in Nat /\ Total(u) <= MemoryMaxBytes /\ Len(u) <= MemoryMaxEntries
      /\ n # 0 => Len(u) + 1 > MemoryMaxEntries \/ Total(u) + ValueSize[t[n].value] > MemoryMaxBytes
      /\ \A l : ValueIn(u, l) \in {ValueIn(t, l), NoValue}
  BY <1>7
<1> HIDE DEF u
<1>9. entries' = u /\ totalBytes' = Total(u)
  BY <1>6, <1>8
<1>10. n < Len(t)
  \* The value set fits by itself, so that it is never evicted.
  <2> SUFFICES ASSUME n = Len(t) PROVE FALSE
    BY <1>1, <1>3
  <2>1. Len(u) = 0 /\ u = <<>>
    BY <1>1, <1>3, <1>8, EmptySeq
  <2>2. Total(u) = 0 /\ n # 0 /\ t[n].value = v
    BY <1>1, <1>3, <2>1, EmptyCache DEF Entry
  <2>3. QED
    BY <1>00, <1>6, <1>8, <2>1, <2>2
<1>11. Last(u).key = k /\ Len(u) \in 1..Len(u)
  <2>1. Len(u) \in 1..Len(u) /\ n + Len(u) = Len(s) + 1
    BY <1>1, <1>3, <1>8, <1>10
  <2>2. u[Len(u)] = Entry(k, v)
    BY <1>3, <1>8, <2>1
  <2>3. QED
    BY <2>1, <2>2 DEF Last, Entry
<1>12. ValueIn(u, k) = v
  <2>1. u[Len(u)].key = k /\ u[Len(u)].value = v
    <3>1. n + Len(u) = Len(s) + 1
      BY <1>1, <1>3, <1>8, <1>10
    <3>2. QED
      BY <1>3, <1>8, <1>11, <3>1 DEF Entry
  <2>2. QED
    BY <1>8, <1>11, <2>1, ValueAt
\* An entry but the one replaced is gone when its place in t is among the first n.
<1>13. ASSUME NEW q \in 1..Len(s)
       PROVE  q <= n <=> Gone(pos(q))
  <2>1. t[q] = entries[pos(q)] /\ q \in 1..Len(t)
    BY <1>1, <1>3
  <2>2. CASE q <= n
    <3> SUFFICES ASSUME NEW i \in 1..Len(u), u[i].key = t[q].key PROVE FALSE
      BY <1>8, <1>9, <2>1, <2>2, Places DEF Gone
    <3>1. n + i \in 1..Len(t) /\ u[i] = t[n + i] /\ n + i # q
      BY <1>1, <1>3, <1>8, <2>2
    <3>2. QED
      BY <1>3, <2>1, <3>1 DEF Distinct
  <2>3. CASE q > n
    <3>1. q - n \in 1..Len(u) /\ n + (q - n) = q
      <4>1. Len(s) \in Nat /\ Len(u) = (Len(s) + 1) - n /\ n \in Int
        BY <1>1, <1>3, <1>8
      <4>2. QED
        BY <2>3, <4>1
    <3>2. u[q - n] = t[q]
      BY <1>8, <3>1
    <3>3. q - n \in Place(u, t[q].key)
      BY <1>8, <3>1, <3>2, Places
    <3>4. QED
      BY <1>9, <2>1, <2>3, <3>3 DEF Gone
  <2>4. q <= n \/ q > n
    BY <1>1, <1>3
  <2>5. QED
    BY <2>2, <2>3, <2>4
<1>14. ASSUME NEW p \in 1..Len(entries), entries[p].key = k PROVE ~Gone(p)
  <2>1. Len(u) \in 1..Len(u) /\ u[Len(u)].key = k
    BY <1>11 DEF Last
  <2>2. QED
    BY <1>8, <1>9, <1>14, <2>1, Places DEF Gone
<1>15. ASSUME NEW p \in 1..Len(entries), Gone(p)
       PROVE  /\ \A m \in 1..(p - 1) : Gone(m) \/ entries[m].key = k
              /\ (\A m \in (p + 1)..Len(entries) : ~Gone(m)) =>
                   \/ Len(u) + 1 > MemoryMaxEntries
                   \/ Total(u) + ValueSize[entries[p].value] > MemoryMaxBytes
  <2>1. PICK q \in 1..Len(s) : pos(q) = p
    BY <1>1, <1>14, <1>15
  <2>2. q <= n
    BY <1>13, <1>15, <2>1
  <2>3. ASSUME NEW m \in 1..(p - 1), entries[m].key # k PROVE Gone(m)
    <3>1. m \in 1..Len(entries) /\ m < p
      BY <1>0
    <3>2. PICK r \in 1..Len(s) : pos(r) = m
      BY <1>1, <2>3, <3>1
    <3>3. r < q
      BY <1>2, <2>1, <3>1, <3>2
    <3>4. r <= n
      BY <1>1, <1>3, <2>2, <3>3
    <3>5. QED
      BY <1>13, <3>2, <3>4
  <2>4. ASSUME \A m \in (p + 1)..Len(entries) : ~Gone(m)
        PROVE  \/ Len(u) + 1 > MemoryMaxEntries
               \/ Total(u) + ValueSize[entries[p].value] > MemoryMaxBytes
    <3>1. q = n
      <4> SUFFICES ASSUME q < n PROVE FALSE
        BY <1>1, <1>3, <2>2
      <4>1. q + 1 \in 1..Len(s) /\ q + 1 <= n
        BY <1>1, <1>3, <1>10
      <4>2. Gone(pos(q + 1)) /\ pos(q + 1) \in 1..Len(entries)
        BY <1>1, <1>13, <4>1
      <4>3. pos(q + 1) > pos(q)
        <5>1. pos(q + 1) # pos(q) /\ ~ (pos(q + 1) < pos(q))
          <6>1. pos(q + 1) # pos(q)
            BY <1>2, <4>1 DEF pos
          <6>2. ~ (pos(q + 1) < pos(q))
            BY <1>2, <4>1
          <6>3. QED
            BY <6>1, <6>2
        <5>2. pos(q) \in 1..Len(entries)
          BY <1>1
        <5>3. QED
          BY <1>0, <4>2, <5>1, <5>2
      <4>4. pos(q + 1) \in (p + 1)..Len(entries)
        BY <1>0, <2>1, <4>2, <4>3
      <4>5. QED
        BY <2>4, <4>2, <4>4
    <3>2. n # 0 /\ t[n] = entries[p]
      BY <1>1, <1>3, <2>1, <3>1
    <3>3. QED
      BY <1>8, <3>2
  <2>5. QED
    BY <2>3, <2>4
<1>16. OldestGoes
  BY <1>0, <1>8, <1>9, <1>11, <1>15 DEF OldestGoes
<1>17. MemoryInv'
  BY <1>0, <1>6, <1>8, <1>9 DEF MemoryInv
<1>18. \A l : l # k => ValueIn(u, l) \in {ValueIn(entries, l), NoValue}
  BY <1>1, <1>3, <1>8
<1>19. QED
  BY <1>6, <1>9, <1>12, <1>16, <1>17, <1>18

\* prune(), clear() and close() lose entries, and prune() of a healthy cache none.
LEMMA LoseStep ==
  ASSUME MemoryInv, MemoryPrune \/ MemoryClear \/ MemoryClose
  PROVE  /\ MemoryInv' /\ OldestGoes /\ heard' = heard
         /\ \A l : ValueIn(entries', l) \in {ValueIn(entries, l), NoValue}
<1>0. /\ entries \in Seq(Entries) /\ Distinct(entries) /\ totalBytes = Total(entries)
      /\ DOMAIN heard = MemoryReaders /\ DOMAIN entries = 1..Len(entries)
      /\ Len(entries) <= MemoryMaxEntries /\ totalBytes <= MemoryMaxBytes
  BY LenProperties DEF MemoryInv
<1>1. heard' = heard
  BY DEF MemoryPrune, MemoryClear, MemoryClose
<1>2. CASE MemoryPrune
  <2>1. entries' = Evicted(entries, Total(entries)).entries
        /\ totalBytes' = Evicted(entries, Total(entries)).bytes
    BY <1>0, <1>2 DEF MemoryPrune, Retain
  <2>2. Evicted(entries, Total(entries)) =
          [entries |-> SubSeq(entries, 1, Len(entries)),
           bytes |-> Total(SubSeq(entries, 1, Len(entries)))]
    <3>1. PICK n \in 0..Len(entries) :
            /\ Evicted(entries, Total(entries)) =
                 [entries |-> SubSeq(entries, n + 1, Len(entries)),
                  bytes |-> Total(SubSeq(entries, n + 1, Len(entries)))]
            /\ n = 0
      BY <1>0, EvictedProperties
    <3>2. n + 1 = 1
      BY <3>1
    <3>3. QED
      BY <3>1, <3>2
  <2>3. SubSeq(entries, 1, Len(entries)) = entries
    BY <1>0, SubSeqFull
  <2>4. entries' = entries /\ totalBytes' = Total(entries)
    <3>1. Evicted(entries, Total(entries)) = [entries |-> entries, bytes |-> Total(entries)]
      BY <2>2, <2>3
    <3>2. QED
      BY <2>1, <3>1
  <2>5. \A n \in DOMAIN entries : ~Gone(n)
    BY <2>4 DEF Gone, Place
  <2>6. QED
    BY <1>0, <1>1, <2>4, <2>5 DEF MemoryInv, OldestGoes
<1>3. CASE MemoryClear \/ MemoryClose
  <2>1. entries' = <<>> /\ totalBytes' = 0
    BY <1>3 DEF MemoryClear, MemoryClose
  <2>2. QED
    BY <1>0, <1>1, <2>1, EmptyCache DEF MemoryInv, OldestGoes
<1>4. QED
  BY <1>2, <1>3

LEMMA MemoryStarts ==
  ASSUME MemoryInit
  PROVE  MemoryInv /\ MemoryLossy!Init
<1>1. entries = <<>> /\ totalBytes = 0 /\ heard = [r \in MemoryReaders |-> {}]
  BY DEF MemoryInit
<1>2. MemoryInv
  BY <1>1, EmptyCache DEF MemoryInv
<1>3. \A k \in MemoryKeys : Lookup(k) = NoValue
  BY <1>1, EmptyCache, MemoryLooksUp
<1>4. [k \in MemoryKeys |-> {Lookup(k)} \ {NoValue}] \in [MemoryKeys -> SUBSET MemoryValues]
  BY <1>3
<1>5. QED
  BY <1>1, <1>2, <1>4 DEF MemoryLossy!Init

LEMMA MemoryImplements ==
  ASSUME MemoryInv, MemoryNext
  PROVE  MemoryInv' /\ OldestGoes /\ MemoryLossy!Next
<1> DEFINE H == [k \in MemoryKeys |-> {Lookup(k)} \ {NoValue}]
<1>0. /\ \A k \in MemoryKeys : H[k] = {ValueIn(entries, k)} \ {NoValue}
      /\ \A k \in MemoryKeys : H'[k] = {ValueIn(entries', k)} \ {NoValue}
      /\ DOMAIN H = MemoryKeys /\ DOMAIN H' = MemoryKeys
  BY MemoryLooksUp
<1>00. /\ H = [k \in MemoryKeys |-> {ValueIn(entries, k)} \ {NoValue}]
       /\ H' = [k \in MemoryKeys |-> {ValueIn(entries', k)} \ {NoValue}]
  BY MemoryLooksUp
<1>1. CASE \E r \in MemoryReaders : MemoryGet(r)
  <2>1. PICK r \in MemoryReaders : MemoryGet(r)
    BY <1>1
  <2>2. /\ MemoryInv' /\ OldestGoes
        /\ heard[r] = {} /\ heard' = [heard EXCEPT ![r] = {ValueIn(entries, ReaderKey[r])}]
        /\ \A l : ValueIn(entries', l) = ValueIn(entries, l)
    BY <2>1, GetStep
  <2>3. ReaderKey[r] \in MemoryKeys
    BY MemoryAssumption
  <2>4. H' = H
    BY <1>00, <2>2
  <2>5. MemoryLossy!Tell(r)
    <3>1. [q \in MemoryReaders |-> {ReaderKey[q]}][r] = {ReaderKey[r]}
      OBVIOUS
    <3>2. {ValueIn(entries, ReaderKey[r])} \ {NoValue} = H[ReaderKey[r]]
      BY <1>0, <2>3
    <3> HIDE DEF H
    <3>3. PICK asked : asked = [q \in MemoryReaders |-> {ReaderKey[q]}]
      OBVIOUS
    <3>30. PICK answer : answer = ValueIn(entries, ReaderKey[r])
      OBVIOUS
    <3>31. answer = NoValue \/ \E k \in asked[r] : answer \in H[k]
      BY <3>1, <3>2, <3>3, <3>30
    <3>4. \A k \in MemoryKeys : H'[k] \subseteq H[k]
      BY <2>4
    <3>5. QED
      BY <2>2, <3>3, <3>30, <3>31, <3>4 DEF MemoryLossy!Tell, MemoryLossy!Kept, H
  <2>6. QED
    BY <2>2, <2>5 DEF MemoryLossy!Next
<1>2. CASE \E k \in MemoryKeys, v \in MemoryValues : MemorySet(k, v)
  <2>1. PICK k \in MemoryKeys, v \in MemoryValues : MemorySet(k, v)
    BY <1>2
  <2>2. /\ MemoryInv' /\ OldestGoes /\ heard' = heard
        /\ ValueIn(entries', k) = v
        /\ \A l : l # k => ValueIn(entries', l) \in {ValueIn(entries, l), NoValue}
    BY <2>1, SetStep
  <2>3. MemoryLossy!Put(k, v)
    <3>1. H'[k] \ H[k] \subseteq {v} /\ \A l \in MemoryKeys \ {k} : H'[l] \subseteq H[l]
      BY <1>0, <2>2
    <3>2. QED
      BY <2>2, <3>1 DEF MemoryLossy!Put, MemoryLossy!Kept
  <2>4. QED
    BY <2>2, <2>3 DEF MemoryLossy!Next
<1>3. CASE MemoryPrune \/ MemoryClear \/ MemoryClose
  <2>1. /\ MemoryInv' /\ OldestGoes /\ heard' = heard
        /\ \A l : ValueIn(entries', l) \in {ValueIn(entries, l), NoValue}
    BY <1>3, LoseStep
  <2>2. \A l \in MemoryKeys : H'[l] \subseteq H[l]
    BY <1>0, <2>1
  <2>3. MemoryLossy!Lose
    BY <2>1, <2>2 DEF MemoryLossy!Lose, MemoryLossy!Kept
  <2>4. QED
    BY <2>1, <2>3 DEF MemoryLossy!Next
<1>4. QED
  BY <1>1, <1>2, <1>3 DEF MemoryNext

LEMMA MemoryStutters ==
  ASSUME MemoryInv, UNCHANGED memoryVars
  PROVE  MemoryInv' /\ UNCHANGED MemoryLossy!vars
<1>1. entries' = entries /\ totalBytes' = totalBytes /\ heard' = heard
  BY DEF memoryVars
<1>2. \A k : Lookup(k)' = Lookup(k)
  BY <1>1, MemoryLooksUp
<1>3. QED
  BY <1>1, <1>2 DEF MemoryInv, MemoryLossy!vars

-------------------------------------------------------------------------------
\* The tables of the database.

\* Live() at a given time.
LiveAt(t, k, clock) ==
  IF k \in DOMAIN t /\ ~ (t[k].expires <= clock) THEN {t[k].value} ELSE {}

LEMMA TableFinds ==
  /\ \A t, k : Live(t, k) = LiveAt(t, k, now)
  /\ \A f, k : Live(rows[f], k)' = LiveAt(rows'[f], k, now')
  /\ \A f, k : Live(saved[f], k)' = LiveAt(saved'[f], k, now')
  /\ \A t, k : Found(t, k) \in LiveAt(t, k, now) \cup {Missing}
BY DEF Live, Dead, Found, LiveAt, Expired

LEMMA FindsValues ==
  ASSUME NEW t, IsTable(t), NEW k, NEW clock
  PROVE  LiveAt(t, k, clock) \subseteq Jobs \cup {"earlier"}
BY DEF LiveAt, IsTable, Rows

\* An entry that has not expired by now has not expired before.
LEMMA TimeOnlyLoses ==
  ASSUME NEW t, IsTable(t), NEW k, NEW clock \in Nat
  PROVE  LiveAt(t, k, clock + 1) \subseteq LiveAt(t, k, clock)
<1>1. CASE k \in DOMAIN t
  <2>1. t[k].expires \in Nat
    BY <1>1 DEF IsTable, Rows
  <2>2. QED
    BY <1>1, <2>1 DEF LiveAt
<1>2. CASE k \notin DOMAIN t
  BY <1>2 DEF LiveAt
<1>3. QED
  BY <1>1, <1>2

LEMMA WithoutLoses ==
  ASSUME NEW t, IsTable(t), NEW keys
  PROVE  /\ IsTable(Without(t, keys)) /\ DOMAIN Without(t, keys) = DOMAIN t \ keys
         /\ \A k \in DOMAIN t \ keys : Without(t, keys)[k] = t[k]
         /\ \A k, clock : LiveAt(Without(t, keys), k, clock) \subseteq LiveAt(t, k, clock)
<1> DEFINE u == Without(t, keys)
<1>1. DOMAIN u = DOMAIN t \ keys /\ u = [k \in DOMAIN t \ keys |-> t[k]]
  BY DEF Without
<1>2. \A k \in DOMAIN t \ keys : u[k] = t[k]
  BY <1>1
<1>3. u \in [DOMAIN u -> Rows] /\ IsFiniteSet(DOMAIN u)
  BY <1>1, FS_Subset DEF IsTable
<1> HIDE DEF u
<1>4. IsTable(u)
  BY <1>1, <1>3 DEF IsTable
<1>5. \A k, clock : LiveAt(u, k, clock) \subseteq LiveAt(t, k, clock)
  BY <1>1, <1>2 DEF LiveAt
<1>6. QED
  BY <1>1, <1>2, <1>4, <1>5 DEF u

\* What has expired is not found, whether it is still stored or not.
LEMMA PruningIsUnseen ==
  ASSUME NEW t, IsTable(t)
  PROVE  /\ IsTable(Without(t, Dead(t)))
         /\ \A k : LiveAt(Without(t, Dead(t)), k, now) = LiveAt(t, k, now)
<1> DEFINE dead == Dead(t)
           u == Without(t, dead)
<1>1. \A k \in DOMAIN t : k \in dead <=> t[k].expires <= now
  BY DEF Dead, Expired
<1> HIDE DEF dead, u
<1>2. /\ IsTable(u) /\ DOMAIN u = DOMAIN t \ dead
      /\ \A k \in DOMAIN t \ dead : u[k] = t[k]
  BY WithoutLoses DEF u
<1>3. ASSUME NEW k PROVE LiveAt(u, k, now) = LiveAt(t, k, now)
  <2>1. CASE k \in DOMAIN t \ dead
    BY <1>2, <2>1 DEF LiveAt
  <2>2. CASE k \in DOMAIN t /\ k \in dead
    BY <1>1, <1>2, <2>2 DEF LiveAt
  <2>3. CASE k \notin DOMAIN t
    BY <1>2, <2>3 DEF LiveAt
  <2>4. QED
    BY <2>1, <2>2, <2>3
<1>4. QED
  BY <1>2, <1>3 DEF u, dead

LEMMA ReadIsUnseen ==
  ASSUME NEW t, IsTable(t), NEW k, now \in Nat
  PROVE  /\ IsTable(Read(t, k))
         /\ \A l : LiveAt(Read(t, k), l, now) = LiveAt(t, l, now)
<1>1. CASE Read(t, k) = t
  BY <1>1
<1>2. CASE Read(t, k) = Without(t, Dead(t))
  BY <1>2, PruningIsUnseen
<1>3. CASE k \in DOMAIN t /\ Read(t, k) = [t EXCEPT ![k].accessed = now]
  <2> DEFINE u == [t EXCEPT ![k].accessed = now]
  <2>1. /\ t \in [DOMAIN t -> Rows] /\ t[k] \in Rows
        /\ DOMAIN t \subseteq Keys /\ IsFiniteSet(DOMAIN t)
    BY <1>3 DEF IsTable
  <2>2. u = [t EXCEPT ![k] = [t[k] EXCEPT !.accessed = now]]
    BY <1>3
  <2>3. [t[k] EXCEPT !.accessed = now] \in Rows
    BY <2>1 DEF Rows
  <2>4. /\ [t[k] EXCEPT !.accessed = now].expires = t[k].expires
        /\ [t[k] EXCEPT !.accessed = now].value = t[k].value
    BY <2>1 DEF Rows
  <2>5. u \in [DOMAIN t -> Rows] /\ DOMAIN u = DOMAIN t
    BY <2>1, <2>2, <2>3
  <2>6. \A l \in DOMAIN t : u[l].expires = t[l].expires /\ u[l].value = t[l].value
    BY <1>3, <2>1, <2>2, <2>4
  <2> HIDE DEF u
  <2>7. IsTable(u)
    BY <2>1, <2>5 DEF IsTable
  <2>8. \A l : LiveAt(u, l, now) = LiveAt(t, l, now)
    BY <2>5, <2>6 DEF LiveAt
  <2>9. QED
    BY <1>3, <2>7, <2>8 DEF u
<1>4. QED
  BY <1>1, <1>2, <1>3 DEF Read

\* A set puts its row in place of what was under its key, and loses others.
LEMMA StoredPuts ==
  ASSUME NEW t, IsTable(t), NEW j \in Jobs, now \in Nat
  PROVE  /\ IsTable(Stored(t, j))
         /\ LiveAt(Stored(t, j), Key[j], now) \subseteq {j}
         /\ \A l : l # Key[j] => LiveAt(Stored(t, j), l, now) \subseteq LiveAt(t, l, now)
<1> DEFINE row == [value |-> j, size |-> Size[j], created |-> now, accessed |-> now,
                   expires |-> now + TTL]
           live == Without(t, Dead(t))
           u == [k \in DOMAIN live \cup {Key[j]} |-> IF k = Key[j] THEN row ELSE live[k]]
           V == Victims(u, {Key[j]})
<1>1. Stored(t, j) = Without(u, V)
  BY DEF Stored, Evict
<1>2. row \in Rows /\ row.value = j /\ Key[j] \in Keys
  BY JobAssumption DEF Rows
<1>3. IsTable(live) /\ \A k : LiveAt(live, k, now) = LiveAt(t, k, now)
  BY PruningIsUnseen
<1> HIDE DEF V, row, live
<1>4. DOMAIN u = DOMAIN live \cup {Key[j]} /\ u[Key[j]] = row /\ \A k \in DOMAIN live : k # Key[j] => u[k] = live[k]
  OBVIOUS
<1>5. u \in [DOMAIN u -> Rows]
  BY <1>2, <1>3 DEF IsTable
<1> HIDE DEF u
<1>6. IsTable(u)
  <2>1. IsFiniteSet(DOMAIN u)
    BY <1>3, <1>4, FS_AddElement DEF IsTable
  <2>2. QED
    BY <1>2, <1>3, <1>4, <1>5, <2>1 DEF IsTable
<1>7. LiveAt(u, Key[j], now) \subseteq {j}
  BY <1>2, <1>4 DEF LiveAt
<1>8. \A l : l # Key[j] => LiveAt(u, l, now) = LiveAt(live, l, now)
  BY <1>4 DEF LiveAt
<1>9. /\ IsTable(Without(u, V))
      /\ \A k : LiveAt(Without(u, V), k, now) \subseteq LiveAt(u, k, now)
  BY <1>6, WithoutLoses
<1>10. QED
  BY <1>1, <1>3, <1>7, <1>8, <1>9

LEMMA AfterTable ==
  ASSUME NEW t, IsTable(t), NEW j \in Jobs, now \in Nat
  PROVE  /\ IsTable(After(t, j))
         /\ Op[j] = "get" => \A l : LiveAt(After(t, j), l, now) = LiveAt(t, l, now)
         /\ Op[j] = "set" => LiveAt(After(t, j), Key[j], now) \subseteq {j}
         /\ \A l : (Op[j] = "set" => l # Key[j])
                     => LiveAt(After(t, j), l, now) \subseteq LiveAt(t, l, now)
<1>0. Op[j] \in {"get", "set", "clear", "prune"}
  BY JobAssumption
<1>1. CASE Op[j] = "get"
  <2>1. After(t, j) = Read(t, Key[j])
    BY <1>1 DEF After
  <2>2. QED
    BY <1>1, <2>1, ReadIsUnseen
<1>2. CASE Op[j] = "set"
  <2>1. After(t, j) = Stored(t, j)
    BY <1>2 DEF After
  <2>2. QED
    BY <1>2, <2>1, StoredPuts
<1>3. CASE Op[j] = "clear"
  <2>1. After(t, j) = <<>> /\ DOMAIN <<>> = {}
    BY <1>3 DEF After, None
  <2>2. <<>> \in [{} -> Rows]
    OBVIOUS
  <2>3. IsTable(<<>>)
    BY <2>1, <2>2, FS_EmptySet DEF IsTable
  <2>4. QED
    BY <1>3, <2>1, <2>3 DEF LiveAt
<1>4. CASE Op[j] = "prune"
  <2> DEFINE live == Without(t, Dead(t))
             V == Victims(live, {})
  <2>1. After(t, j) = Without(live, V)
    BY <1>4 DEF After, Evict
  <2> HIDE DEF V, live
  <2>2. IsTable(live) /\ \A k : LiveAt(live, k, now) = LiveAt(t, k, now)
    BY PruningIsUnseen DEF live
  <2>3. /\ IsTable(Without(live, V))
        /\ \A k : LiveAt(Without(live, V), k, now) \subseteq LiveAt(live, k, now)
    BY <2>2, WithoutLoses
  <2>4. QED
    BY <1>4, <2>1, <2>2, <2>3
<1>5. QED
  BY <1>0, <1>1, <1>2, <1>3, <1>4

-------------------------------------------------------------------------------
\* Sums over sets.

\* The function that SumOf is defined by, on the sets of up to n keys.
SmallSets(D, n) == {S \in SUBSET D : Cardinality(S) <= n}
SetSumExists(n, w) ==
  \E f : f = [S \in SmallSets(DOMAIN w, n) |->
                IF S = {} THEN 0 ELSE w[AnyOf(S)] + f[S \ {AnyOf(S)}]]

\* A set without one of its elements has one fewer.
LEMMA AnyOfASet ==
  ASSUME NEW D, IsFiniteSet(D), NEW S \in SUBSET D, S # {}
  PROVE  /\ AnyOf(S) \in S /\ AnyOf(S) \in D /\ S \ {AnyOf(S)} \in SUBSET D
         /\ Cardinality(S) \in Nat /\ Cardinality(S) # 0
         /\ Cardinality(S \ {AnyOf(S)}) = Cardinality(S) - 1
<1>1. AnyOf(S) \in S
  BY DEF AnyOf
<1>2. IsFiniteSet(S) /\ Cardinality(S) \in Nat /\ Cardinality(S) # 0
  BY FS_Subset, FS_CardinalityType, FS_EmptySet
<1>3. Cardinality(S \ {AnyOf(S)}) = Cardinality(S) - 1
  BY <1>1, <1>2, FS_RemoveElement
<1>4. QED
  BY <1>1, <1>2, <1>3

\* It exists for every number of keys.
LEMMA SetSumsExist ==
  ASSUME NEW w, IsFiniteSet(DOMAIN w)
  PROVE  \A n \in Nat : SetSumExists(n, w)
<1> DEFINE D == DOMAIN w
           T == {n \in Nat : SetSumExists(n, w)}
<1>0. \A S \in SUBSET D : IsFiniteSet(S) /\ Cardinality(S) \in Nat /\ (Cardinality(S) = 0 => S = {})
  BY FS_Subset, FS_CardinalityType, FS_EmptySet
<1>1. 0 \in T
  <2> DEFINE g == [S \in SmallSets(D, 0) |-> 0]
  <2>1. \A S \in SmallSets(D, 0) : S = {}
    BY <1>0 DEF SmallSets
  <2>2. g = [S \in SmallSets(D, 0) |-> IF S = {} THEN 0 ELSE w[AnyOf(S)] + g[S \ {AnyOf(S)}]]
    BY <2>1
  <2> HIDE DEF g
  <2>3. SetSumExists(0, w)
    BY <2>2 DEF SetSumExists
  <2>4. QED
    BY <2>3
<1>2. ASSUME NEW n \in Nat, n \in T PROVE n + 1 \in T
  <2>1. PICK f : f = [S \in SmallSets(D, n) |->
                        IF S = {} THEN 0 ELSE w[AnyOf(S)] + f[S \ {AnyOf(S)}]]
    BY <1>2 DEF SetSumExists
  <2>2. \A S \in SmallSets(D, n) : f[S] = IF S = {} THEN 0 ELSE w[AnyOf(S)] + f[S \ {AnyOf(S)}]
    BY <2>1
  <2> DEFINE g == [S \in SmallSets(D, n + 1) |->
                     IF S \in SmallSets(D, n) THEN f[S] ELSE w[AnyOf(S)] + f[S \ {AnyOf(S)}]]
  <2>3. ASSUME NEW S \in SmallSets(D, n + 1), S # {}
        PROVE  S \ {AnyOf(S)} \in SmallSets(D, n) /\ S \ {AnyOf(S)} \in SmallSets(D, n + 1)
    <3>1. PICK R, c, d : R = S \ {AnyOf(S)} /\ c = Cardinality(S) /\ d = Cardinality(R)
      OBVIOUS
    <3>2. R \in SUBSET D /\ c \in Nat /\ d = c - 1 /\ c <= n + 1
      BY <2>3, <3>1, AnyOfASet DEF SmallSets
    <3>3. d <= n /\ d <= n + 1
      BY <3>2
    <3>4. QED
      BY <3>1, <3>2, <3>3 DEF SmallSets
  <2>4. {} \in SmallSets(D, n)
    <3>1. Cardinality({}) = 0
      BY FS_EmptySet
    <3>2. QED
      BY <3>1 DEF SmallSets
  <2>5. \A S \in SmallSets(D, n + 1) :
          g[S] = IF S = {} THEN 0 ELSE w[AnyOf(S)] + g[S \ {AnyOf(S)}]
    <3> SUFFICES ASSUME NEW S \in SmallSets(D, n + 1)
                 PROVE  g[S] = IF S = {} THEN 0 ELSE w[AnyOf(S)] + g[S \ {AnyOf(S)}]
      OBVIOUS
    <3>1. CASE S = {}
      <4>1. g[S] = f[S] /\ f[S] = 0
        BY <2>2, <2>4, <3>1
      <4> HIDE DEF g
      <4>2. QED
        BY <3>1, <4>1
    <3>2. CASE S # {}
      <4>1. PICK R : R = S \ {AnyOf(S)}
        OBVIOUS
      <4>2. R \in SmallSets(D, n) /\ R \in SmallSets(D, n + 1)
        BY <2>3, <3>2, <4>1
      <4>3. g[R] = f[R]
        BY <4>2
      <4>4. g[S] = w[AnyOf(S)] + f[R]
        BY <2>2, <3>2, <4>1
      <4> HIDE DEF g
      <4>5. QED
        BY <3>2, <4>1, <4>3, <4>4
    <3>3. QED
      BY <3>1, <3>2
  <2>6. g = [S \in SmallSets(D, n + 1) |->
               IF S = {} THEN 0 ELSE w[AnyOf(S)] + g[S \ {AnyOf(S)}]]
    BY <2>5
  <2> HIDE DEF g
  <2>7. SetSumExists(n + 1, w)
    BY <2>6 DEF SetSumExists
  <2>8. QED
    BY <2>7
<1> HIDE DEF T
<1>3. Nat \subseteq T
  BY <1>1, <1>2, SetInduction
<1>4. QED
  BY <1>3 DEF T

\* SumOf adds one number after the other.
SummedBy(f, w) ==
  \A S \in SUBSET DOMAIN w : f[S] = IF S = {} THEN 0 ELSE w[AnyOf(S)] + f[S \ {AnyOf(S)}]

LEMMA SumSteps ==
  ASSUME NEW w, IsFiniteSet(DOMAIN w)
  PROVE  \E f : SumOf(w) = f[DOMAIN w] /\ SummedBy(f, w)
<1> DEFINE D == DOMAIN w
           G(f) == f = [S \in SUBSET D |-> IF S = {} THEN 0 ELSE w[AnyOf(S)] + f[S \ {AnyOf(S)}]]
           h == CHOOSE f : G(f)
<1>1. PICK n \in Nat : n = Cardinality(D)
  BY FS_CardinalityType
<1>2. SmallSets(D, n) = SUBSET D
  <2>1. \A S \in SUBSET D : Cardinality(S) <= n
    BY <1>1, FS_Subset
  <2>2. QED
    BY <2>1 DEF SmallSets
<1>3. \E f : G(f)
  <2>1. SetSumExists(n, w)
    BY SetSumsExist
  <2>2. QED
    BY <1>2, <2>1 DEF SetSumExists
<1>4. G(h)
  BY <1>3
<1>5. SumOf(w) = h[D]
  BY DEF SumOf
<1> HIDE DEF h
<1>6. SummedBy(h, w)
  BY <1>4 DEF SummedBy
<1>7. QED
  BY <1>5, <1>6

\* A sum of numbers is a number; of none it is 0, of one it is this one.
LEMMA SumFacts ==
  ASSUME NEW w, IsFiniteSet(DOMAIN w), \A k \in DOMAIN w : w[k] \in Nat
  PROVE  /\ SumOf(w) \in Nat
         /\ DOMAIN w = {} => SumOf(w) = 0
         /\ \A k : DOMAIN w = {k} => SumOf(w) = w[k]
<1>1. PICK D : D = DOMAIN w
  OBVIOUS
<1>2. PICK f : SumOf(w) = f[D] /\ SummedBy(f, w)
  BY <1>1, SumSteps
<1>3. f[{}] = 0
  BY <1>2 DEF SummedBy
<1> DEFINE P == {n \in Nat : \A S \in SUBSET D : Cardinality(S) = n => f[S] \in Nat}
<1>4. 0 \in P
  <2>1. \A S \in SUBSET D : Cardinality(S) = 0 => S = {}
    BY <1>1, FS_Subset, FS_EmptySet
  <2>2. QED
    BY <1>3, <2>1
<1>5. ASSUME NEW n \in Nat, n \in P PROVE n + 1 \in P
  <2> SUFFICES ASSUME NEW S \in SUBSET D, Cardinality(S) = n + 1 PROVE f[S] \in Nat
    OBVIOUS
  <2>1. S # {}
    <3>1. Cardinality({}) = 0
      BY FS_EmptySet
    <3>2. QED
      BY <3>1
  <2>2. PICK k, R : k = AnyOf(S) /\ R = S \ {AnyOf(S)}
    OBVIOUS
  <2>3. k \in D /\ R \in SUBSET D /\ Cardinality(R) = Cardinality(S) - 1
    BY <1>1, <2>1, <2>2, AnyOfASet
  <2>4. Cardinality(R) = n
    BY <2>3
  <2>5. f[R] \in Nat /\ w[k] \in Nat
    BY <1>1, <1>5, <2>3, <2>4
  <2>6. f[S] = w[k] + f[R]
    BY <1>1, <1>2, <2>1, <2>2 DEF SummedBy
  <2>7. QED
    BY <2>5, <2>6
<1> HIDE DEF P
<1>6. Nat \subseteq P
  BY <1>4, <1>5, SetInduction
<1>7. SumOf(w) \in Nat
  <2>1. D \in SUBSET D /\ Cardinality(D) \in Nat
    BY <1>1, FS_CardinalityType
  <2>2. QED
    BY <1>2, <1>6, <2>1 DEF P
<1>8. D = {} => SumOf(w) = 0
  BY <1>2, <1>3
<1>9. ASSUME NEW k, D = {k} PROVE SumOf(w) = w[k]
  <2>1. AnyOf(D) = k /\ D \ {AnyOf(D)} = {} /\ D # {} /\ D \in SUBSET D
    BY <1>9 DEF AnyOf
  <2>2. f[D] = w[k] + f[{}]
    BY <1>1, <1>2, <2>1 DEF SummedBy
  <2>3. w[k] \in Nat
    BY <1>1, <1>9
  <2>4. QED
    BY <1>2, <1>3, <2>2, <2>3
<1>10. QED
  BY <1>1, <1>7, <1>8, <1>9

\* A finite set of a least number of keys exists.
LEMMA FewestFacts ==
  ASSUME NEW X, X # {}, \A V \in X : IsFiniteSet(V)
  PROVE  Fewest(X) \in X
<1> DEFINE R == OpToRel(<, Nat)
           U == {Cardinality(V) : V \in X}
<1>1. IsWellFoundedOn(R, Nat)
  BY NatLessThanWellFounded
<1>2. \A m, p \in Nat : m < p => <<m, p>> \in R
  BY DEF OpToRel
<1>3. U \subseteq Nat /\ U # {}
  BY FS_CardinalityType
<1>4. \A V \in X : Cardinality(V) \in U
  OBVIOUS
<1>5. \A n \in U : \E V \in X : Cardinality(V) = n
  OBVIOUS
<1> HIDE DEF R, U
<1>6. PICK n \in U : \A m \in U : ~(<<m, n>> \in R)
  BY <1>1, <1>3, WFMin
<1>7. \A m \in U : n <= m
  <2>1. ASSUME NEW m \in U PROVE n <= m
    <3>1. m \in Nat /\ n \in Nat /\ ~(m < n)
      BY <1>2, <1>3, <1>6
    <3>2. QED
      BY <3>1
  <2>2. QED
    BY <2>1
<1>8. PICK V \in X : Cardinality(V) = n
  BY <1>5
<1>9. \A W \in X : Cardinality(V) <= Cardinality(W)
  BY <1>4, <1>7, <1>8
<1>10. QED
  BY <1>9 DEF Fewest

-------------------------------------------------------------------------------
\* Evictions.

\* The low watermarks are no higher than the limits.
LEMMA LowIsLow ==
  /\ LowEntries \in Nat /\ LowBytes \in Nat
  /\ LowEntries <= MaxEntries /\ LowBytes <= MaxBytes
<1>1. MaxEntries \in Nat /\ MaxEntries > 0 /\ MaxBytes \in Nat /\ MaxBytes > 0
  BY JobAssumption
<1>2. \A m \in Nat : (9 * m) \div 10 \in Nat /\ (9 * m) \div 10 <= m
  OBVIOUS
<1>3. QED
  BY <1>1, <1>2 DEF LowEntries, LowBytes

\* The bytes of some entries of a table.
LEMMA BytesFacts ==
  ASSUME NEW t, IsTable(t), NEW K \in SUBSET DOMAIN t
  PROVE  /\ Bytes(t, K) \in Nat /\ Cardinality(K) \in Nat
         /\ K = {} => Bytes(t, K) = 0 /\ Cardinality(K) = 0
         /\ \A k : K = {k} => Bytes(t, K) = t[k].size /\ Cardinality(K) = 1
<1>1. PICK w : w = [k \in K |-> t[k].size]
  OBVIOUS
<1>2. DOMAIN w = K /\ \A k \in K : w[k] = t[k].size
  BY <1>1
<1>3. \A k \in K : t[k].size \in Nat
  BY DEF IsTable, Rows
<1>4. IsFiniteSet(K)
  BY FS_Subset DEF IsTable
<1>5. Bytes(t, K) = SumOf(w)
  BY <1>1 DEF Bytes
<1>6. /\ SumOf(w) \in Nat
      /\ DOMAIN w = {} => SumOf(w) = 0
      /\ \A k : DOMAIN w = {k} => SumOf(w) = w[k]
  <2>1. IsFiniteSet(DOMAIN w) /\ \A k \in DOMAIN w : w[k] \in Nat
    BY <1>2, <1>3, <1>4
  <2>2. QED
    BY <2>1, SumFacts
<1>7. /\ Cardinality(K) \in Nat /\ (K = {} => Cardinality(K) = 0)
      /\ \A k : K = {k} => Cardinality(K) = 1
  BY <1>4, FS_CardinalityType, FS_EmptySet, FS_Singleton
<1>8. ASSUME NEW k, K = {k} PROVE Bytes(t, K) = t[k].size
  BY <1>2, <1>5, <1>6, <1>8
<1>9. QED
  BY <1>2, <1>5, <1>6, <1>7, <1>8

\* What may not be evicted fits.
Spared(t, protected) ==
  /\ protected \subseteq DOMAIN t
  /\ protected = {} \/ \E k \in DOMAIN t : protected = {k} /\ t[k].size <= MaxBytes

\* The victims are the stalest, and what is left is within the limits.
LEMMA VictimsFacts ==
  ASSUME NEW t, IsTable(t), NEW protected, Spared(t, protected)
  PROVE  /\ Victims(t, protected) \subseteq DOMAIN t \ protected
         /\ Fits(t, DOMAIN t \ Victims(t, protected), MaxEntries, MaxBytes)
         /\ \A k \in Victims(t, protected) :
              \A l \in (DOMAIN t \ protected) \ Victims(t, protected) : ~Staler(t, l, k)
<1>1. CASE Fits(t, DOMAIN t, MaxEntries, MaxBytes)
  <2>1. Victims(t, protected) = {}
    BY <1>1 DEF Victims
  <2>2. DOMAIN t \ {} = DOMAIN t
    OBVIOUS
  <2>3. QED
    BY <1>1, <2>1, <2>2
<1>2. CASE ~Fits(t, DOMAIN t, MaxEntries, MaxBytes)
  <2>1. PICK keys : keys = DOMAIN t \ protected
    OBVIOUS
  <2>2. PICK X : X = {V \in Stalest(t, keys) :
                        V = keys \/ Fits(t, DOMAIN t \ V, LowEntries, LowBytes)}
    OBVIOUS
  <2>3. Victims(t, protected) = Fewest(X)
    BY <1>2, <2>1, <2>2 DEF Victims
  <2>4. keys \in X
    BY <2>2 DEF Stalest
  <2>5. \A V \in X : IsFiniteSet(V)
    <3>1. IsFiniteSet(DOMAIN t) /\ \A V \in X : V \in SUBSET DOMAIN t
      BY <2>1, <2>2 DEF Stalest, IsTable
    <3>2. QED
      BY <3>1, FS_Subset
  <2>6. PICK V \in X : V = Victims(t, protected)
    BY <2>3, <2>4, <2>5, FewestFacts
  <2>7. V \in SUBSET keys /\ \A k \in V, l \in keys \ V : ~Staler(t, l, k)
    BY <2>2, <2>6 DEF Stalest
  <2>8. Fits(t, DOMAIN t \ V, MaxEntries, MaxBytes)
    <3>1. CASE V = keys
      <4>1. DOMAIN t \ V = protected
        BY <2>1, <3>1 DEF Spared
      <4>2. protected \in SUBSET DOMAIN t
        BY DEF Spared
      <4>3. MaxEntries \in Nat /\ MaxEntries >= 1 /\ MaxBytes \in Nat
        BY JobAssumption
      <4>4. CASE protected = {}
        BY <4>1, <4>2, <4>3, <4>4, BytesFacts DEF Fits
      <4>5. CASE protected # {}
        <5>1. PICK k \in DOMAIN t : protected = {k} /\ t[k].size <= MaxBytes
          BY <4>5 DEF Spared
        <5>2. Bytes(t, protected) = t[k].size /\ Cardinality(protected) = 1
          BY <4>2, <5>1, BytesFacts
        <5>3. QED
          BY <4>1, <4>3, <5>1, <5>2 DEF Fits
      <4>6. QED
        BY <4>4, <4>5
    <3>2. CASE V # keys
      <4>1. Fits(t, DOMAIN t \ V, LowEntries, LowBytes)
        BY <2>2, <2>6, <3>2
      <4>2. PICK K : K = DOMAIN t \ V
        OBVIOUS
      <4>3. Bytes(t, K) \in Nat /\ Cardinality(K) \in Nat
        BY <4>2, BytesFacts
      <4>4. MaxEntries \in Nat /\ MaxBytes \in Nat
        BY JobAssumption
      <4>5. Cardinality(K) <= LowEntries /\ Bytes(t, K) <= LowBytes
        BY <4>1, <4>2 DEF Fits
      <4>6. Cardinality(K) <= MaxEntries /\ Bytes(t, K) <= MaxBytes
        BY <4>3, <4>4, <4>5, LowIsLow
      <4>7. QED
        BY <4>2, <4>6 DEF Fits
    <3>3. QED
      BY <3>1, <3>2
  <2>9. QED
    BY <2>1, <2>6, <2>7, <2>8
<1>3. QED
  BY <1>1, <1>2

\* What remains of a table takes as much as it took.
LEMMA EvictFacts ==
  ASSUME NEW t, IsTable(t), NEW protected, Spared(t, protected), NEW u, u = Evict(t, protected)
  PROVE  /\ DOMAIN u \subseteq DOMAIN t /\ protected \subseteq DOMAIN u
         /\ \A k \in DOMAIN u : u[k] = t[k]
         /\ Fits(u, DOMAIN u, MaxEntries, MaxBytes)
         /\ \A k \in DOMAIN t \ DOMAIN u :
              k \notin protected /\ \A l \in DOMAIN u \ protected : ~Staler(t, l, k)
<1>1. PICK V : V = Victims(t, protected)
  OBVIOUS
<1>2. /\ V \subseteq DOMAIN t \ protected /\ Fits(t, DOMAIN t \ V, MaxEntries, MaxBytes)
      /\ \A k \in V : \A l \in (DOMAIN t \ protected) \ V : ~Staler(t, l, k)
  BY <1>1, VictimsFacts
<1>3. u = [k \in DOMAIN t \ V |-> t[k]]
  BY <1>1 DEF Evict, Without
<1>4. DOMAIN u = DOMAIN t \ V /\ \A k \in DOMAIN u : u[k] = t[k]
  BY <1>3
<1>5. [k \in DOMAIN u |-> u[k].size] = [k \in DOMAIN t \ V |-> t[k].size]
  BY <1>4
<1>6. Bytes(u, DOMAIN u) = Bytes(t, DOMAIN t \ V)
  BY <1>5 DEF Bytes
<1>7. Fits(u, DOMAIN u, MaxEntries, MaxBytes)
  BY <1>2, <1>4, <1>6 DEF Fits
<1>8. protected \subseteq DOMAIN t
  BY DEF Spared
<1>9. QED
  BY <1>2, <1>4, <1>7, <1>8

\* Each operation changes the table soundly.
LEMMA AfterIsSound ==
  ASSUME NEW t, IsTable(t), NEW j \in Jobs, now \in Nat, Op[j] = "set" => Size[j] <= MaxBytes
  PROVE  ChangesSoundly(j, t, After(t, j))
<1>1. PICK u : u = After(t, j)
  OBVIOUS
<1>2. Op[j] \in {"get", "set", "clear", "prune"} /\ Key[j] \in Keys
  BY JobAssumption
<1>3. PICK live : live = Without(t, Dead(t))
  OBVIOUS
<1>4. /\ IsTable(live) /\ DOMAIN live = DOMAIN t \ Dead(t)
      /\ \A k \in DOMAIN live : live[k] = t[k] /\ k \in DOMAIN t
      /\ \A k \in DOMAIN t \ DOMAIN live : Expired(t[k])
  <2>1. /\ IsTable(live) /\ DOMAIN live = DOMAIN t \ Dead(t)
        /\ \A k \in DOMAIN t \ Dead(t) : live[k] = t[k]
    BY <1>3, WithoutLoses
  <2>2. \A k \in Dead(t) : Expired(t[k])
    BY DEF Dead
  <2>3. QED
    BY <2>1, <2>2
<1>5. CASE Op[j] = "get"
  <2>1. u = Read(t, Key[j]) /\ Protected(j) = {}
    BY <1>1, <1>5 DEF After, Protected
  <2>2. CASE u = t
    BY <1>1, <1>5, <2>1, <2>2 DEF ChangesSoundly
  <2>3. CASE u = live
    BY <1>1, <1>4, <1>5, <2>1, <2>3 DEF ChangesSoundly
  <2>4. CASE Key[j] \in DOMAIN t /\ u = [t EXCEPT ![Key[j]].accessed = now]
    <3>1. t \in [DOMAIN t -> Rows] /\ t[Key[j]] \in Rows
      BY <2>4 DEF IsTable
    <3>2. DOMAIN u = DOMAIN t /\ \A k \in DOMAIN t : u[k].size = t[k].size
      BY <2>4, <3>1 DEF Rows
    <3>3. QED
      BY <1>1, <1>5, <2>1, <3>2 DEF ChangesSoundly
  <2>5. QED
    BY <1>3, <2>1, <2>2, <2>3, <2>4 DEF Read
<1>6. CASE Op[j] = "clear"
  <2>1. u = <<>> /\ Protected(j) = {}
    BY <1>1, <1>6 DEF After, None, Protected
  <2>2. DOMAIN u = {}
    BY <2>1
  <2>3. IsTable(u)
    <3>1. u \in [{} -> Rows]
      BY <2>1
    <3>2. QED
      BY <2>2, <3>1, FS_EmptySet DEF IsTable
  <2>4. Bytes(u, {}) = 0 /\ Cardinality({}) = 0
    BY <2>2, <2>3, BytesFacts
  <2>5. MaxEntries \in Nat /\ MaxBytes \in Nat
    BY JobAssumption
  <2>6. Fits(u, DOMAIN u, MaxEntries, MaxBytes)
    BY <2>2, <2>4, <2>5 DEF Fits
  <2>7. QED
    BY <1>1, <1>6, <2>1, <2>6 DEF ChangesSoundly
<1>7. CASE Op[j] = "prune"
  <2>1. u = Evict(live, {}) /\ Protected(j) = {}
    BY <1>1, <1>3, <1>7 DEF After, Protected
  <2>2. Spared(live, {})
    BY DEF Spared
  <2>3. /\ DOMAIN u \subseteq DOMAIN live
        /\ Fits(u, DOMAIN u, MaxEntries, MaxBytes)
        /\ \A k \in DOMAIN live \ DOMAIN u : \A l \in DOMAIN u : ~Staler(live, l, k)
    BY <1>4, <2>1, <2>2, EvictFacts
  <2>4. ASSUME NEW k \in DOMAIN t \ DOMAIN u, NEW l \in DOMAIN u, ~Expired(t[k])
        PROVE  ~Staler(t, l, k)
    <3>1. k \in DOMAIN live \ DOMAIN u /\ l \in DOMAIN live
      BY <1>4, <2>3, <2>4
    <3>2. live[k] = t[k] /\ live[l] = t[l] /\ ~Staler(live, l, k)
      BY <1>4, <2>3, <3>1
    <3>3. QED
      BY <3>2 DEF Staler
  <2>5. QED
    BY <1>1, <1>7, <2>1, <2>3, <2>4 DEF ChangesSoundly
<1>8. CASE Op[j] = "set"
  <2>1. PICK key : key = Key[j] /\ Protected(j) = {key}
    BY <1>8 DEF Protected
  <2>2. PICK row : row = [value |-> j, size |-> Size[j], created |-> now, accessed |-> now,
                          expires |-> now + TTL]
    OBVIOUS
  <2>3. row \in Rows /\ row.value = j /\ row.size <= MaxBytes
    BY <1>8, <2>2, JobAssumption DEF Rows
  <2>4. PICK full : full = [k \in DOMAIN live \cup {key} |-> IF k = key THEN row ELSE live[k]]
    OBVIOUS
  <2>5. u = Evict(full, {key})
    BY <1>1, <1>3, <1>8, <2>1, <2>2, <2>4 DEF After, Stored
  <2>6. /\ DOMAIN full = DOMAIN live \cup {key} /\ full[key] = row
        /\ \A k \in DOMAIN live : k # key => full[k] = live[k]
    BY <2>4
  <2>7. IsTable(full)
    <3>1. full \in [DOMAIN full -> Rows]
      BY <1>4, <2>3, <2>4, <2>6 DEF IsTable
    <3>2. IsFiniteSet(DOMAIN full)
      BY <1>4, <2>6, FS_AddElement DEF IsTable
    <3>3. DOMAIN full \subseteq Keys
      BY <1>2, <1>4, <2>1, <2>6 DEF IsTable
    <3>4. QED
      BY <3>1, <3>2, <3>3 DEF IsTable
  <2>8. Spared(full, {key})
    BY <2>3, <2>6 DEF Spared
  <2>9. /\ DOMAIN u \subseteq DOMAIN full /\ key \in DOMAIN u
        /\ \A k \in DOMAIN u : u[k] = full[k]
        /\ Fits(u, DOMAIN u, MaxEntries, MaxBytes)
        /\ \A k \in DOMAIN full \ DOMAIN u : \A l \in DOMAIN u \ {key} : ~Staler(full, l, k)
    <3>1. PICK protected : protected = {key}
      OBVIOUS
    <3>2. u = Evict(full, protected) /\ Spared(full, protected)
      BY <2>5, <2>8, <3>1
    <3>3. /\ DOMAIN u \subseteq DOMAIN full /\ protected \subseteq DOMAIN u
          /\ \A k \in DOMAIN u : u[k] = full[k]
          /\ Fits(u, DOMAIN u, MaxEntries, MaxBytes)
          /\ \A k \in DOMAIN full \ DOMAIN u :
               k \notin protected /\ \A l \in DOMAIN u \ protected : ~Staler(full, l, k)
      BY <2>7, <3>2, EvictFacts
    <3>4. QED
      BY <3>1, <3>3
  <2>10. u[key].value = j
    BY <2>3, <2>6, <2>9
  <2>11. ASSUME NEW k \in DOMAIN t \ DOMAIN u, NEW l \in DOMAIN u \ {key}, ~Expired(t[k])
         PROVE  ~Staler(t, l, k)
    <3>1. k \in DOMAIN live /\ k # key /\ l \in DOMAIN live /\ l # key
      BY <1>4, <2>6, <2>9, <2>11
    <3>2. full[k] = t[k] /\ full[l] = t[l] /\ ~Staler(full, l, k)
      BY <1>4, <2>6, <2>9, <3>1
    <3>3. QED
      BY <3>2 DEF Staler
  <2>12. QED
    BY <1>1, <1>8, <2>1, <2>9, <2>10, <2>11 DEF ChangesSoundly
<1>9. QED
  BY <1>2, <1>5, <1>6, <1>7, <1>8

-------------------------------------------------------------------------------
\* The file: no file is destroyed.

\* The file at the path is none of those set aside; whoever is between the two renames
\* has set one aside.
FileInv ==
  /\ path # NoFile => kind[path] # "absent" /\ path \notin aside
  /\ \A f \in aside : kind[f] # "absent"
  /\ \A i \in Instances : phase[i] = "following" => conn[i] \in aside

FileOK == FileTypeOK /\ FileInv

\* What NothingIsDestroyed says of a step.
KeepsFiles ==
  \A f \in Files :
    /\ kind[f] # "absent" => kind'[f] = kind[f] \/ kind[f] = "empty"
    /\ f \in aside => f \in aside'
    /\ path = f => \/ path' = f /\ (log = f => log' = f \/ Closing(f))
                   \/ f \in aside'
                   \/ Parting(f)

LEMMA TryingToOpen ==
  ASSUME FileOK, NEW i \in Instances, TryOpen(i)
  PROVE  FileOK' /\ KeepsFiles /\ (phase'[i] = "open" => conn'[i] \in Files)
<1> USE FileAssumption DEF FileOK, FileTypeOK, Enter
<1>1. PICK f \in IF path = NoFile THEN Unused ELSE {path} :
        LET found == IF path = NoFile THEN "empty" ELSE kind[f]
            next  == Verdict(found, phase[i])
        IN /\ path' = f
           /\ kind' = [kind EXCEPT ![f] = IF next = "open" THEN "current" ELSE found]
           /\ conn' = [conn EXCEPT ![i] = IF next = "open" THEN f ELSE NoFile]
           /\ log' = IF next = "open" THEN f ELSE log
           /\ phase' = [phase EXCEPT ![i] = next]
  BY DEF TryOpen
<1>2. PICK found, next : found = (IF path = NoFile THEN "empty" ELSE kind[f]) /\ next = Verdict(found, phase[i])
  OBVIOUS
<1>3. f \in Files /\ (path = NoFile => kind[f] = "absent") /\ (path # NoFile => f = path)
  BY DEF Unused
<1>4. found \in Kinds /\ found # "absent" /\ next \in {"open", "disabled", "quarantining"}
      /\ (next = "open" => found \in {"empty", "current"})
  BY <1>2, <1>3 DEF Verdict, Kinds, FileInv
<1>5. /\ path' = f
      /\ kind' = [kind EXCEPT ![f] = IF next = "open" THEN "current" ELSE found]
      /\ conn' = [conn EXCEPT ![i] = IF next = "open" THEN f ELSE NoFile]
      /\ log' = IF next = "open" THEN f ELSE log
      /\ phase' = [phase EXCEPT ![i] = next]
      /\ aside' = aside /\ main' = main
  BY <1>1, <1>2 DEF TryOpen
<1>6. FileTypeOK'
  BY <1>3, <1>4, <1>5 DEF Kinds
<1>7. f \notin aside /\ kind'[f] # "absent" /\ \A g \in Files \ {f} : kind'[g] = kind[g]
  BY <1>3, <1>4, <1>5 DEF FileInv
<1>8. FileInv'
  BY <1>4, <1>5, <1>7 DEF FileInv
<1>9. KeepsFiles
  <2>1. kind[f] # "absent" => kind'[f] = kind[f] \/ kind[f] = "empty"
    BY <1>2, <1>3, <1>4, <1>5 DEF FileInv
  <2>2. log = f => log' = f
    BY <1>5
  <2>3. QED
    BY <1>3, <1>5, <1>7, <2>1, <2>2 DEF KeepsFiles
<1>10. QED
  BY <1>3, <1>5, <1>6, <1>8, <1>9

LEMMA Opening ==
  ASSUME FileOK, NEW i \in Instances, Open(i)
  PROVE  /\ FileOK' /\ KeepsFiles
         /\ phase[i] # "open" /\ phase[i] # "closed"
         /\ \A j \in Instances \ {i} : phase'[j] = phase[j] /\ conn'[j] = conn[j]
         /\ phase'[i] = "open" => conn'[i] \in Files
         /\ phase'[i] # "closed"
<1> USE FileAssumption DEF FileOK, FileTypeOK, Enter
<1>1. CASE Prepare(i) \/ PrepareFails(i) \/ TryOpenFails(i) \/ QuarantineFails(i)
  BY <1>1 DEF Prepare, PrepareFails, TryOpenFails, QuarantineFails, FileInv, KeepsFiles
<1>2. CASE CreatePrivateFile(i)
  <2>1. /\ phase[i] \in {"creating", "recreating"}
        /\ phase' = [phase EXCEPT ![i] = IF phase[i] = "creating" THEN "opening" ELSE "reopening"]
        /\ log' = log /\ main' = main /\ aside' = aside /\ conn' = conn
    BY <1>2 DEF CreatePrivateFile
  <2>2. CASE path # NoFile
    <3>1. path' = path /\ kind' = kind
      BY <1>2, <2>2 DEF CreatePrivateFile, CreateIfAbsent
    <3>2. QED
      BY <2>1, <3>1 DEF FileInv, KeepsFiles
  <2>3. CASE path = NoFile
    <3>1. PICK f \in Unused : path' = f /\ kind' = [kind EXCEPT ![f] = "empty"]
      BY <1>2, <2>3 DEF CreatePrivateFile, CreateIfAbsent
    <3>2. f \in Files /\ kind[f] = "absent"
      BY DEF Unused
    <3>3. FileTypeOK'
      BY <2>1, <3>1, <3>2 DEF Kinds
    <3>4. FileInv' /\ KeepsFiles
      BY <2>1, <2>3, <3>1, <3>2 DEF FileInv, KeepsFiles
    <3>5. QED
      BY <2>1, <3>3, <3>4
  <2>4. QED
    BY <2>2, <2>3
<1>3. CASE TryOpen(i)
  <2>1. /\ phase[i] \in {"opening", "reopening"}
        /\ \E f \in Files, next \in {"open", "disabled", "quarantining"} :
             conn' = [conn EXCEPT ![i] = IF next = "open" THEN f ELSE NoFile] /\ phase' = [phase EXCEPT ![i] = next]
    BY <1>3 DEF TryOpen, Verdict, Unused
  <2>2. QED
    BY <1>3, <2>1, TryingToOpen
<1>4. CASE Quarantine(i)
  <2>1. /\ phase[i] = "quarantining" /\ path \in Files
        /\ aside' = aside \cup {path} /\ path' = NoFile /\ conn' = [conn EXCEPT ![i] = path]
        /\ phase' = [phase EXCEPT ![i] = "following"]
        /\ log' = log /\ main' = main /\ kind' = kind
    BY <1>4 DEF Quarantine
  <2>2. QED
    BY <2>1 DEF FileInv, KeepsFiles
<1>5. CASE MoveSidecars(i)
  <2>1. /\ phase[i] = "following" /\ conn' = [conn EXCEPT ![i] = NoFile]
        /\ phase' = [phase EXCEPT ![i] = "recreating"]
        /\ log' \in {log, NoFile} /\ (log = path => log' = log)
        /\ path' = path /\ main' = main /\ kind' = kind /\ aside' = aside
    BY <1>5 DEF MoveSidecars
  <2>2. QED
    BY <2>1 DEF FileInv, KeepsFiles
<1>6. QED
  BY <1>1, <1>2, <1>3, <1>4, <1>5 DEF Open

LEMMA TakingALog ==
  ASSUME FileOK, NEW i \in Instances, NEW h \in Unused, NEW left \in {"empty", "current"},
         TakeLogOfAnother(i, h, left)
  PROVE  /\ FileOK' /\ KeepsFiles
         /\ phase[i] = "following" /\ phase'[i] = "recreating"
         /\ \A j \in Instances \ {i} : phase'[j] = phase[j] /\ conn'[j] = conn[j]
         /\ path \in Files \ {h} /\ h \in Files /\ main'[path] = main'[h]
<1> USE FileAssumption DEF FileOK, FileTypeOK, Enter
<1>1. /\ phase[i] = "following" /\ path \in Files /\ log = path /\ path' = h /\ log' = NoFile
      /\ main' = [main EXCEPT ![h] = main[path]] /\ kind' = [kind EXCEPT ![h] = left]
      /\ conn' = [conn EXCEPT ![i] = NoFile] /\ phase' = [phase EXCEPT ![i] = "recreating"]
      /\ aside' = aside
  BY DEF TakeLogOfAnother
<1>2. h \in Files /\ kind[h] = "absent" /\ h # path /\ h \notin aside /\ left \in Kinds /\ left # "absent"
  BY <1>1 DEF Unused, FileInv, Kinds
<1>3. FileTypeOK'
  BY <1>1, <1>2
<1>4. FileInv'
  BY <1>1, <1>2 DEF FileInv
<1>5. Parting(path)
  BY <1>1, <1>2 DEF Parting, FileInv
<1>6. KeepsFiles
  BY <1>1, <1>2, <1>5 DEF KeepsFiles
<1>7. QED
  BY <1>1, <1>2, <1>3, <1>4, <1>6

LEMMA ClosingKeepsFiles ==
  ASSUME FileOK, NEW i \in Instances, phase[i] = "open", CloseConnection(i)
  PROVE  FileOK' /\ KeepsFiles
<1> USE FileAssumption DEF FileOK, FileTypeOK, Enter
<1>1. /\ phase' = [phase EXCEPT ![i] = "closed"] /\ log' = IF WritesBack(i) THEN NoFile ELSE log
      /\ path' = path /\ main' = main /\ kind' = kind /\ aside' = aside /\ conn' = conn
  BY DEF CloseConnection
<1>2. FileTypeOK' /\ FileInv'
  BY <1>1 DEF FileInv
<1>3. ASSUME NEW f \in Files, path = f, log = f, log' # f PROVE Closing(f)
  BY <1>1, <1>3 DEF WritesBack, Closing
<1>4. KeepsFiles
  BY <1>1, <1>3 DEF KeepsFiles
<1>5. QED
  BY <1>2, <1>4

-------------------------------------------------------------------------------
\* The jobs of the database: what waits, what runs, and what has been told.

TablesInv ==
  /\ DOMAIN rows = Files /\ \A f \in Files : IsTable(rows[f])
  /\ DOMAIN saved = Files /\ \A f \in Files : IsTable(saved[f])
  /\ now \in Nat

WorkTyped ==
  /\ queue \in [Instances -> Seq(Jobs \cup Closers)]
  /\ busy \in [Instances -> Jobs \cup {Nobody}]
  /\ shut \in [Instances -> BOOLEAN]
  /\ job \in [Jobs -> {"idle", "waiting", "abandoned", "answered"}]
  /\ DOMAIN reply = Jobs

\* Only an open instance has work, and nothing is queued behind a sentinel.
WorkInOrder ==
  \A i \in Instances :
    /\ phase[i] = "open" => conn[i] \in Files
    /\ phase[i] # "open" => queue[i] = <<>> /\ busy[i] = Nobody
    /\ \A n \in 1..Len(queue[i]) : queue[i][n] \in Closers => n = Len(queue[i]) /\ shut[i]

\* No value above the byte limit is handed to a worker.
Storable(j) == Op[j] = "set" => Size[j] <= MaxBytes

Pending(j, i) ==
  At[j] = i /\ reply[j] = {} /\ job[j] \in {"waiting", "abandoned"} /\ Storable(j)

PendingThen(j, i) ==
  At[j] = i /\ reply'[j] = {} /\ job'[j] \in {"waiting", "abandoned"} /\ Storable(j)

\* A job is in one place of one queue, or running; it has not been answered.
WorkIsPending ==
  \A i \in Instances :
    /\ \A n \in 1..Len(queue[i]) :
         queue[i][n] \in Jobs => Pending(queue[i][n], i) /\ queue[i][n] # busy[i]
    /\ \A m, n \in 1..Len(queue[i]) :
         queue[i][m] \in Jobs /\ queue[i][m] = queue[i][n] => m = n
    /\ busy[i] # Nobody => Pending(busy[i], i)

Answers == Jobs \cup {"earlier", "done", Missing}
RepliesInv ==
  \A j \in Jobs :
    /\ job[j] = "idle" => reply[j] = {}
    /\ reply[j] = {} \/ \E a \in Answers : reply[j] = {a}

SQLiteInv == FileOK /\ TablesInv /\ WorkTyped /\ WorkInOrder /\ WorkIsPending /\ RepliesInv

\* A step that leaves the jobs, their queues and their replies alone.
LEMMA WorkUnmoved ==
  ASSUME WorkIsPending, RepliesInv,
         queue' = queue, busy' = busy, job' = job, reply' = reply
  PROVE  WorkIsPending' /\ RepliesInv'
<1>1. \A l, h : Pending(l, h)' <=> Pending(l, h)
  BY DEF Pending
<1>2. WorkIsPending'
  BY <1>1 DEF WorkIsPending
<1>3. RepliesInv'
  BY DEF RepliesInv
<1>4. QED
  BY <1>2, <1>3

LEMMA DrainsQueue ==
  ASSUME SQLiteInv PROVE CloseDrainsQueue
<1>1. \A j \in Jobs : reply[j] # {"unreachable"}
  <2> SUFFICES ASSUME NEW j \in Jobs, reply[j] = {"unreachable"} PROVE FALSE
    OBVIOUS
  <2>1. PICK a \in Answers : reply[j] = {a}
    BY DEF SQLiteInv, RepliesInv
  <2>2. "unreachable" \in Answers
    BY <2>1
  <2>3. QED
    BY <2>2, JobAssumption DEF Answers
<1>2. \A i \in Instances : phase[i] = "closed" => queue[i] = <<>> /\ busy[i] = Nobody
  BY DEF SQLiteInv, WorkInOrder
<1>3. QED
  BY <1>1, <1>2 DEF CloseDrainsQueue

\* What a step means for the lossy cache.
Gets == {j \in Jobs : Op[j] = "get"}
\* The values a key may still answer with, in the tables and in what was written back.
Copies(k) == UNION {LiveAt(rows[f], k, now) \cup LiveAt(saved[f], k, now) : f \in Files}
CopiesThen(k) == UNION {LiveAt(rows'[f], k, now') \cup LiveAt(saved'[f], k, now') : f \in Files}
Silent == \A j \in Gets : reply'[j] = reply[j]

Losing == Silent /\ \A k \in Keys : CopiesThen(k) \subseteq Copies(k)
Putting(k, v) ==
  /\ Silent /\ CopiesThen(k) \subseteq Copies(k) \cup {v}
  /\ \A l \in Keys \ {k} : CopiesThen(l) \subseteq Copies(l)
Telling(j, a) ==
  /\ reply[j] = {} /\ reply'[j] = {a}
  /\ \A l \in Gets \ {j} : reply'[l] = reply[l]
  /\ a = Missing \/ a \in Copies(Key[j])
  /\ \A k \in Keys : CopiesThen(k) \subseteq Copies(k)
LossyStep ==
  \/ Losing
  \/ \E k \in Keys, v \in Jobs : Putting(k, v)
  \/ \E j \in Gets, a \in Answers : Telling(j, a)

LEMMA Frozen ==
  ASSUME rows' = rows, saved' = saved, now' = now
  PROVE  \A k : CopiesThen(k) = Copies(k)
BY DEF Copies, CopiesThen

LEMMA CopiesHold ==
  ASSUME NEW k
  PROVE  /\ \A f \in Files : /\ LiveAt(rows[f], k, now) \subseteq Copies(k)
                             /\ LiveAt(saved[f], k, now) \subseteq Copies(k)
         /\ \A S : (\A f \in Files : /\ LiveAt(rows'[f], k, now') \subseteq S
                                     /\ LiveAt(saved'[f], k, now') \subseteq S) => CopiesThen(k) \subseteq S
BY DEF Copies, CopiesThen

LEMMA NoneIsATable == IsTable(None) /\ \A k, clock : LiveAt(None, k, clock) = {}
<1>1. None = <<>> /\ DOMAIN <<>> = {} /\ <<>> \in [{} -> Rows]
  BY DEF None
<1>2. QED
  BY <1>1, FS_EmptySet DEF IsTable, LiveAt

\* What is written back is read in its own file; the others then have it, what one of
\* them had, or nothing.
LEMMA WritingBack ==
  ASSUME TablesInv, NEW f \in Files, NEW t, WriteBack(f, t)
  PROVE  /\ DOMAIN rows' = Files /\ DOMAIN saved' = Files /\ rows'[f] = t
         /\ \A g \in Files : saved'[g] \in {t, saved[g]}
         /\ \A g \in Files : rows'[g] \in {t, None} \cup {rows[h] : h \in Files}
         /\ \A g \in Files \ {f} : main[g] = main[f] \/ rows'[g] = rows[g]
<1>1. saved' = [g \in Files |-> IF main[g] = main[f] THEN t ELSE saved[g]]
  BY DEF WriteBack
<1>2. PICK seen \in [Others(f) -> {t, None} \cup {rows[g] : g \in Others(f)}] :
        rows' = [g \in Files |-> IF g = f THEN t ELSE IF g \in Others(f) THEN seen[g] ELSE rows[g]]
  BY DEF WriteBack
<1>3. Others(f) \subseteq Files /\ \A g \in Others(f) : main[g] = main[f]
  BY DEF Others
<1>4. \A g \in Others(f) : seen[g] \in {t, None} \cup {rows[h] : h \in Files}
  BY <1>2, <1>3
<1>5. \A g \in Files : rows'[g] \in {t, None} \cup {rows[h] : h \in Files}
  BY <1>2, <1>4
<1>6. \A g \in Files \ {f} : main[g] = main[f] \/ rows'[g] = rows[g]
  BY <1>2, <1>3
<1>7. QED
  BY <1>1, <1>2, <1>5, <1>6

LEMMA Committing ==
  ASSUME TablesInv, NEW f \in Files, NEW t, Commit(f, t)
  PROVE  /\ DOMAIN rows' = Files /\ DOMAIN saved' = Files /\ rows'[f] = t
         /\ \A g \in Files : saved'[g] \in {t, saved[g]}
         /\ \A g \in Files : rows'[g] \in {t, None} \cup {rows[h] : h \in Files}
         /\ \A g \in Files \ {f} : main[g] = main[f] \/ rows'[g] = rows[g]
<1>1. CASE WriteBack(f, t)
  BY <1>1, WritingBack
<1>2. CASE rows' = [rows EXCEPT ![f] = t] /\ saved' = saved
  BY <1>2 DEF TablesInv
<1>3. QED
  BY <1>1, <1>2 DEF Commit

\* The tables stay tables, and what is read comes from what was there or from t.
LEMMA Mixing ==
  ASSUME TablesInv, NEW t, IsTable(t), now' = now, DOMAIN rows' = Files, DOMAIN saved' = Files,
         \A g \in Files : saved'[g] \in {t, saved[g]},
         \A g \in Files : rows'[g] \in {t, None} \cup {rows[h] : h \in Files}
  PROVE  TablesInv' /\ \A k : CopiesThen(k) \subseteq Copies(k) \cup LiveAt(t, k, now)
<1>1. TablesInv'
  BY NoneIsATable DEF TablesInv
<1>2. ASSUME NEW k PROVE CopiesThen(k) \subseteq Copies(k) \cup LiveAt(t, k, now)
  <2>1. \A f \in Files : /\ LiveAt(rows[f], k, now) \subseteq Copies(k)
                         /\ LiveAt(saved[f], k, now) \subseteq Copies(k)
    BY CopiesHold
  <2>2. ASSUME NEW g \in Files
        PROVE  /\ LiveAt(rows'[g], k, now') \subseteq Copies(k) \cup LiveAt(t, k, now)
               /\ LiveAt(saved'[g], k, now') \subseteq Copies(k) \cup LiveAt(t, k, now)
    <3>1. LiveAt(None, k, now) = {}
      BY NoneIsATable
    <3>2. LiveAt(saved'[g], k, now) \subseteq Copies(k) \cup LiveAt(t, k, now)
      BY <2>1
    <3>3. LiveAt(rows'[g], k, now) \subseteq Copies(k) \cup LiveAt(t, k, now)
      <4>1. rows'[g] = t \/ rows'[g] = None \/ \E h \in Files : rows'[g] = rows[h]
        OBVIOUS
      <4>2. QED
        BY <2>1, <3>1, <4>1
    <3>4. QED
      BY <3>2, <3>3
  <2>3. QED
    BY <2>2, CopiesHold
<1>3. QED
  BY <1>1, <1>2

\* _post_result resolves the future of one job.
LEMMA PostOne ==
  ASSUME WorkTyped, NEW j \in Jobs, NEW a, Post({j}, a)
  PROVE  /\ DOMAIN reply' = Jobs /\ reply'[j] = {a} /\ \A l \in Jobs \ {j} : reply'[l] = reply[l]
         /\ job' \in [Jobs -> {"idle", "waiting", "abandoned", "answered"}]
         /\ job'[j] \in {"answered", "abandoned"} /\ \A l \in Jobs \ {j} : job'[l] = job[l]
<1>1. reply' = [l \in Jobs |-> IF l = j THEN {a} ELSE reply[l]]
  BY DEF Post
<1>2. job' = [l \in Jobs |-> IF l = j /\ job[l] # "abandoned" THEN "answered" ELSE job[l]]
  BY DEF Post
<1>3. QED
  BY <1>1, <1>2 DEF WorkTyped

\* A step at one job keeps what is pending of the others.
LEMMA PendingKept ==
  ASSUME WorkTyped, WorkIsPending, NEW j,
         queue' = queue, busy' = busy,
         \A l \in Jobs \ {j} : reply'[l] = reply[l] /\ job'[l] = job[l],
         \A i \in Instances : /\ busy[i] # j
                              /\ \A n \in 1..Len(queue[i]) : queue[i][n] # j
  PROVE  WorkIsPending'
<1>1. ASSUME NEW i \in Instances
      PROVE  /\ \A n \in 1..Len(queue[i]) : queue[i][n] \in Jobs => PendingThen(queue[i][n], i)
             /\ busy[i] # Nobody => PendingThen(busy[i], i)
  <2>1. busy[i] \in Jobs \cup {Nobody}
    BY DEF WorkTyped
  <2>2. ASSUME NEW l \in Jobs, l # j, Pending(l, i) PROVE PendingThen(l, i)
    BY <2>2 DEF Pending, PendingThen
  <2>3. QED
    BY <2>1, <2>2 DEF WorkIsPending
<1>2. QED
  BY <1>1 DEF WorkIsPending, Pending, PendingThen

LEMMA SubmitStep ==
  ASSUME SQLiteInv, NEW j \in Jobs, Submit(j)
  PROVE  SQLiteInv' /\ LossyStep
<1> DEFINE i == At[j]
<1>0. /\ FileOK /\ TablesInv /\ WorkTyped /\ WorkInOrder /\ WorkIsPending /\ RepliesInv
      /\ i \in Instances /\ job[j] = "idle" /\ reply[j] = {}
  BY JobAssumption DEF SQLiteInv, Submit, RepliesInv
<1>1. /\ path' = path /\ log' = log /\ main' = main /\ kind' = kind /\ aside' = aside /\ phase' = phase /\ conn' = conn
      /\ rows' = rows /\ saved' = saved /\ now' = now /\ busy' = busy /\ shut' = shut
  BY DEF Submit, fileVars
<1>2. FileOK' /\ TablesInv'
  BY <1>0, <1>1 DEF FileOK, FileTypeOK, FileInv, TablesInv
<1>3. \A k : CopiesThen(k) = Copies(k)
  BY <1>1, Frozen
\* It is in no queue and not running.
<1>4. \A h \in Instances : busy[h] # j /\ \A n \in 1..Len(queue[h]) : queue[h][n] # j
  <2>1. \A h \in Instances : ~Pending(j, h)
    BY <1>0 DEF Pending
  <2>2. j # Nobody
    BY JobAssumption DEF Nobody
  <2>3. QED
    BY <1>0, <2>1, <2>2 DEF WorkIsPending
<1>5. CASE Accepted(j)
  <2>1. /\ queue' = [queue EXCEPT ![i] = Append(queue[i], j)]
        /\ job' = [job EXCEPT ![j] = "waiting"] /\ reply' = reply
        /\ phase[i] = "open" /\ ~shut[i]
    BY <1>5 DEF Submit, Step, Accepted, Usable, Available
  <2> DEFINE q == Append(queue[i], j)
  <2>2. queue[i] \in Seq(Jobs \cup Closers)
    BY <1>0 DEF WorkTyped
  <2>3. /\ q \in Seq(Jobs \cup Closers) /\ Len(q) = Len(queue[i]) + 1 /\ Len(queue[i]) \in Nat
        /\ q[Len(queue[i]) + 1] = j /\ \A n \in 1..Len(queue[i]) : q[n] = queue[i][n]
    BY <2>2, AppendProperties, LenProperties
  <2> HIDE DEF q
  <2>4. /\ queue' \in [Instances -> Seq(Jobs \cup Closers)]
        /\ queue'[i] = q /\ \A h \in Instances \ {i} : queue'[h] = queue[h]
    BY <1>0, <2>1, <2>3 DEF WorkTyped, q
  <2>5. /\ job' \in [Jobs -> {"idle", "waiting", "abandoned", "answered"}]
        /\ job'[j] = "waiting" /\ \A l \in Jobs \ {j} : job'[l] = job[l]
    BY <1>0, <2>1 DEF WorkTyped
  <2>6. WorkTyped'
    BY <1>0, <1>1, <2>1, <2>4, <2>5 DEF WorkTyped
  <2>7. \A n \in 1..Len(q) : n \in 1..Len(queue[i]) \/ n = Len(queue[i]) + 1
    BY <2>3
  <2>8. \A n \in 1..Len(queue[i]) : queue[i][n] \notin Closers
    BY <1>0, <2>1 DEF WorkInOrder
  <2>9. j \notin Closers
    BY JobAssumption
  <2>10. WorkInOrder'
    <3> SUFFICES ASSUME NEW h \in Instances
                 PROVE  /\ phase[h] = "open" => conn[h] \in Files
                        /\ phase[h] # "open" => queue'[h] = <<>> /\ busy[h] = Nobody
                        /\ \A n \in 1..Len(queue'[h]) :
                             queue'[h][n] \in Closers => n = Len(queue'[h]) /\ shut[h]
      BY <1>1 DEF WorkInOrder
    <3>1. CASE h = i
      BY <1>0, <2>1, <2>3, <2>4, <2>7, <2>8, <2>9, <3>1 DEF WorkInOrder
    <3>2. CASE h # i
      BY <1>0, <2>4, <3>2 DEF WorkInOrder
    <3>3. QED
      BY <3>1, <3>2
  <2>11. ASSUME NEW h \in Instances, NEW l \in Jobs, Pending(l, h), l # j PROVE PendingThen(l, h)
    BY <2>1, <2>5, <2>11 DEF Pending, PendingThen
  <2>12. PendingThen(j, i)
    BY <1>0, <1>5, <2>1, <2>5 DEF PendingThen, Storable, Accepted
  <2>13. WorkIsPending'
    <3> SUFFICES ASSUME NEW h \in Instances
                 PROVE  /\ \A n \in 1..Len(queue'[h]) :
                             queue'[h][n] \in Jobs => PendingThen(queue'[h][n], h) /\ queue'[h][n] # busy[h]
                        /\ \A m, n \in 1..Len(queue'[h]) :
                             queue'[h][m] \in Jobs /\ queue'[h][m] = queue'[h][n] => m = n
                        /\ busy[h] # Nobody => PendingThen(busy[h], h)
      BY <1>1 DEF WorkIsPending, Pending, PendingThen
    <3>1. busy[h] # Nobody => PendingThen(busy[h], h)
      BY <1>0, <1>4, <2>11 DEF WorkIsPending, WorkTyped
    <3>2. \A n \in 1..Len(queue[h]) :
            queue[h][n] \in Jobs => PendingThen(queue[h][n], h) /\ queue[h][n] # busy[h]
      BY <1>0, <1>4, <2>11 DEF WorkIsPending
    <3>3. CASE h # i
      BY <1>0, <2>4, <3>1, <3>2, <3>3 DEF WorkIsPending
    <3>4. CASE h = i
      <4>1. \A n \in 1..Len(q) : q[n] \in Jobs => PendingThen(q[n], i) /\ q[n] # busy[i]
        BY <1>0, <1>4, <2>3, <2>7, <2>12, <3>2, <3>4
      <4>2. \A m, n \in 1..Len(q) : q[m] \in Jobs /\ q[m] = q[n] => m = n
        BY SMTT(30), <1>0, <1>4, <2>3, <2>7 DEF WorkIsPending
      <4>3. QED
        BY <2>4, <3>1, <3>4, <4>1, <4>2
    <3>5. QED
      BY <3>3, <3>4
  <2>14. RepliesInv'
    BY <1>0, <2>1, <2>5 DEF RepliesInv
  <2>15. LossyStep
    BY <1>3, <2>1 DEF LossyStep, Losing, Silent
  <2>16. QED
    BY <1>2, <2>6, <2>10, <2>13, <2>14, <2>15 DEF SQLiteInv
<1>6. CASE ~Accepted(j)
  <2>1. Post({j}, Missing) /\ queue' = queue
    BY <1>6 DEF Submit
  <2>2. /\ DOMAIN reply' = Jobs /\ reply'[j] = {Missing} /\ \A l \in Jobs \ {j} : reply'[l] = reply[l]
        /\ job' \in [Jobs -> {"idle", "waiting", "abandoned", "answered"}]
        /\ job'[j] \in {"answered", "abandoned"} /\ \A l \in Jobs \ {j} : job'[l] = job[l]
    BY <1>0, <2>1, PostOne
  <2>3. WorkTyped' /\ WorkInOrder'
    BY <1>0, <1>1, <2>1, <2>2 DEF WorkTyped, WorkInOrder
  <2>4. WorkIsPending'
    BY <1>0, <1>1, <1>4, <2>1, <2>2, PendingKept
  <2>5. RepliesInv'
    BY <1>0, <2>2 DEF RepliesInv, Answers
  <2>6. LossyStep
    <3>1. CASE j \in Gets
      <4>1. Telling(j, Missing) /\ Missing \in Answers
        BY <1>0, <1>3, <2>2, <3>1 DEF Telling, Answers, Gets
      <4>2. QED
        BY <3>1, <4>1 DEF LossyStep
    <3>2. CASE j \notin Gets
      BY <1>3, <2>2, <3>2 DEF LossyStep, Losing, Silent, Gets
    <3>3. QED
      BY <3>1, <3>2
  <2>7. QED
    BY <1>2, <2>3, <2>4, <2>5, <2>6 DEF SQLiteInv
<1>7. QED
  BY <1>5, <1>6

LEMMA CancelStep ==
  ASSUME SQLiteInv, NEW j \in Jobs, Cancel(j)
  PROVE  SQLiteInv' /\ LossyStep
<1>0. FileOK /\ TablesInv /\ WorkTyped /\ WorkInOrder /\ WorkIsPending /\ RepliesInv
  BY DEF SQLiteInv
<1>1. /\ path' = path /\ log' = log /\ main' = main /\ kind' = kind /\ aside' = aside /\ phase' = phase /\ conn' = conn
      /\ rows' = rows /\ saved' = saved /\ now' = now /\ queue' = queue /\ busy' = busy /\ shut' = shut /\ reply' = reply
      /\ job[j] = "waiting" /\ job' = [job EXCEPT ![j] = "abandoned"]
  BY DEF Cancel, fileVars, Step
<1>2. \A l \in Jobs : job'[l] = IF l = j THEN "abandoned" ELSE job[l]
  BY <1>0, <1>1 DEF WorkTyped
<1>3. FileOK' /\ TablesInv' /\ WorkTyped' /\ WorkInOrder'
  BY <1>0, <1>1 DEF FileOK, FileTypeOK, FileInv, TablesInv, WorkTyped, WorkInOrder
<1>4. ASSUME NEW i, NEW l \in Jobs, Pending(l, i) PROVE PendingThen(l, i)
  BY <1>1, <1>2, <1>4 DEF Pending, PendingThen
<1>5. WorkIsPending'
  <2> SUFFICES ASSUME NEW i \in Instances
               PROVE  /\ \A n \in 1..Len(queue[i]) : queue[i][n] \in Jobs => PendingThen(queue[i][n], i)
                      /\ busy[i] # Nobody => PendingThen(busy[i], i)
    BY <1>0, <1>1 DEF WorkIsPending, Pending, PendingThen
  <2>1. busy[i] \in Jobs \cup {Nobody}
    BY <1>0 DEF WorkTyped
  <2>2. QED
    BY <1>0, <1>4, <2>1 DEF WorkIsPending
<1>6. RepliesInv'
  BY <1>0, <1>1, <1>2 DEF RepliesInv
<1>7. LossyStep
  BY <1>1, Frozen DEF LossyStep, Losing, Silent
<1>8. QED
  BY <1>3, <1>5, <1>6, <1>7 DEF SQLiteInv

LEMMA CloseStep ==
  ASSUME SQLiteInv, NEW c \in Closers, Close(c) \/ CloseReturns(c) \/ CancelClose(c)
  PROVE  SQLiteInv' /\ LossyStep
<1> DEFINE i == At[c]
<1>0. /\ FileOK /\ TablesInv /\ WorkTyped /\ WorkInOrder /\ WorkIsPending /\ RepliesInv
      /\ i \in Instances /\ c \notin Jobs
  BY JobAssumption DEF SQLiteInv
<1>1. /\ path' = path /\ log' = log /\ main' = main /\ kind' = kind /\ aside' = aside /\ phase' = phase /\ conn' = conn
      /\ rows' = rows /\ saved' = saved /\ now' = now /\ busy' = busy /\ job' = job /\ reply' = reply
  BY DEF Close, CloseReturns, CancelClose, fileVars
<1>2. FileOK' /\ TablesInv' /\ RepliesInv' /\ LossyStep
  BY <1>0, <1>1, Frozen DEF FileOK, FileTypeOK, FileInv, TablesInv, RepliesInv, LossyStep, Losing, Silent
<1>3. \A l, h : Pending(l, h)' <=> Pending(l, h)
  BY <1>1 DEF Pending
<1>4. CASE queue' = queue /\ \A h \in Instances : shut[h] => shut'[h]
  <2>1. WorkTyped'
    <3>1. shut' \in [Instances -> BOOLEAN]
      BY <1>0 DEF WorkTyped, Close, CloseReturns, CancelClose
    <3>2. QED
      BY <1>0, <1>1, <1>4, <3>1 DEF WorkTyped
  <2>2. WorkInOrder'
    BY <1>0, <1>1, <1>4 DEF WorkInOrder
  <2>3. WorkIsPending'
    BY <1>0, <1>1, <1>3, <1>4 DEF WorkIsPending
  <2>4. QED
    BY <1>2, <2>1, <2>2, <2>3 DEF SQLiteInv
<1>5. CASE Close(c) /\ Usable(i)
  <2>1. /\ queue' = [queue EXCEPT ![i] = Append(queue[i], c)] /\ shut' = [shut EXCEPT ![i] = TRUE]
        /\ phase[i] = "open" /\ ~shut[i]
    BY <1>5 DEF Close, Usable, Available
  <2> DEFINE q == Append(queue[i], c)
  <2>2. queue[i] \in Seq(Jobs \cup Closers)
    BY <1>0 DEF WorkTyped
  <2>3. /\ q \in Seq(Jobs \cup Closers) /\ Len(q) = Len(queue[i]) + 1 /\ Len(queue[i]) \in Nat
        /\ q[Len(queue[i]) + 1] = c /\ \A n \in 1..Len(queue[i]) : q[n] = queue[i][n]
    BY <2>2, AppendProperties, LenProperties
  <2> HIDE DEF q
  <2>4. /\ queue' \in [Instances -> Seq(Jobs \cup Closers)]
        /\ queue'[i] = q /\ \A h \in Instances \ {i} : queue'[h] = queue[h]
    BY <1>0, <2>1, <2>3 DEF WorkTyped, q
  <2>5. shut' \in [Instances -> BOOLEAN] /\ shut'[i] /\ \A h \in Instances \ {i} : shut'[h] = shut[h]
    BY <1>0, <2>1 DEF WorkTyped
  <2>6. WorkTyped'
    BY <1>0, <1>1, <2>4, <2>5 DEF WorkTyped
  <2>7. \A n \in 1..Len(q) : n \in 1..Len(queue[i]) \/ n = Len(queue[i]) + 1
    BY <2>3
  <2>8. \A n \in 1..Len(queue[i]) : queue[i][n] \notin Closers
    BY <1>0, <2>1 DEF WorkInOrder
  <2>9. WorkInOrder'
    <3> SUFFICES ASSUME NEW h \in Instances
                 PROVE  /\ phase[h] = "open" => conn[h] \in Files
                        /\ phase[h] # "open" => queue'[h] = <<>> /\ busy[h] = Nobody
                        /\ \A n \in 1..Len(queue'[h]) :
                             queue'[h][n] \in Closers => n = Len(queue'[h]) /\ shut'[h]
      BY <1>1 DEF WorkInOrder
    <3>1. CASE h = i
      BY <1>0, <2>1, <2>3, <2>4, <2>5, <2>7, <2>8, <3>1 DEF WorkInOrder
    <3>2. CASE h # i
      BY <1>0, <2>4, <2>5, <3>2 DEF WorkInOrder
    <3>3. QED
      BY <3>1, <3>2
  <2>10. WorkIsPending'
    <3> SUFFICES ASSUME NEW h \in Instances
                 PROVE  /\ \A n \in 1..Len(queue'[h]) :
                             queue'[h][n] \in Jobs => Pending(queue'[h][n], h) /\ queue'[h][n] # busy[h]
                        /\ \A m, n \in 1..Len(queue'[h]) :
                             queue'[h][m] \in Jobs /\ queue'[h][m] = queue'[h][n] => m = n
      BY <1>0, <1>1, <1>3 DEF WorkIsPending
    <3>1. CASE h # i
      BY <1>0, <2>4, <3>1 DEF WorkIsPending
    <3>2. CASE h = i
      <4>1. \A n \in 1..Len(q) : q[n] \in Jobs => n \in 1..Len(queue[i])
        BY <1>0, <2>3, <2>7
      <4>2. \A m, n \in 1..Len(q) : q[m] \in Jobs /\ q[m] = q[n] => m = n
        BY SMTT(30), <1>0, <2>3, <4>1 DEF WorkIsPending
      <4>3. \A n \in 1..Len(q) : q[n] \in Jobs => Pending(q[n], i) /\ q[n] # busy[i]
        BY <1>0, <2>3, <4>1 DEF WorkIsPending
      <4>4. QED
        BY <2>4, <3>2, <4>2, <4>3
    <3>3. QED
      BY <3>1, <3>2
  <2>11. QED
    BY <1>2, <2>6, <2>9, <2>10 DEF SQLiteInv
<1>6. CASE Close(c) /\ ~Usable(i)
  BY <1>0, <1>4, <1>6 DEF Close, WorkTyped
<1>7. CASE CloseReturns(c) \/ CancelClose(c)
  BY <1>4, <1>7 DEF CloseReturns, CancelClose
<1>8. QED
  BY <1>5, <1>6, <1>7

LEMMA OpenStep ==
  ASSUME SQLiteInv, NEW i \in Instances, OpenDatabase(i)
  PROVE  SQLiteInv' /\ LossyStep
<1>0. FileOK /\ TablesInv /\ WorkTyped /\ WorkInOrder /\ WorkIsPending /\ RepliesInv
  BY DEF SQLiteInv
<1>1. /\ now' = now /\ queue' = queue /\ busy' = busy /\ shut' = shut
      /\ job' = job /\ reply' = reply
      /\ TablesInv' /\ \A k : CopiesThen(k) \subseteq Copies(k)
      /\ FileOK' /\ phase[i] # "open" /\ (phase'[i] = "open" => conn'[i] \in Files)
      /\ \A h \in Instances \ {i} : phase'[h] = phase[h] /\ conn'[h] = conn[h]
  <2>1. CASE Open(i) /\ UNCHANGED cacheVars
    <3>1. /\ rows' = rows /\ saved' = saved /\ now' = now /\ queue' = queue /\ busy' = busy
          /\ shut' = shut /\ job' = job /\ reply' = reply
      BY <2>1 DEF cacheVars
    <3>2. TablesInv'
      BY <1>0, <3>1 DEF TablesInv
    <3>3. QED
      BY <1>0, <2>1, <3>1, <3>2, Opening, Frozen
  <2>2. CASE TakeLog(i)
    <3>1. PICK h \in Unused :
            /\ TakeLogOfAnother(i, h, IF saved[path] = None THEN "empty" ELSE "current")
            /\ rows' = [rows EXCEPT ![h] = saved[path]]
            /\ saved' = [saved EXCEPT ![h] = saved[path]]
      BY <2>2 DEF TakeLog
    <3>2. /\ FileOK' /\ phase[i] = "following" /\ phase'[i] = "recreating"
          /\ \A j \in Instances \ {i} : phase'[j] = phase[j] /\ conn'[j] = conn[j]
          /\ path \in Files \ {h} /\ h \in Files
      BY <1>0, <3>1, TakingALog
    <3>3. now' = now /\ queue' = queue /\ busy' = busy /\ shut' = shut /\ job' = job /\ reply' = reply
      BY <2>2 DEF TakeLog
    <3>4. /\ DOMAIN rows' = Files /\ DOMAIN saved' = Files
          /\ \A g \in Files : rows'[g] \in {rows[g], saved[path]} /\ saved'[g] \in {saved[g], saved[path]}
      BY <1>0, <3>1 DEF TablesInv
    <3>5. TablesInv'
      BY <1>0, <3>2, <3>3, <3>4 DEF TablesInv
    <3>6. ASSUME NEW k PROVE CopiesThen(k) \subseteq Copies(k)
      <4>1. \A f \in Files : /\ LiveAt(rows[f], k, now) \subseteq Copies(k)
                             /\ LiveAt(saved[f], k, now) \subseteq Copies(k)
        BY CopiesHold
      <4>2. \A f \in Files : /\ LiveAt(rows'[f], k, now') \subseteq Copies(k)
                             /\ LiveAt(saved'[f], k, now') \subseteq Copies(k)
        BY <3>2, <3>3, <3>4, <4>1
      <4>3. QED
        BY <4>2, CopiesHold
    <3>7. QED
      BY <3>2, <3>3, <3>5, <3>6
  <2>3. QED
    BY <2>1, <2>2 DEF OpenDatabase
<1>2. WorkTyped' /\ WorkIsPending' /\ RepliesInv' /\ LossyStep
  <2>1. WorkTyped'
    BY <1>0, <1>1 DEF WorkTyped
  <2>2. WorkIsPending' /\ RepliesInv'
    BY <1>0, <1>1, WorkUnmoved
  <2>3. LossyStep
    BY <1>1 DEF LossyStep, Losing, Silent
  <2>4. QED
    BY <2>1, <2>2, <2>3
<1>3. WorkInOrder'
  <2>1. queue[i] = <<>> /\ busy[i] = Nobody
    BY <1>0, <1>1 DEF WorkInOrder
  <2>2. ASSUME NEW h \in Instances
        PROVE  /\ phase'[h] = "open" => conn'[h] \in Files
               /\ phase'[h] # "open" => queue[h] = <<>> /\ busy[h] = Nobody
               /\ \A n \in 1..Len(queue[h]) : queue[h][n] \in Closers => n = Len(queue[h]) /\ shut[h]
    BY <1>0, <1>1, <2>1 DEF WorkInOrder
  <2>3. QED
    BY <1>1, <2>2 DEF WorkInOrder
<1>4. QED
  BY <1>1, <1>2, <1>3 DEF SQLiteInv

\* The worker takes the first job of its queue.
LEMMA TakeStep ==
  ASSUME SQLiteInv, NEW i \in Instances, Take(i)
  PROVE  SQLiteInv' /\ LossyStep
<1> DEFINE q == Tail(queue[i])
           j == Head(queue[i])
<1>0. FileOK /\ TablesInv /\ WorkTyped /\ WorkInOrder /\ WorkIsPending /\ RepliesInv
  BY DEF SQLiteInv
<1>1. /\ path' = path /\ log' = log /\ main' = main /\ kind' = kind /\ aside' = aside /\ phase' = phase /\ conn' = conn
      /\ rows' = rows /\ saved' = saved /\ now' = now /\ shut' = shut /\ job' = job /\ reply' = reply
  BY DEF Take, fileVars
<1>2. /\ phase[i] = "open" /\ busy[i] = Nobody /\ queue[i] # <<>> /\ j \in Jobs
      /\ queue' = [queue EXCEPT ![i] = q]
      /\ busy' = [busy EXCEPT ![i] = IF job[j] = "abandoned" THEN Nobody ELSE j]
  BY DEF Take, Available, Pop
<1>3. FileOK' /\ TablesInv' /\ RepliesInv' /\ LossyStep
  BY <1>0, <1>1, Frozen DEF FileOK, FileTypeOK, FileInv, TablesInv, RepliesInv, LossyStep, Losing, Silent
<1>4. \A l, h : Pending(l, h)' <=> Pending(l, h)
  BY <1>1 DEF Pending
<1>5. /\ queue[i] \in Seq(Jobs \cup Closers) /\ Len(queue[i]) \in Nat /\ Len(queue[i]) # 0
      /\ q \in Seq(Jobs \cup Closers) /\ Len(q) = Len(queue[i]) - 1 /\ j = queue[i][1]
      /\ \A n \in 1..Len(q) : q[n] = queue[i][n + 1]
  <2>1. queue[i] \in Seq(Jobs \cup Closers)
    BY <1>0 DEF WorkTyped
  <2>2. j = queue[i][1]
    BY <1>2, <2>1
  <2>3. QED
    BY <1>2, <2>1, <2>2, HeadTailProperties, LenProperties, EmptySeq
<1> HIDE DEF q, j
<1>6. /\ queue' \in [Instances -> Seq(Jobs \cup Closers)] /\ busy' \in [Instances -> Jobs \cup {Nobody}]
      /\ queue'[i] = q /\ busy'[i] = IF job[j] = "abandoned" THEN Nobody ELSE j
      /\ \A h \in Instances \ {i} : queue'[h] = queue[h] /\ busy'[h] = busy[h]
  BY <1>0, <1>2, <1>5 DEF WorkTyped
<1>7. WorkTyped'
  BY <1>0, <1>1, <1>6 DEF WorkTyped
<1>8. \A n \in 1..Len(q) : n + 1 \in 1..Len(queue[i])
  BY <1>5
<1>9. WorkInOrder'
  <2> SUFFICES ASSUME NEW h \in Instances
               PROVE  /\ phase[h] = "open" => conn[h] \in Files
                      /\ phase[h] # "open" => queue'[h] = <<>> /\ busy'[h] = Nobody
                      /\ \A n \in 1..Len(queue'[h]) :
                           queue'[h][n] \in Closers => n = Len(queue'[h]) /\ shut[h]
    BY <1>1 DEF WorkInOrder
  <2>1. CASE h = i
    <3>1. ASSUME NEW n \in 1..Len(q), q[n] \in Closers PROVE n = Len(q) /\ shut[i]
      <4>1. n + 1 = Len(queue[i]) /\ shut[i]
        BY <1>0, <1>5, <1>8, <3>1 DEF WorkInOrder
      <4>2. QED
        BY <1>5, <4>1
    <3>2. QED
      BY <1>0, <1>2, <1>6, <2>1, <3>1 DEF WorkInOrder
  <2>2. CASE h # i
    BY <1>0, <1>6, <2>2 DEF WorkInOrder
  <2>3. QED
    BY <2>1, <2>2
<1>10. WorkIsPending'
  <2> SUFFICES ASSUME NEW h \in Instances
               PROVE  /\ \A n \in 1..Len(queue'[h]) :
                           queue'[h][n] \in Jobs => Pending(queue'[h][n], h) /\ queue'[h][n] # busy'[h]
                      /\ \A m, n \in 1..Len(queue'[h]) :
                           queue'[h][m] \in Jobs /\ queue'[h][m] = queue'[h][n] => m = n
                      /\ busy'[h] # Nobody => Pending(busy'[h], h)
    BY <1>1 DEF WorkIsPending, Pending
  <2>1. CASE h = i
    <3>0. 1 \in 1..Len(queue[i])
      BY <1>5
    <3>1. Pending(j, i)
      BY <1>0, <1>2, <1>5, <3>0 DEF WorkIsPending
    <3>2. ASSUME NEW n \in 1..Len(q), q[n] \in Jobs PROVE Pending(q[n], i) /\ q[n] # j /\ q[n] # Nobody
      <4>1. Pending(q[n], i)
        BY <1>0, <1>5, <1>8, <3>2 DEF WorkIsPending
      <4>2. q[n] # j
        <5>1. n + 1 # 1
          OBVIOUS
        <5>2. QED
          BY <1>0, <1>2, <1>5, <1>8, <3>0, <5>1 DEF WorkIsPending
      <4>3. QED
        BY <3>2, <4>1, <4>2, JobAssumption DEF Nobody
    <3>3. ASSUME NEW m \in 1..Len(q), NEW n \in 1..Len(q), q[m] \in Jobs, q[m] = q[n] PROVE m = n
      <4>1. m + 1 = n + 1
        BY <1>0, <1>5, <1>8, <3>3 DEF WorkIsPending
      <4>2. QED
        BY <4>1
    <3>4. QED
      BY <1>6, <2>1, <3>1, <3>2, <3>3
  <2>2. CASE h # i
    BY <1>0, <1>6, <2>2 DEF WorkIsPending
  <2>3. QED
    BY <2>1, <2>2
<1>11. QED
  BY <1>3, <1>7, <1>9, <1>10 DEF SQLiteInv

\* The job that runs is answered; what waits goes on waiting.
LEMMA AnswerStep ==
  ASSUME SQLiteInv, NEW i \in Instances, busy[i] # Nobody, NEW a \in Answers,
         Post({busy[i]}, a), busy' = [busy EXCEPT ![i] = Nobody],
         UNCHANGED <<fileVars, queue, shut>>
  PROVE  /\ FileOK' /\ WorkTyped' /\ WorkInOrder' /\ WorkIsPending' /\ RepliesInv'
         /\ busy[i] \in Jobs /\ reply[busy[i]] = {} /\ reply'[busy[i]] = {a}
         /\ \A l \in Jobs \ {busy[i]} : reply'[l] = reply[l]
<1> DEFINE j == busy[i]
<1>0. FileOK /\ TablesInv /\ WorkTyped /\ WorkInOrder /\ WorkIsPending /\ RepliesInv
  BY DEF SQLiteInv
<1>1. /\ path' = path /\ log' = log /\ main' = main /\ kind' = kind /\ aside' = aside /\ phase' = phase /\ conn' = conn
      /\ queue' = queue /\ shut' = shut
  BY DEF fileVars
<1>2. j \in Jobs /\ Pending(j, i) /\ reply[j] = {} /\ At[j] = i
  BY <1>0 DEF WorkTyped, WorkIsPending, Pending
<1>3. /\ DOMAIN reply' = Jobs /\ reply'[j] = {a} /\ \A l \in Jobs \ {j} : reply'[l] = reply[l]
      /\ job' \in [Jobs -> {"idle", "waiting", "abandoned", "answered"}]
      /\ job'[j] \in {"answered", "abandoned"} /\ \A l \in Jobs \ {j} : job'[l] = job[l]
  BY <1>0, <1>2, PostOne
<1>4. /\ busy' \in [Instances -> Jobs \cup {Nobody}] /\ busy'[i] = Nobody
      /\ \A h \in Instances \ {i} : busy'[h] = busy[h]
  BY <1>0 DEF WorkTyped
<1>5. ASSUME NEW l \in Jobs, NEW h, l # j, Pending(l, h) PROVE PendingThen(l, h)
  BY <1>3, <1>5 DEF Pending, PendingThen
<1> HIDE DEF j
<1>6. FileOK' /\ WorkTyped'
  BY <1>0, <1>1, <1>3, <1>4 DEF FileOK, FileTypeOK, FileInv, WorkTyped
<1>7. WorkInOrder'
  BY <1>0, <1>1, <1>4 DEF WorkInOrder
<1>8. WorkIsPending'
  <2> SUFFICES ASSUME NEW h \in Instances
               PROVE  /\ \A n \in 1..Len(queue[h]) :
                           queue[h][n] \in Jobs => PendingThen(queue[h][n], h) /\ queue[h][n] # busy'[h]
                      /\ busy'[h] # Nobody => PendingThen(busy'[h], h)
    BY <1>0, <1>1 DEF WorkIsPending, Pending, PendingThen
  <2>1. ASSUME NEW n \in 1..Len(queue[h]), queue[h][n] \in Jobs
        PROVE  PendingThen(queue[h][n], h) /\ queue[h][n] # busy'[h]
    <3>1. Pending(queue[h][n], h) /\ queue[h][n] # busy[h] /\ queue[h][n] # Nobody
      BY <1>0, <2>1, JobAssumption DEF WorkIsPending, Nobody
    <3>2. queue[h][n] # j
      <4>1. CASE h = i
        BY <3>1, <4>1 DEF j
      <4>2. CASE h # i
        BY <1>2, <3>1, <4>2 DEF Pending
      <4>3. QED
        BY <4>1, <4>2
    <3>3. QED
      BY <1>4, <1>5, <2>1, <3>1, <3>2
  <2>2. ASSUME busy'[h] # Nobody PROVE PendingThen(busy'[h], h)
    <3>1. h # i /\ busy'[h] = busy[h] /\ busy[h] \in Jobs /\ Pending(busy[h], h)
      BY <1>0, <1>4, <2>2 DEF WorkIsPending, WorkTyped
    <3>2. busy[h] # j
      BY <1>2, <3>1 DEF Pending
    <3>3. QED
      BY <1>5, <3>1, <3>2
  <2>3. QED
    BY <2>1, <2>2
<1>9. RepliesInv'
  BY <1>0, <1>3 DEF RepliesInv
<1>10. QED
  BY <1>2, <1>3, <1>6, <1>7, <1>8, <1>9 DEF j

LEMMA RunFailsStep ==
  ASSUME SQLiteInv, NEW i \in Instances, RunFails(i)
  PROVE  SQLiteInv' /\ LossyStep
<1> DEFINE j == busy[i]
<1>1. /\ j # Nobody /\ Missing \in Answers /\ Post({j}, Missing) /\ busy' = [busy EXCEPT ![i] = Nobody]
      /\ UNCHANGED <<fileVars, queue, shut>> /\ rows' = rows /\ saved' = saved /\ now' = now
  BY DEF RunFails, Answers
<1>2. /\ FileOK' /\ WorkTyped' /\ WorkInOrder' /\ WorkIsPending' /\ RepliesInv'
      /\ j \in Jobs /\ reply[j] = {} /\ reply'[j] = {Missing}
      /\ \A l \in Jobs \ {j} : reply'[l] = reply[l]
  BY <1>1, AnswerStep
<1> HIDE DEF j
<1>3. TablesInv'
  BY <1>1 DEF SQLiteInv, TablesInv
<1>4. \A k : CopiesThen(k) = Copies(k)
  BY <1>1, Frozen
<1>5. LossyStep
  <2>1. CASE j \in Gets
    <3>1. Telling(j, Missing)
      BY <1>2, <1>4 DEF Telling, Gets
    <3>2. QED
      BY <1>1, <2>1, <3>1 DEF LossyStep
  <2>2. CASE j \notin Gets
    BY <1>2, <1>4, <2>2 DEF LossyStep, Losing, Silent, Gets
  <2>3. QED
    BY <2>1, <2>2
<1>6. QED
  BY <1>2, <1>3, <1>5 DEF SQLiteInv

LEMMA RunStep ==
  ASSUME SQLiteInv, NEW i \in Instances, Run(i)
  PROVE  SQLiteInv' /\ LossyStep
<1> DEFINE j == busy[i]
           f == conn[i]
           t == rows[f]
           a == IF Op[j] = "get" THEN Found(t, Key[j]) ELSE "done"
<1>0. FileOK /\ TablesInv /\ WorkTyped /\ WorkInOrder /\ WorkIsPending /\ RepliesInv
  BY DEF SQLiteInv
<1>1. /\ j # Nobody /\ Commit(f, After(t, j)) /\ now' = now
      /\ Post({j}, a) /\ busy' = [busy EXCEPT ![i] = Nobody]
      /\ UNCHANGED <<fileVars, queue, shut>>
  BY DEF Run
<1>2. phase[i] = "open" /\ f \in Files /\ IsTable(t) /\ now \in Nat
  BY <1>0, <1>1 DEF WorkInOrder, TablesInv
<1>30. Found(t, Key[j]) \in LiveAt(t, Key[j], now) \cup {Missing}
  BY TableFinds
<1>3. a \in Answers
  BY <1>2, <1>30, FindsValues DEF Answers
<1>4. /\ FileOK' /\ WorkTyped' /\ WorkInOrder' /\ WorkIsPending' /\ RepliesInv'
      /\ j \in Jobs /\ reply[j] = {} /\ reply'[j] = {a}
      /\ \A l \in Jobs \ {j} : reply'[l] = reply[l]
  BY <1>1, <1>3, AnswerStep
<1>5. /\ IsTable(After(t, j))
      /\ Op[j] = "get" => \A l : LiveAt(After(t, j), l, now) = LiveAt(t, l, now)
      /\ Op[j] = "set" => LiveAt(After(t, j), Key[j], now) \subseteq {j}
      /\ \A l : (Op[j] = "set" => l # Key[j])
                  => LiveAt(After(t, j), l, now) \subseteq LiveAt(t, l, now)
  BY <1>2, <1>4, AfterTable
<1>6. PICK u : u = After(t, j)
  OBVIOUS
<1>7. TablesInv' /\ \A k : CopiesThen(k) \subseteq Copies(k) \cup LiveAt(u, k, now)
  <2>1. /\ DOMAIN rows' = Files /\ DOMAIN saved' = Files
        /\ \A g \in Files : saved'[g] \in {u, saved[g]}
        /\ \A g \in Files : rows'[g] \in {u, None} \cup {rows[h] : h \in Files}
    BY <1>0, <1>1, <1>2, <1>6, Committing
  <2>2. QED
    BY <1>0, <1>1, <1>5, <1>6, <2>1, Mixing
<1>8. \A k : LiveAt(t, k, now) \subseteq Copies(k)
  BY <1>2, CopiesHold
<1>9. Key[j] \in Keys
  BY <1>4, JobAssumption
<1>10. /\ \A l : (Op[j] = "set" => l # Key[j]) => CopiesThen(l) \subseteq Copies(l)
       /\ Op[j] = "set" => CopiesThen(Key[j]) \subseteq Copies(Key[j]) \cup {j}
  BY <1>5, <1>6, <1>7, <1>8
<1>11. Op[j] = "get" => a = Missing \/ a \in Copies(Key[j])
  BY <1>8, <1>30
<1> HIDE DEF j, f, t, a
<1>12. LossyStep
  <2>1. CASE Op[j] = "get"
    <3>1. Telling(j, a)
      BY <1>4, <1>10, <1>11, <2>1 DEF Telling, Gets
    <3>2. QED
      BY <1>3, <1>4, <2>1, <3>1 DEF LossyStep, Gets
  <2>2. CASE Op[j] = "set"
    <3>1. Silent
      BY <1>4, <2>2 DEF Silent, Gets
    <3>2. Putting(Key[j], j)
      BY <1>10, <2>2, <3>1 DEF Putting
    <3>3. QED
      BY <1>4, <1>9, <3>2 DEF LossyStep
  <2>3. CASE Op[j] # "get" /\ Op[j] # "set"
    <3>1. Silent
      BY <1>4, <2>3 DEF Silent, Gets
    <3>2. QED
      BY <1>10, <2>3, <3>1 DEF LossyStep, Losing
  <2>4. QED
    BY <2>1, <2>2, <2>3
<1>13. QED
  BY <1>4, <1>7, <1>12 DEF SQLiteInv

\* The sentinel is alone in the queue when it is taken: nothing is told it came
\* too late.
LEMMA FinishStep ==
  ASSUME SQLiteInv, NEW i \in Instances, FinishClose(i)
  PROVE  SQLiteInv' /\ LossyStep
<1>0. FileOK /\ TablesInv /\ WorkTyped /\ WorkInOrder /\ WorkIsPending /\ RepliesInv
  BY DEF SQLiteInv
<1>1. /\ conn' = conn /\ now' = now /\ shut' = shut /\ busy' = busy
      /\ phase' = [phase EXCEPT ![i] = "closed"] /\ queue' = [queue EXCEPT ![i] = <<>>]
      /\ busy[i] = Nobody /\ queue[i] # <<>> /\ Head(queue[i]) \in Closers
      /\ Post(ToSet(queue[i]), "unreachable")
  BY DEF FinishClose, CloseDatabase, CloseConnection, Enter
<1>2. \A j \in Jobs : j \notin ToSet(queue[i])
  <2>1. queue[i] \in Seq(Jobs \cup Closers)
    BY <1>0 DEF WorkTyped
  <2>2. queue[i][1] \in Closers /\ 1 \in 1..Len(queue[i]) /\ DOMAIN queue[i] = 1..Len(queue[i])
    BY <1>1, <2>1, LenProperties, EmptySeq
  <2>3. Len(queue[i]) = 1
    BY <1>0, <2>2 DEF WorkInOrder
  <2>4. \A n \in DOMAIN queue[i] : queue[i][n] \in Closers
    BY <2>2, <2>3
  <2>5. QED
    BY <2>4, JobAssumption DEF ToSet
<1>3. \A j \in Jobs : reply'[j] = reply[j] /\ job'[j] = job[j]
  BY <1>1, <1>2 DEF Post
<1>4. /\ DOMAIN reply' = Jobs /\ job' \in [Jobs -> {"idle", "waiting", "abandoned", "answered"}]
  <2>1. DOMAIN reply' = Jobs /\ DOMAIN job' = Jobs /\ job' = [j \in Jobs |-> job'[j]]
    BY <1>1 DEF Post
  <2>2. QED
    BY <1>0, <1>3, <2>1 DEF WorkTyped
<1>5. /\ queue' \in [Instances -> Seq(Jobs \cup Closers)]
      /\ queue'[i] = <<>> /\ \A h \in Instances \ {i} : queue'[h] = queue[h]
  BY <1>0, <1>1, EmptySeq DEF WorkTyped
<1>6. WorkTyped'
  BY <1>0, <1>1, <1>4, <1>5 DEF WorkTyped
<1>7. FileOK' /\ phase'[i] = "closed" /\ \A h \in Instances \ {i} : phase'[h] = phase[h]
  <2>1. phase[i] = "open" /\ CloseConnection(i)
    BY DEF FinishClose, CloseDatabase, Available
  <2>2. QED
    BY <1>0, <1>1, <2>1, ClosingKeepsFiles DEF FileOK, FileTypeOK
<1>70. TablesInv' /\ \A k : CopiesThen(k) \subseteq Copies(k)
  <2>1. phase[i] = "open" /\ CloseDatabase(i) /\ conn[i] \in Files
    BY <1>0 DEF FinishClose, Available, WorkInOrder
  <2>2. CASE WritesBack(i)
    <3>1. WriteBack(conn[i], rows[conn[i]])
      BY <2>1, <2>2 DEF CloseDatabase
    <3>2. PICK t : t = rows[conn[i]]
      OBVIOUS
    <3>3. IsTable(t) /\ \A k : LiveAt(t, k, now) \subseteq Copies(k)
      BY <1>0, <2>1, <3>2, CopiesHold DEF TablesInv
    <3>4. /\ DOMAIN rows' = Files /\ DOMAIN saved' = Files
          /\ \A g \in Files : saved'[g] \in {t, saved[g]}
          /\ \A g \in Files : rows'[g] \in {t, None} \cup {rows[h] : h \in Files}
      BY <1>0, <2>1, <3>1, <3>2, WritingBack
    <3>5. TablesInv' /\ \A k : CopiesThen(k) \subseteq Copies(k) \cup LiveAt(t, k, now)
      BY <1>0, <1>1, <3>3, <3>4, Mixing
    <3>6. QED
      BY <3>3, <3>5
  <2>3. CASE ~WritesBack(i)
    <3>1. rows' = rows /\ saved' = saved
      BY <2>1, <2>3 DEF CloseDatabase
    <3>2. QED
      BY <1>0, <1>1, <3>1, Frozen DEF TablesInv
  <2>4. QED
    BY <2>2, <2>3
<1>8. Len(<<>>) = 0 /\ \A n \in 1..0 : FALSE
  BY EmptySeq
<1>9. WorkInOrder'
  <2> SUFFICES ASSUME NEW h \in Instances
               PROVE  /\ phase'[h] = "open" => conn[h] \in Files
                      /\ phase'[h] # "open" => queue'[h] = <<>> /\ busy[h] = Nobody
                      /\ \A n \in 1..Len(queue'[h]) :
                           queue'[h][n] \in Closers => n = Len(queue'[h]) /\ shut[h]
    BY <1>1 DEF WorkInOrder
  <2>1. CASE h = i
    BY <1>1, <1>5, <1>7, <1>8, <2>1
  <2>2. CASE h # i
    BY <1>0, <1>5, <1>7, <2>2 DEF WorkInOrder
  <2>3. QED
    BY <2>1, <2>2
<1>10. \A j \in Jobs, h \in Instances : PendingThen(j, h) <=> Pending(j, h)
  BY <1>3 DEF Pending, PendingThen
<1>11. WorkIsPending'
  <2> SUFFICES ASSUME NEW h \in Instances
               PROVE  /\ \A n \in 1..Len(queue'[h]) :
                           queue'[h][n] \in Jobs => PendingThen(queue'[h][n], h) /\ queue'[h][n] # busy[h]
                      /\ \A m, n \in 1..Len(queue'[h]) :
                           queue'[h][m] \in Jobs /\ queue'[h][m] = queue'[h][n] => m = n
                      /\ busy[h] # Nobody => PendingThen(busy[h], h)
    <3>1. busy' = busy
      BY <1>1
    <3>2. QED
      BY SMTT(30), <3>1 DEF WorkIsPending, Pending, PendingThen
  <2>1. CASE h = i
    BY <1>1, <1>5, <1>8, <2>1
  <2>2. CASE h # i
    BY <1>0, <1>5, <1>10, <2>2 DEF WorkIsPending, WorkTyped
  <2>3. QED
    BY <2>1, <2>2
<1>12. RepliesInv'
  BY <1>0, <1>3 DEF RepliesInv
<1>13. LossyStep
  BY <1>3, <1>70 DEF LossyStep, Losing, Silent, Gets
<1>14. QED
  BY <1>6, <1>7, <1>70, <1>9, <1>11, <1>12, <1>13 DEF SQLiteInv

LEMMA TickStep ==
  ASSUME SQLiteInv, Tick
  PROVE  SQLiteInv' /\ LossyStep
<1>0. FileOK /\ TablesInv /\ WorkTyped /\ WorkInOrder /\ WorkIsPending /\ RepliesInv
  BY DEF SQLiteInv
<1>1. /\ path' = path /\ log' = log /\ main' = main /\ kind' = kind /\ aside' = aside /\ phase' = phase /\ conn' = conn
      /\ rows' = rows /\ saved' = saved /\ now' = now + 1 /\ queue' = queue /\ busy' = busy /\ shut' = shut
      /\ job' = job /\ reply' = reply
  BY DEF Tick, fileVars
<1>2. FileOK' /\ TablesInv' /\ WorkTyped' /\ WorkInOrder'
  <2>1. FileOK'
    BY <1>0, <1>1 DEF FileOK, FileTypeOK, FileInv
  <2>2. TablesInv'
    BY <1>0, <1>1 DEF TablesInv
  <2>3. WorkTyped' /\ WorkInOrder'
    BY <1>0, <1>1 DEF WorkTyped, WorkInOrder
  <2>4. QED
    BY <2>1, <2>2, <2>3
<1>3. WorkIsPending' /\ RepliesInv'
  BY <1>0, <1>1, WorkUnmoved
<1>4. ASSUME NEW k PROVE CopiesThen(k) \subseteq Copies(k)
  <2>1. \A f \in Files : /\ LiveAt(rows[f], k, now') \subseteq LiveAt(rows[f], k, now)
                         /\ LiveAt(saved[f], k, now') \subseteq LiveAt(saved[f], k, now)
    BY <1>0, <1>1, TimeOnlyLoses DEF TablesInv
  <2>2. \A f \in Files : /\ LiveAt(rows'[f], k, now') \subseteq Copies(k)
                         /\ LiveAt(saved'[f], k, now') \subseteq Copies(k)
    BY <1>1, <2>1, CopiesHold
  <2>3. QED
    BY <2>2, CopiesHold
<1>5. LossyStep
  BY <1>1, <1>4 DEF LossyStep, Losing, Silent
<1>6. QED
  BY <1>2, <1>3, <1>5 DEF SQLiteInv

LEMMA SQLiteStep ==
  ASSUME SQLiteInv, Next
  PROVE  SQLiteInv' /\ LossyStep
BY SubmitStep, CancelStep, CloseStep, OpenStep, TakeStep, RunStep, RunFailsStep, FinishStep, TickStep
   DEF Next

\* What EvictionIsSound says of a step.
EvictsSoundly ==
  \A f \in Files : rows'[f] # rows[f] =>
    \/ \E i \in Instances :
         /\ conn[i] = f /\ busy[i] \in Jobs /\ busy'[i] = Nobody
         /\ ChangesSoundly(busy[i], rows[f], rows'[f])
    \/ \E g \in Files \ {f} : main'[g] = main'[f]

\* The table that changes is the one of the instance whose job runs.
LEMMA RunEvictsSoundly ==
  ASSUME SQLiteInv, NEW i \in Instances, Run(i)
  PROVE  EvictsSoundly
<1>0. TablesInv /\ WorkTyped /\ WorkInOrder /\ WorkIsPending
  BY DEF SQLiteInv
<1>1. PICK j, f, t : j = busy[i] /\ f = conn[i] /\ t = rows[f]
  OBVIOUS
<1>2. /\ j # Nobody /\ Commit(f, After(t, j)) /\ main' = main
      /\ busy' = [busy EXCEPT ![i] = Nobody]
  BY <1>1 DEF Run, fileVars
<1>3. j \in Jobs /\ Storable(j) /\ busy'[i] = Nobody
  BY <1>0, <1>1, <1>2 DEF WorkTyped, WorkIsPending, Pending
<1>4. f \in Files /\ IsTable(t) /\ now \in Nat
  <2>1. phase[i] = "open"
    BY <1>0, <1>1, <1>2 DEF WorkInOrder
  <2>2. QED
    BY <1>0, <1>1, <2>1 DEF WorkInOrder, TablesInv
<1>5. rows'[f] = After(t, j) /\ \A g \in Files \ {f} : main'[g] = main'[f] \/ rows'[g] = rows[g]
  BY <1>0, <1>2, <1>4, Committing
<1>6. ChangesSoundly(j, t, After(t, j))
  BY <1>3, <1>4, AfterIsSound DEF Storable
<1>7. QED
  BY <1>1, <1>3, <1>4, <1>5, <1>6 DEF EvictsSoundly

\* What stays at the path has the main file of the one whose log is taken; what the last
\* connection writes back shows in no other.
LEMMA TakingEvictsNothing ==
  ASSUME SQLiteInv, NEW i \in Instances, TakeLog(i)
  PROVE  EvictsSoundly
<1>1. PICK h \in Unused :
        /\ TakeLogOfAnother(i, h, IF saved[path] = None THEN "empty" ELSE "current")
        /\ rows' = [rows EXCEPT ![h] = saved[path]]
  BY DEF TakeLog
<1>2. path \in Files \ {h} /\ h \in Files /\ main'[path] = main'[h]
  BY <1>1, TakingALog DEF SQLiteInv
<1>3. \A f \in Files \ {h} : rows'[f] = rows[f]
  BY <1>1, <1>2 DEF SQLiteInv, TablesInv
<1>4. QED
  BY <1>2, <1>3 DEF EvictsSoundly

LEMMA ClosingEvictsNothing ==
  ASSUME SQLiteInv, NEW i \in Instances, FinishClose(i)
  PROVE  EvictsSoundly
<1>1. CloseDatabase(i) /\ main' = main /\ conn[i] \in Files
  BY DEF FinishClose, Available, SQLiteInv, WorkInOrder, CloseDatabase, CloseConnection
<1>2. CASE WritesBack(i)
  <2>1. WriteBack(conn[i], rows[conn[i]])
    BY <1>1, <1>2 DEF CloseDatabase
  <2>2. /\ rows'[conn[i]] = rows[conn[i]]
        /\ \A g \in Files \ {conn[i]} : main[g] = main[conn[i]] \/ rows'[g] = rows[g]
    BY <1>1, <2>1, WritingBack DEF SQLiteInv
  <2>3. QED
    BY <1>1, <2>2 DEF EvictsSoundly
<1>3. CASE ~WritesBack(i)
  BY <1>1, <1>3 DEF CloseDatabase, EvictsSoundly
<1>4. QED
  BY <1>2, <1>3

LEMMA SQLiteEvictsSoundly ==
  ASSUME SQLiteInv, Next
  PROVE  EvictsSoundly
<1>1. CASE \E i \in Instances : Run(i)
  BY <1>1, RunEvictsSoundly
<1>2. CASE \E i \in Instances : TakeLog(i) \/ FinishClose(i)
  BY <1>2, TakingEvictsNothing, ClosingEvictsNothing
<1>3. CASE ~ \E i \in Instances : Run(i) \/ TakeLog(i) \/ FinishClose(i)
  <2>1. rows' = rows
    BY <1>3 DEF Next, Submit, Cancel, Close, CloseReturns, CancelClose, OpenDatabase, cacheVars,
                Take, RunFails, Tick
  <2>2. QED
    BY <2>1 DEF EvictsSoundly
<1>4. QED
  BY <1>1, <1>2, <1>3

Held == [k \in Keys |-> UNION {Live(rows[f], k) \cup Live(saved[f], k) : f \in Files}]

LEMMA HeldIsCopies ==
  /\ Held = [k \in Keys |-> Copies(k)] /\ Held' = [k \in Keys |-> CopiesThen(k)]
  /\ \A k \in Keys : Held[k] = Copies(k) /\ Held'[k] = CopiesThen(k)
<1>1. Held = [k \in Keys |-> Copies(k)]
  BY TableFinds DEF Held, Copies
<1>2. Held' = [k \in Keys |-> CopiesThen(k)]
  BY TableFinds DEF Held, CopiesThen
<1>3. QED
  BY <1>1, <1>2

LEMMA SQLiteStarts ==
  ASSUME Init
  PROVE  SQLiteInv /\ Lossy!Init
<1>0. 0 \in Files /\ Spares \in Nat
  BY FileAssumption DEF Files
<1>1. /\ rows = [f \in Files |-> IF kind[f] = "current" THEN Preloaded ELSE None] /\ saved = rows /\ now = 1
      /\ queue = [i \in Instances |-> <<>>] /\ busy = [i \in Instances |-> Nobody]
      /\ shut = [i \in Instances |-> FALSE]
      /\ job = [j \in Jobs |-> "idle"] /\ reply = [j \in Jobs |-> {}]
      /\ phase = [i \in Instances |-> "new"] /\ conn = [i \in Instances |-> NoFile] /\ aside = {}
  BY DEF Init, FileInit
<1>2. FileOK
  <2>1. PICK k \in Kinds : kind = [f \in Files |-> IF f = 0 THEN k ELSE "absent"]
    BY DEF Init, FileInit
  <2>2. /\ path = (IF kind[0] = "absent" THEN NoFile ELSE 0) /\ log \in {path, NoFile}
        /\ main = [f \in Files |-> f]
    BY DEF Init, FileInit
  <2>3. "absent" \in Kinds
    BY DEF Kinds
  <2>4. kind \in [Files -> Kinds]
    BY <2>1, <2>3
  <2>5. FileTypeOK
    BY <1>0, <1>1, <2>2, <2>4 DEF FileTypeOK
  <2>6. FileInv
    BY <1>1, <2>2 DEF FileInv
  <2>7. QED
    BY <2>5, <2>6 DEF FileOK
<1>3. TablesInv
  <2>1. <<>> \in [{} -> Rows] /\ DOMAIN <<>> = {}
    OBVIOUS
  <2>2. IsTable(None)
    BY <2>1, FS_EmptySet DEF IsTable, None
  <2>3. QED
    BY <1>1, <2>2, JobAssumption DEF TablesInv
<1>4. Len(<<>>) = 0 /\ (\A n \in 1..0 : FALSE) /\ <<>> \in Seq(Jobs \cup Closers)
  BY EmptySeq
<1>5. WorkTyped
  BY <1>1, <1>4 DEF WorkTyped
<1>6. WorkInOrder /\ WorkIsPending
  <2>1. \A i \in Instances : phase[i] = "new" /\ queue[i] = <<>> /\ busy[i] = Nobody
    BY <1>1
  <2>2. QED
    BY <1>4, <2>1 DEF WorkInOrder, WorkIsPending
<1>7. RepliesInv
  BY <1>1 DEF RepliesInv
<1>8. SQLiteInv
  BY <1>2, <1>3, <1>5, <1>6, <1>7 DEF SQLiteInv
<1>9. Lossy!Init
  <2>1. \A k \in Keys : Copies(k) \subseteq Jobs \cup {"earlier"}
    <3>1. \A f \in Files : IsTable(rows[f]) /\ IsTable(saved[f])
      BY <1>3 DEF TablesInv
    <3>2. QED
      BY <3>1, FindsValues DEF Copies
  <2>2. Held = [k \in Keys |-> Copies(k)]
    BY HeldIsCopies
  <2>3. Held \in [Keys -> SUBSET (Jobs \cup {"earlier"})]
    BY <2>1, <2>2
  <2>4. [j \in {j \in Jobs : Op[j] = "get"} |-> reply[j]] = [r \in {j \in Jobs : Op[j] = "get"} |-> {}]
    BY <1>1
  <2>5. QED
    BY <2>3, <2>4 DEF Lossy!Init, Held
<1>10. QED
  BY <1>8, <1>9

\* Each step of the database is a step of the lossy cache.
LEMMA LossyStepImplements ==
  ASSUME LossyStep, DOMAIN reply = Jobs
  PROVE  Lossy!Next
<1> DEFINE told == [j \in {j \in Jobs : Op[j] = "get"} |-> reply[j]]
<1>0. /\ told = [j \in Gets |-> reply[j]] /\ told' = [j \in Gets |-> reply'[j]]
      /\ Gets = {j \in Jobs : Op[j] = "get"}
  BY DEF Gets
<1>00. \A k \in Keys : Held[k] = Copies(k) /\ Held'[k] = CopiesThen(k)
  BY HeldIsCopies
<1>1. CASE Losing
  <2>1. told' = told
    BY <1>0, <1>1 DEF Losing, Silent
  <2>2. \A k \in Keys : Held'[k] \subseteq Held[k]
    BY <1>00, <1>1 DEF Losing
  <2>3. Lossy!Lose
    BY <2>1, <2>2 DEF Lossy!Lose, Lossy!Kept, Held
  <2>4. QED
    BY <2>3 DEF Lossy!Next
<1>2. ASSUME NEW k \in Keys, NEW v \in Jobs, Putting(k, v)
      PROVE  Lossy!Next
  <2>1. told' = told
    BY <1>0, <1>2 DEF Putting, Silent
  <2>2. Held'[k] \ Held[k] \subseteq {v}
    BY <1>00, <1>2 DEF Putting
  <2>3. \A l \in Keys \ {k} : Held'[l] \subseteq Held[l]
    BY <1>00, <1>2 DEF Putting
  <2>4. Lossy!Put(k, v)
    BY <2>1, <2>2, <2>3 DEF Lossy!Put, Lossy!Kept, Held
  <2>5. QED
    BY <2>4 DEF Lossy!Next
<1>3. ASSUME NEW j \in Gets, NEW a \in Answers, Telling(j, a)
      PROVE  Lossy!Next
  <2>1. told[j] = {}
    BY <1>0, <1>3 DEF Telling
  <2>2. told' = [told EXCEPT ![j] = {a}]
    BY <1>0, <1>3 DEF Telling
  <2>3. \A k \in Keys : Held'[k] \subseteq Held[k]
    BY <1>00, <1>3 DEF Telling
  <2> DEFINE asked == [l \in {l \in Jobs : Op[l] = "get"} |-> {Key[l]}]
  <2>4. asked[j] = {Key[j]} /\ Key[j] \in Keys
    BY <1>0, JobAssumption
  <2>5. a = Missing \/ a \in Held[Key[j]]
    BY <1>00, <1>3, <2>4 DEF Telling
  <2>6. a = Missing \/ \E k \in asked[j] : a \in Held[k]
    <3> HIDE DEF asked
    <3> QED
      BY <2>4, <2>5
  <2>7. Lossy!Tell(j)
    BY <2>1, <2>2, <2>3, <2>6 DEF Lossy!Tell, Lossy!Kept, Held
  <2>8. QED
    BY <1>0, <2>7 DEF Lossy!Next
<1>4. QED
  BY <1>1, <1>2, <1>3 DEF LossyStep

LEMMA SQLiteStutters ==
  ASSUME SQLiteInv, UNCHANGED vars
  PROVE  SQLiteInv' /\ UNCHANGED Lossy!vars /\ KeepsFiles
<1>1. /\ path' = path /\ log' = log /\ main' = main /\ kind' = kind /\ aside' = aside /\ phase' = phase /\ conn' = conn
      /\ rows' = rows /\ saved' = saved /\ now' = now /\ queue' = queue /\ busy' = busy /\ shut' = shut
      /\ job' = job /\ reply' = reply
  BY DEF vars, fileVars, cacheVars
<1>2. SQLiteInv'
  <2>0. FileOK'
    BY <1>1 DEF SQLiteInv, FileOK, FileTypeOK, FileInv
  <2>1. TablesInv' /\ WorkTyped' /\ WorkInOrder'
    BY <1>1 DEF SQLiteInv, TablesInv, WorkTyped, WorkInOrder
  <2>2. WorkIsPending' /\ RepliesInv'
    BY <1>1, WorkUnmoved DEF SQLiteInv
  <2>3. QED
    BY <2>0, <2>1, <2>2 DEF SQLiteInv
<1>3. UNCHANGED Lossy!vars
  BY <1>1 DEF Lossy!vars, Live, Dead, Expired
<1>4. KeepsFiles
  BY <1>1 DEF KeepsFiles
<1>5. QED
  BY <1>2, <1>3, <1>4

LEMMA SQLiteKeepsFiles ==
  ASSUME SQLiteInv, Next
  PROVE  KeepsFiles \/ UNCHANGED fileVars
<1>1. ASSUME NEW i \in Instances, OpenDatabase(i) PROVE KeepsFiles
  BY <1>1, Opening, TakingALog DEF OpenDatabase, TakeLog, SQLiteInv
<1>2. ASSUME NEW i \in Instances, FinishClose(i) PROVE KeepsFiles
  BY <1>2, ClosingKeepsFiles DEF FinishClose, CloseDatabase, Available, SQLiteInv
<1>3. ASSUME ~ \E i \in Instances : OpenDatabase(i) \/ FinishClose(i)
      PROVE  UNCHANGED fileVars
  BY <1>3 DEF Next, Submit, Cancel, Close, CloseReturns, CancelClose, Take, Run, RunFails, Tick
<1>4. QED
  BY <1>1, <1>2, <1>3

-------------------------------------------------------------------------------
\* The caches of a client.

CachesInv == SQLiteInv /\ MemoryInv

LEMMA CachesStart ==
  ASSUME CachesInit
  PROVE  CachesInv /\ Lossy!Init /\ MemoryLossy!Init
BY SQLiteStarts, MemoryStarts DEF CachesInit, CachesInv

\* What one step of a client's cache does to the caches.
LEMMA CachesStep ==
  ASSUME CachesInv, [CachesNext]_cachesVars
  PROVE  /\ CachesInv'
         /\ Lossy!Next \/ UNCHANGED Lossy!vars
         /\ MemoryLossy!Next \/ UNCHANGED MemoryLossy!vars
         /\ KeepsFiles \/ UNCHANGED fileVars
         /\ OldestGoes \/ UNCHANGED memoryVars
         /\ EvictsSoundly \/ UNCHANGED vars
<1>0. SQLiteInv /\ MemoryInv
  BY DEF CachesInv
<1>1. CASE OnDisk(Next)
  <2>1. Next /\ UNCHANGED memoryVars
    BY <1>1 DEF OnDisk
  <2>2. SQLiteInv' /\ Lossy!Next
    BY <1>0, <2>1, SQLiteStep, LossyStepImplements DEF SQLiteInv, WorkTyped
  <2>3. KeepsFiles \/ UNCHANGED fileVars
    BY <1>0, <2>1, SQLiteKeepsFiles
  <2>4. MemoryInv' /\ UNCHANGED MemoryLossy!vars
    BY <1>0, <2>1, MemoryStutters
  <2>5. EvictsSoundly
    BY <1>0, <2>1, SQLiteEvictsSoundly
  <2>6. QED
    BY <2>1, <2>2, <2>3, <2>4, <2>5 DEF CachesInv
<1>2. CASE MemoryNext /\ UNCHANGED vars
  <2>1. MemoryInv' /\ OldestGoes /\ MemoryLossy!Next
    BY <1>0, <1>2, MemoryImplements
  <2>2. SQLiteInv' /\ UNCHANGED Lossy!vars /\ KeepsFiles
    BY <1>0, <1>2, SQLiteStutters
  <2>3. QED
    BY <1>2, <2>1, <2>2 DEF CachesInv
<1>3. CASE UNCHANGED cachesVars
  <2>1. UNCHANGED vars /\ UNCHANGED memoryVars
    BY <1>3 DEF cachesVars
  <2>2. SQLiteInv' /\ UNCHANGED Lossy!vars /\ KeepsFiles
    BY <1>0, <2>1, SQLiteStutters
  <2>3. MemoryInv' /\ UNCHANGED MemoryLossy!vars
    BY <1>0, <2>1, MemoryStutters
  <2>4. QED
    BY <2>1, <2>2, <2>3 DEF CachesInv
<1>4. QED
  BY <1>1, <1>2, <1>3 DEF CachesNext

\* The invariant is inductive: it holds of every state.
THEOREM Inductive == CachesSpec => []CachesInv
<1>1. CachesInit => CachesInv
  BY CachesStart
<1>2. CachesInv /\ [CachesNext]_cachesVars => CachesInv'
  BY CachesStep
<1>3. QED
  BY <1>1, <1>2, PTL DEF CachesSpec

\* A close runs the work that was queued ahead of it, and leaves none behind
\* (sqlite_cache.py aclose, _worker_main).
THEOREM CloseRunsTheQueue == CachesSpec => []CloseDrainsQueue
<1>1. CachesInv => CloseDrainsQueue
  BY DrainsQueue DEF CachesInv
<1>2. QED
  BY <1>1, Inductive, PTL

\* No instance destroys a database file, however they race to replace an
\* unusable one (sqlite_cache.py _open, _quarantine).
THEOREM FilesAreNotDestroyed == CachesSpec => NothingIsDestroyed
<1>1. CachesInv /\ [CachesNext]_cachesVars => [KeepsFiles]_fileVars
  BY CachesStep
<1>2. QED
  BY <1>1, Inductive, PTL DEF CachesSpec, NothingIsDestroyed, KeepsFiles

\* The cache in memory keeps to its limits and evicts the least recently used
\* entries, no more of them than it must (cache.py set, _evict).
THEOREM MemoryEvictsLeastRecentlyUsed == CachesSpec => MemoryEvictsOldest
<1>1. CachesInv /\ [CachesNext]_cachesVars => [OldestGoes]_memoryVars
  BY CachesStep
<1>2. QED
  BY <1>1, Inductive, PTL DEF CachesSpec, MemoryEvictsOldest, OldestGoes, Gone

\* The table in a database file changes only by a job that runs: a write leaves it
\* within both limits and keeps what it has written, and no entry goes while one
\* that was used less recently stays (sqlite_cache.py _set_operation,
\* _prune_operation, _evict).
THEOREM DatabaseEvictsTheStalest == CachesSpec => EvictionIsSound
<1>1. CachesInv /\ [CachesNext]_cachesVars => [EvictsSoundly]_vars
  BY CachesStep
<1>2. QED
  BY <1>1, Inductive, PTL DEF CachesSpec, EvictionIsSound, EvictsSoundly

\* A cache loses what it is meant to lose, in order and down to its limits, and
\* nothing else: no file and no entry that is fresher (sqlite_cache.py _evict,
\* _quarantine; cache.py _evict).
THEOREM NothingElseIsLost == CachesSpec => LosesOnlyWhatIsStale
BY FilesAreNotDestroyed, DatabaseEvictsTheStalest, MemoryEvictsLeastRecentlyUsed
   DEF LosesOnlyWhatIsStale

\* Both caches implement the lossy cache the session relies on: a reader hears
\* of nothing, or of what was stored last under its key and is still held
\* (protocols.Cache; cache.py, sqlite_cache.py).
THEOREM BothCachesAreLossy == CachesSpec => ImplementsLossyCache
<1>1. CachesInit => Lossy!Init /\ MemoryLossy!Init
  BY CachesStart
<1>2. CachesInv /\ [CachesNext]_cachesVars => [Lossy!Next]_Lossy!vars
  BY CachesStep
<1>3. CachesInv /\ [CachesNext]_cachesVars => [MemoryLossy!Next]_MemoryLossy!vars
  BY CachesStep
<1>4. QED
  BY <1>1, <1>2, <1>3, Inductive, PTL
     DEF CachesSpec, ImplementsLossyCache, TableIsLossy, MemoryIsLossy, Lossy!Spec, MemoryLossy!Spec
===============================================================================
