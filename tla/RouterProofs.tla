---------------------------- MODULE RouterProofs ----------------------------
(***************************************************************************)
(* Proofs about Router for every sequence of registered backends, every     *)
(* valid configuration of preferences and authorities, every number of      *)
(* slots and every finite set of calls: no attempt, slot or call is lost,   *)
(* no backend is closed while it works, and calls go down the documented    *)
(* order and on only from a failure that another backend may mend.          *)
(***************************************************************************)
EXTENDS Router, SequenceTheorems, WellFoundedInduction, FiniteSetTheorems, TLAPS

Busy(c) == pc[c] \notin {"idle", "over"}
Mendable == {"timeout", "unavailable", "retryable_error"}
Reasons == Outcomes \cup {"none", "timeout", "cancelled"}

\* The rest of the types.
CallsTyped ==
  /\ request \in [Calls -> Asked \cup {NoRequest}] /\ order \in [Calls -> Seq(Backends)]
  /\ tried \in [Calls -> Seq([backend : Backends, outcome : Reasons])]
  /\ told \in [Calls -> Seq(Reasons)] /\ reason \in [Calls -> Reasons]
  /\ DOMAIN ended = Calls /\ queue \in [Backends -> Seq(Calls)]

\* A call under way goes down the order of its route and has a candidate left.
CallsRouted ==
  \A c \in Calls :
    /\ pc[c] = "idle" => order[c] = <<>> /\ told[c] = <<>>
    /\ pc[c] # "idle" => request[c] \in Requests[c] /\ order[c] \in {<<>>, Route(request[c]).order}
    /\ Len(tried[c]) <= Len(order[c]) /\ (Busy(c) => Len(tried[c]) < Len(order[c]))

\* The attempts follow the order; each one that another one followed, or will
\* follow, could be mended; and the session was told of them all.
AttemptsAccounted ==
  \A c \in Calls :
    /\ \A n \in 1..Len(tried[c]) :
         /\ tried[c][n].backend = order[c][n]
         /\ n < Len(tried[c]) \/ Busy(c) => tried[c][n].outcome \in Mendable
         /\ told[c][n] = tried[c][n].outcome
    /\ Len(tried[c]) <= Len(told[c]) /\ (Busy(c) => Len(told[c]) = Len(tried[c]))
    /\ ended[c] = "success" => Len(tried[c]) > 0 /\ tried[c][Len(tried[c])].outcome = "success"

\* What an attempt may be doing while its call is where it is.
AttemptsAwaited ==
  \A c \in Calls :
    inv[c] \in CASE pc[c] = "waiting" -> {"queued", "running"} \cup Outcomes
                 [] pc[c] = "cleaning" -> {"unwinding", "gone"}
                 [] OTHER -> {"none", "gone"}

SlotsAccounted ==
  \A b \in Backends :
    /\ slots[b] + Cardinality(Using(b)) = Concurrency[b]
    /\ IsInjective(queue[b])
    /\ ToSet(queue[b]) = {c \in Calls : inv[c] = "queued" /\ Current(c) = b}

CallsCounted == active = Cardinality({c \in Calls : Busy(c)})

\* The backends are closed once the calls have ended and no other can begin.
CloseWaits ==
  /\ closeTask # "none" => closing
  /\ closeTask \in {"closing", "ended"} => active = 0
  /\ closeTask \in {"none", "draining"} => shut = 0
  /\ closeTask = "closing" => shut < Len(Registered)

IInv == TypeOK /\ CallsTyped /\ CallsRouted /\ AttemptsAccounted /\ AttemptsAwaited
        /\ SlotsAccounted /\ CallsCounted /\ CloseWaits

-------------------------------------------------------------------------------
\* Routing.  Candidates is a recursive function, and what it computes is proved
\* without an induction rule: a least counterexample would have a predecessor
\* that is none.

LEMMA LeastElement ==
  ASSUME NEW T, T \subseteq Nat, T # {}
  PROVE  \E n \in T : \A m \in T : n <= m
<1> DEFINE R == OpToRel(<, Nat)
<1>1. IsWellFoundedOn(R, Nat)
  BY NatLessThanWellFounded
<1>2. \A m, p \in Nat : m < p => <<m, p>> \in R
  BY DEF OpToRel
<1> HIDE DEF R
<1>3. PICK n \in T : \A m \in T : ~ (<<m, n>> \in R)
  BY <1>1, WFMin
<1>4. ASSUME NEW m \in T PROVE n <= m
  <2>1. m \in Nat /\ n \in Nat /\ ~ (m < n)
    BY <1>2, <1>3
  <2>2. QED
    BY <2>1
<1>5. QED
  BY <1>4

\* One step of _route.
Extend(sofar, b, q) ==
  IF Declares(b, q) /\ Supports(b, q) = "yes" /\ ~Contains(sofar, b) THEN Append(sofar, b) ELSE sofar

Selects(f, r, q) ==
  f = [n \in 0..Len(r) |-> IF n = 0 THEN <<>> ELSE Extend(f[n - 1], r[n], q)]

LEMMA SelectionExists ==
  ASSUME NEW q, NEW r \in Seq(Backends)
  PROVE  \E f : Selects(f, r, q)
<1> DEFINE Good(f, k) == f = [n \in 0..k |-> IF n = 0 THEN <<>> ELSE Extend(f[n - 1], r[n], q)]
           T == {k \in Nat : ~ \E f : Good(f, k)}
<1>1. T = {}
  <2> SUFFICES ASSUME T # {} PROVE FALSE
    OBVIOUS
  <2>1. PICK k \in T : \A m \in T : k <= m
    <3> HIDE DEF T
    <3>1. T \subseteq Nat
      BY DEF T
    <3> QED
    BY <3>1, LeastElement
  <2>2. k # 0
    <3>1. Good([n \in 0..0 |-> <<>>], 0)
      OBVIOUS
    <3>2. QED
      BY <3>1
  <2>3. k \in Nat /\ k - 1 \in Nat /\ k - 1 \notin T
    <3>1. k \in Nat
      OBVIOUS
    <3> HIDE DEF T
    <3>2. QED
      BY <2>1, <2>2, <3>1
  <2>4. PICK f : Good(f, k - 1)
    BY <2>3
  <2> DEFINE g == [n \in 0..k |-> IF n = k THEN Extend(f[k - 1], r[k], q) ELSE f[n]]
  <2>5. \A n \in 0..k-1 : f[n] = IF n = 0 THEN <<>> ELSE Extend(f[n - 1], r[n], q)
    <3> HIDE DEF T
    <3> QED BY <2>3, <2>4
  <2>6. \A n \in 0..k : g[n] = IF n = 0 THEN <<>> ELSE Extend(g[n - 1], r[n], q)
    <3> HIDE DEF T
    <3> QED BY <2>3, <2>5, <2>2
  <2>7. Good(g, k)
    <3> HIDE DEF T
    <3> QED BY <2>6
  <2>8. QED
    BY <2>7, <2>1
<1>2. Len(r) \in Nat
  OBVIOUS
<1>3. QED
  BY <1>1, <1>2 DEF Selects

LEMMA CandidatesSelected ==
  ASSUME NEW q, Ranking(q) \in Seq(Backends)
  PROVE  \E f : Selects(f, Ranking(q), q) /\ Candidates(q) = f[Len(Ranking(q))]
<1> DEFINE f == CHOOSE f : Selects(f, Ranking(q), q)
<1>1. Selects(f, Ranking(q), q)
  BY SelectionExists
<1>2. Candidates(q) = f[Len(Ranking(q))]
  BY DEF Candidates, Selects, Extend
<1>3. QED
  BY <1>1, <1>2

Fit(b, q) == Declares(b, q) /\ Supports(b, q) = "yes"

\* The backends among the first k of a ranking that fit, each once, in its order.
SelectedFrom(s, k, r, q) ==
  /\ s \in Seq(Backends)
  /\ \A n \in 1..Len(s) : Fit(s[n], q)
  /\ \A m, n \in 1..Len(s) : s[m] = s[n] => m = n
  /\ \A i \in 1..k : Fit(r[i], q) => Contains(s, r[i])
  /\ \A n \in 1..Len(s) : \E i \in 1..k :
       /\ r[i] = s[n]
       /\ \A j \in 1..(i - 1) : Fit(r[j], q) => \E m \in 1..(n - 1) : s[m] = r[j]

LEMMA ExtendSelects ==
  ASSUME NEW q, NEW r \in Seq(Backends), NEW s, NEW k \in 1..Len(r), SelectedFrom(s, k - 1, r, q)
  PROVE  SelectedFrom(Extend(s, r[k], q), k, r, q)
<1> DEFINE b == r[k]
<1>0. Len(r) \in Nat /\ k \in Nat /\ b \in Backends /\ s \in Seq(Backends) /\ Len(s) \in Nat
  BY DEF SelectedFrom
<1> HIDE DEF b
<1>1. CASE ~ (Fit(b, q) /\ ~Contains(s, b))
  <2>1. Extend(s, b, q) = s
    BY <1>1 DEF Extend, Fit
  <2>2. \A i \in 1..k : Fit(r[i], q) => Contains(s, r[i])
    BY <1>0, <1>1 DEF SelectedFrom, b
  <2>3. \A n \in 1..Len(s) : \E i \in 1..k :
          /\ r[i] = s[n]
          /\ \A j \in 1..(i - 1) : Fit(r[j], q) => \E m \in 1..(n - 1) : s[m] = r[j]
    <3>1. \A i \in 1..(k - 1) : i \in 1..k
      BY <1>0
    <3>2. QED
      BY <3>1 DEF SelectedFrom
  <2>4. SelectedFrom(s, k, r, q)
    BY <2>2, <2>3 DEF SelectedFrom
  <2>5. QED
    BY <2>1, <2>4 DEF b
<1>2. CASE Fit(b, q) /\ ~Contains(s, b)
  <2> DEFINE t == Append(s, b)
  <2>1. Extend(s, b, q) = t
    BY <1>2 DEF Extend, Fit
  <2>2. /\ t \in Seq(Backends) /\ Len(t) = Len(s) + 1 /\ t[Len(s) + 1] = b
        /\ \A n \in 1..Len(s) : t[n] = s[n]
    BY <1>0, AppendProperties
  <2> HIDE DEF t
  <2>3. \A n \in 1..Len(t) : n \in 1..Len(s) \/ n = Len(s) + 1
    BY <1>0, <2>2
  <2>4. \A n \in 1..Len(s) : s[n] # b
    BY <1>2 DEF Contains
  <2>5. \A n \in 1..Len(t) : Fit(t[n], q)
    BY <1>2, <2>2, <2>3 DEF SelectedFrom
  <2>6. \A m, n \in 1..Len(t) : t[m] = t[n] => m = n
    BY <2>2, <2>3, <2>4 DEF SelectedFrom
  <2>7. ASSUME NEW i \in 1..k, Fit(r[i], q) PROVE Contains(t, r[i])
    <3>1. CASE i = k
      BY <1>0, <2>2, <3>1 DEF Contains, b
    <3>2. CASE i # k
      <4>1. PICK n \in 1..Len(s) : s[n] = r[i]
        BY SMTT(30), <1>0, <2>7, <3>2 DEF SelectedFrom, Contains
      <4>2. QED
        BY <1>0, <2>2, <4>1 DEF Contains
    <3>3. QED
      BY <3>1, <3>2
  <2>8. ASSUME NEW n \in 1..Len(t)
        PROVE  \E i \in 1..k :
                 /\ r[i] = t[n]
                 /\ \A j \in 1..(i - 1) : Fit(r[j], q) => \E m \in 1..(n - 1) : t[m] = r[j]
    <3>1. CASE n = Len(s) + 1
      <4>1. ASSUME NEW j \in 1..(k - 1), Fit(r[j], q) PROVE \E m \in 1..(n - 1) : t[m] = r[j]
        <5>1. PICK m \in 1..Len(s) : s[m] = r[j]
          BY <4>1 DEF SelectedFrom, Contains
        <5>2. QED
          BY <1>0, <2>2, <3>1, <5>1
      <4>2. QED
        BY <1>0, <2>2, <3>1, <4>1 DEF b
    <3>2. CASE n \in 1..Len(s)
      <4>1. PICK i \in 1..(k - 1) :
              /\ r[i] = s[n]
              /\ \A j \in 1..(i - 1) : Fit(r[j], q) => \E m \in 1..(n - 1) : s[m] = r[j]
        BY <3>2 DEF SelectedFrom
      <4>2. \A m \in 1..(n - 1) : t[m] = s[m]
        BY <1>0, <2>2, <3>2
      <4>3. \A j \in 1..(i - 1) : Fit(r[j], q) => \E m \in 1..(n - 1) : t[m] = r[j]
        BY <4>1, <4>2
      <4>4. r[i] = t[n] /\ i \in 1..k
        BY <1>0, <2>2, <3>2, <4>1
      <4>5. QED
        BY <4>3, <4>4
    <3>3. QED
      BY <2>3, <3>1, <3>2
  <2>9. SelectedFrom(t, k, r, q)
    BY <2>2, <2>5, <2>6, <2>7, <2>8 DEF SelectedFrom
  <2>10. QED
    BY <2>1, <2>9 DEF b
<1>3. QED
  BY <1>1, <1>2

LEMMA CandidatesFollowRanking ==
  ASSUME NEW q, Ranking(q) \in Seq(Backends)
  PROVE  SelectedFrom(Candidates(q), Len(Ranking(q)), Ranking(q), q)
<1> DEFINE r == Ranking(q)
<1>0. r \in Seq(Backends) /\ Len(r) \in Nat
  OBVIOUS
<1>1. PICK f : Selects(f, r, q) /\ Candidates(q) = f[Len(r)]
  BY CandidatesSelected
<1> HIDE DEF r
<1>2. /\ f[0] = <<>>
      /\ \A n \in 1..Len(r) : f[n] = Extend(f[n - 1], r[n], q)
  <2>1. \A n \in 0..Len(r) : f[n] = IF n = 0 THEN <<>> ELSE Extend(f[n - 1], r[n], q)
    BY <1>1 DEF Selects
  <2>2. QED
    BY <1>0, <2>1
<1> DEFINE T == {k \in 0..Len(r) : ~SelectedFrom(f[k], k, r, q)}
<1>3. T = {}
  <2> SUFFICES ASSUME T # {} PROVE FALSE
    OBVIOUS
  <2>1. T \subseteq Nat
    BY <1>0
  <2> HIDE DEF T
  <2>2. PICK k \in T : \A m \in T : k <= m
    BY <2>1, LeastElement
  <2>3. k \in 0..Len(r) /\ ~SelectedFrom(f[k], k, r, q)
    BY <2>2 DEF T
  <2>4. SelectedFrom(f[0], 0, r, q)
    <3>1. f[0] \in Seq(Backends) /\ Len(f[0]) = 0
      BY <1>2
    <3>2. QED
      BY <3>1 DEF SelectedFrom
  <2>5. k \in 1..Len(r) /\ k - 1 \in 0..Len(r) /\ ~ (k <= k - 1)
    BY <1>0, <2>3, <2>4
  <2>6. SelectedFrom(f[k - 1], k - 1, r, q)
    BY <2>2, <2>5 DEF T
  <2>7. SelectedFrom(f[k], k, r, q)
    BY <1>0, <1>2, <2>5, <2>6, ExtendSelects
  <2>8. QED
    BY <2>3, <2>7
<1>4. QED
  BY <1>0, <1>1, <1>3 DEF r
-------------------------------------------------------------------------------
Prefix(q) == IF q.override = Nobody THEN <<>> ELSE <<q.override>>

LEMMA PreferencesTyped ==
  ASSUME NEW q \in Asked
  PROVE  /\ Preferred[q.capability] \in Seq(Backends)
         /\ \A n \in 1..Len(Preferred[q.capability]) : Declares(Preferred[q.capability][n], q)
         /\ \A m, n \in 1..Len(Preferred[q.capability]) :
              Preferred[q.capability][m] = Preferred[q.capability][n] => m = n
<1> DEFINE p == Preferred[q.capability]
           D == {b \in Backends : q.capability \in Declared[b]}
<1>1. p \in Seq(D) /\ IsInjective(p)
  BY RouterAssumption
<1>2. D \subseteq Backends /\ \A b \in D : Declares(b, q)
  BY DEF Declares
<1> HIDE DEF p, D
<1>3. Len(p) \in Nat /\ DOMAIN p = 1..Len(p) /\ \A n \in 1..Len(p) : p[n] \in D
  BY <1>1, LenProperties, ElementOfSeq
<1>4. p \in Seq(Backends)
  BY <1>1, <1>2
<1>5. QED
  BY <1>1, <1>2, <1>3, <1>4 DEF IsInjective, p

LEMMA RegistrationTyped ==
  /\ Registered \in Seq(Backends) /\ Len(Registered) \in Nat
  /\ \A m, n \in 1..Len(Registered) : Registered[m] = Registered[n] => m = n
  /\ \A b \in Backends : \E n \in 1..Len(Registered) : Registered[n] = b
<1>1. Registered \in Seq(Backends) /\ IsInjective(Registered)
  BY RouterAssumption
<1>2. Len(Registered) \in Nat /\ DOMAIN Registered = 1..Len(Registered)
  BY <1>1, LenProperties
<1>3. Backends = {Registered[n] : n \in DOMAIN Registered}
  BY <1>2 DEF Backends, ToSet
<1>4. QED
  BY <1>1, <1>2, <1>3 DEF IsInjective

LEMMA ConcatParts ==
  ASSUME NEW S, NEW s \in Seq(S), NEW t \in Seq(S)
  PROVE  /\ s \o t \in Seq(S) /\ Len(s \o t) = Len(s) + Len(t)
         /\ \A i \in 1..Len(s) : (s \o t)[i] = s[i]
         /\ \A i \in 1..Len(t) : (s \o t)[Len(s) + i] = t[i]
OBVIOUS

LEMMA RankingPlaces ==
  ASSUME NEW q \in Asked, q.override \in Backends \cup {Nobody}
  PROVE  LET p == Preferred[q.capability]
             v == IF q.override = Nobody THEN 0 ELSE 1
         IN /\ Ranking(q) \in Seq(Backends)
            /\ Len(Ranking(q)) = v + Len(p) + Len(Registered)
            /\ v = 1 => Ranking(q)[1] = q.override
            /\ \A n \in 1..Len(p) : Ranking(q)[v + n] = p[n]
            /\ \A n \in 1..Len(Registered) : Ranking(q)[v + Len(p) + n] = Registered[n]
<1> DEFINE p == Preferred[q.capability]
           v == IF q.override = Nobody THEN 0 ELSE 1
           a == Prefix(q)
           ap == a \o p
<1>1. a \in Seq(Backends) /\ Len(a) = v /\ (v = 1 => a[1] = q.override) /\ v \in {0, 1}
  BY DEF Prefix
<1>2. p \in Seq(Backends) /\ Len(p) \in Nat
  BY PreferencesTyped
<1>3. Ranking(q) = ap \o Registered
  BY DEF Ranking, Prefix
<1> HIDE DEF p, v, a
<1>4. /\ ap \in Seq(Backends) /\ Len(ap) = Len(a) + Len(p)
      /\ \A i \in 1..Len(a) : ap[i] = a[i]
      /\ \A i \in 1..Len(p) : ap[Len(a) + i] = p[i]
  BY ONLY <1>1, <1>2, ConcatParts
<1> HIDE DEF ap
<1>5. Registered \in Seq(Backends) /\ Len(Registered) \in Nat
  BY RegistrationTyped
<1> DEFINE r == ap \o Registered
<1>6. /\ r \in Seq(Backends) /\ Len(r) = Len(ap) + Len(Registered)
      /\ \A i \in 1..Len(ap) : r[i] = ap[i]
      /\ \A i \in 1..Len(Registered) : r[Len(ap) + i] = Registered[i]
  <2>1. ap \in Seq(Backends)
    BY <1>4
  <2>2. QED
    BY ONLY <2>1, <1>5, ConcatParts
<1> HIDE DEF r
<1>7. Len(r) = v + Len(p) + Len(Registered)
  BY <1>1, <1>4, <1>6
<1>8. v = 1 => r[1] = q.override
  BY <1>1, <1>2, <1>4, <1>6
<1>9. ASSUME NEW n \in 1..Len(p) PROVE r[v + n] = p[n]
  <2>1. v + n \in 1..Len(ap)
    BY <1>1, <1>2, <1>4
  <2>2. QED
    BY <1>1, <1>4, <1>6, <2>1
<1>10. \A n \in 1..Len(Registered) : r[v + Len(p) + n] = Registered[n]
  BY <1>1, <1>4, <1>6
<1>11. r = Ranking(q)
  BY <1>3 DEF r
<1>12. QED
  BY <1>6, <1>7, <1>8, <1>9, <1>10, <1>11 DEF p, v

\* Who has the better place is ranked before every mention of the other.
LEMMA PlacesAreRanked ==
  ASSUME NEW q \in Asked, q.override \in Backends \cup {Nobody},
         NEW b \in Backends, NEW d \in Backends, Before(PlaceOf(d, q), PlaceOf(b, q)),
         NEW i \in 1..Len(Ranking(q)), Ranking(q)[i] = b
  PROVE  \E j \in 1..(i - 1) : Ranking(q)[j] = d
<1> DEFINE r == Ranking(q)
           p == Preferred[q.capability]
           v == IF q.override = Nobody THEN 0 ELSE 1
           g == Registered
           At(s, e) == CHOOSE n \in DOMAIN s : s[n] = e
<1>1. v \in {0, 1} /\ Len(p) \in Nat /\ Len(g) \in Nat /\ DOMAIN p = 1..Len(p) /\ DOMAIN g = 1..Len(g)
  BY PreferencesTyped, RegistrationTyped, LenProperties
<1>2. /\ Len(r) = v + Len(p) + Len(g)
      /\ v = 1 => r[1] = q.override
      /\ \A n \in 1..Len(p) : r[v + n] = p[n]
      /\ \A n \in 1..Len(g) : r[v + Len(p) + n] = g[n]
  BY RankingPlaces
<1>3. \A e : Contains(p, e) => At(p, e) \in 1..Len(p) /\ p[At(p, e)] = e
  BY <1>1 DEF Contains
<1>4. \A e \in Backends : At(g, e) \in 1..Len(g) /\ g[At(g, e)] = e
  BY <1>1, RegistrationTyped
<1>5. \A e : PlaceOf(e, q) = IF e = q.override THEN <<0, 0>>
                             ELSE IF Contains(p, e) THEN <<1, At(p, e)>> ELSE <<2, At(g, e)>>
  BY DEF PlaceOf
<1>6. \A m, n \in 1..Len(p) : p[m] = p[n] => m = n
  BY PreferencesTyped
<1>7. \A m, n \in 1..Len(g) : g[m] = g[n] => m = n
  BY RegistrationTyped
<1>8. i \in 1..Len(r) /\ r[i] = b
  OBVIOUS
<1>9. q.override # Nobody => v = 1
  OBVIOUS
<1>10. d # Nobody /\ b # Nobody
  BY RouterAssumption
<1> HIDE DEF r, p, v, g, At
<1>11. b # q.override
  <2> SUFFICES ASSUME b = q.override PROVE FALSE
    OBVIOUS
  <2>1. PlaceOf(b, q)[1] = 0 /\ PlaceOf(b, q)[2] = 0
    BY <1>5
  <2>2. PlaceOf(d, q)[1] \in Nat /\ PlaceOf(d, q)[2] \in Nat
    BY <1>1, <1>3, <1>4, <1>5
  <2>3. QED
    BY <2>1, <2>2 DEF Before
<1>12. i > v
  BY <1>1, <1>2, <1>8, <1>11
<1>13. CASE d = q.override
  <2>1. v = 1 /\ r[1] = d
    BY <1>2, <1>9, <1>10, <1>13
  <2>2. 1 \in 1..(i - 1)
    BY <1>8, <1>1, <1>12, <2>1
  <2>3. QED
    BY <2>1, <2>2 DEF r
<1>14. CASE d # q.override /\ Contains(p, d)
  <2>1. At(p, d) \in 1..Len(p) /\ p[At(p, d)] = d /\ PlaceOf(d, q) = <<1, At(p, d)>>
    BY <1>3, <1>5, <1>14
  <2>2. r[v + At(p, d)] = d
    BY <1>2, <2>1
  <2>3. v + At(p, d) < i
    <3>1. CASE i <= v + Len(p)
      <4>1. i - v \in 1..Len(p) /\ v + (i - v) = i
        BY <1>1, <1>8, <1>12, <3>1
      <4>2. p[i - v] = b
        BY <1>2, <1>8, <4>1
      <4>3. Contains(p, b)
        BY <4>1, <4>2 DEF Contains
      <4>4. PlaceOf(b, q) = <<1, At(p, b)>> /\ At(p, b) = i - v
        BY <1>3, <1>5, <1>6, <1>11, <4>1, <4>2, <4>3
      <4>5. At(p, d) < i - v
        BY <2>1, <4>4 DEF Before
      <4>6. QED
        BY <1>1, <2>1, <4>1, <4>5
    <3>2. CASE i > v + Len(p)
      BY <1>1, <1>8, <2>1, <3>2
    <3>3. QED
      BY <1>1, <1>8, <3>1, <3>2
  <2>4. QED
    BY <1>1, <1>8, <2>1, <2>2, <2>3 DEF r
<1>15. CASE d # q.override /\ ~Contains(p, d)
  <2>1. At(g, d) \in 1..Len(g) /\ g[At(g, d)] = d /\ PlaceOf(d, q) = <<2, At(g, d)>>
    BY <1>4, <1>5, <1>15
  <2>2. r[v + Len(p) + At(g, d)] = d
    BY <1>2, <2>1
  <2>3. ~Contains(p, b)
    <3> SUFFICES ASSUME Contains(p, b) PROVE FALSE
      OBVIOUS
    <3>1. PlaceOf(b, q) = <<1, At(p, b)>>
      BY <1>5, <1>11
    <3>2. QED
      BY <2>1, <3>1 DEF Before
  <2>4. PlaceOf(b, q) = <<2, At(g, b)>> /\ At(g, b) \in 1..Len(g) /\ g[At(g, b)] = b
    BY <1>4, <1>5, <1>11, <2>3
  <2>5. At(g, d) < At(g, b)
    BY <2>1, <2>4 DEF Before
  <2>6. i > v + Len(p)
    <3> SUFFICES ASSUME i <= v + Len(p) PROVE FALSE
      BY <1>1, <1>8
    <3>1. i - v \in 1..Len(p) /\ v + (i - v) = i
      BY <1>1, <1>8, <1>12
    <3>2. p[i - v] = b
      BY <1>2, <1>8, <3>1
    <3>3. QED
      BY <2>3, <3>1, <3>2 DEF Contains
  <2>7. i - v - Len(p) \in 1..Len(g) /\ v + Len(p) + (i - v - Len(p)) = i
    BY <1>1, <1>2, <1>8, <2>6
  <2>8. g[i - v - Len(p)] = b
    BY <1>2, <1>8, <2>7
  <2>9. At(g, b) = i - v - Len(p)
    BY <1>7, <2>4, <2>7, <2>8
  <2>10. v + Len(p) + At(g, d) \in 1..(i - 1)
    <3>1. At(g, b) \in Nat /\ At(g, d) \in Nat /\ 1 <= At(g, d) /\ i \in Nat
      BY <1>1, <1>2, <1>8, <2>1, <2>4
    <3>2. v + Len(p) + At(g, d) < i
      BY <1>1, <2>5, <2>9, <3>1
    <3>3. QED
      BY <1>1, <3>1, <3>2
  <2>11. QED
    BY <2>2, <2>10 DEF r
<1>16. QED
  BY <1>13, <1>14, <1>15

\* What a route promises of the order it returns.
OrderIsSound(o, q) ==
  /\ o \in Seq(Backends)
  /\ \A n \in 1..Len(o) : Declares(o[n], q) /\ Supports(o[n], q) = "yes"
  /\ \A m, n \in 1..Len(o) : o[m] = o[n] => m = n
  /\ Authority[q.capability] = Nobody =>
       \A n \in 1..Len(o), d \in Backends :
         Declares(d, q) /\ Supports(d, q) = "yes" /\ Before(PlaceOf(d, q), PlaceOf(o[n], q))
           => \E m \in 1..(n - 1) : o[m] = d

LEMMA RouteIsSound ==
  ASSUME NEW q \in Asked
  PROVE  OrderIsSound(Route(q).order, q)
<1>1. OrderIsSound(<<>>, q)
  BY DEF OrderIsSound
<1>2. \A code : Refusal(code).order = <<>>
  BY DEF Refusal
<1>3. CASE Authority[q.capability] # Nobody
  <2> DEFINE b == Authority[q.capability]
  <2>1. b \in Backends /\ Declares(b, q)
    BY RouterAssumption, <1>3 DEF Declares
  <2>2. Route(q) = AuthoritativeRoute(b, q)
    BY <1>3 DEF Route
  <2>3. Route(q).order = <<>> \/ (Supports(b, q) = "yes" /\ Route(q).order = <<b>>)
    BY <1>2, <2>2 DEF AuthoritativeRoute
  <2> HIDE DEF b
  <2>4. Supports(b, q) = "yes" => OrderIsSound(<<b>>, q)
    BY <1>3, <2>1 DEF OrderIsSound
  <2>5. QED
    BY <1>1, <2>3, <2>4
<1>4. CASE Authority[q.capability] = Nobody
  <2> DEFINE o == Candidates(q)
             r == Ranking(q)
  <2>1. Route(q).order = <<>> \/ (OverrideCode(q) = "none" /\ Route(q).order = o)
    BY <1>2, <1>4 DEF Route
  <2>2. ASSUME OverrideCode(q) = "none" PROVE OrderIsSound(o, q)
    <3>1. q.override \in Backends \cup {Nobody}
      BY <2>2 DEF OverrideCode
    <3>2. r \in Seq(Backends)
      BY <3>1, RankingPlaces
    <3>3. SelectedFrom(o, Len(r), r, q)
      BY <3>2, CandidatesFollowRanking
    <3>4. \A b, d \in Backends, i \in 1..Len(r) :
            r[i] = b /\ Before(PlaceOf(d, q), PlaceOf(b, q)) => \E j \in 1..(i - 1) : r[j] = d
      BY <3>1, PlacesAreRanked
    <3>5. Len(r) \in Nat /\ o \in Seq(Backends) /\ Len(o) \in Nat
      BY <3>2, <3>3, LenProperties DEF SelectedFrom
    <3> HIDE DEF o, r
    <3>6. ASSUME NEW n \in 1..Len(o), NEW d \in Backends, Fit(d, q),
                 Before(PlaceOf(d, q), PlaceOf(o[n], q))
          PROVE  \E m \in 1..(n - 1) : o[m] = d
      <4>1. o[n] \in Backends
        BY <3>5, ElementOfSeq
      <4>2. PICK i \in 1..Len(r) :
              /\ r[i] = o[n]
              /\ \A j \in 1..(i - 1) : Fit(r[j], q) => \E m \in 1..(n - 1) : o[m] = r[j]
        BY <3>3 DEF SelectedFrom
      <4>3. PICK j \in 1..(i - 1) : r[j] = d
        BY <3>4, <3>6, <4>1, <4>2
      <4>4. QED
        BY <3>6, <4>2, <4>3
    <3>7. QED
      BY <3>3, <3>6 DEF SelectedFrom, OrderIsSound, Fit
  <2>3. QED
    BY <1>1, <2>1, <2>2
<1>5. QED
  BY <1>3, <1>4

-------------------------------------------------------------------------------
\* Queues.

LEMMA AppendDistinct ==
  ASSUME NEW S, NEW s \in Seq(S), NEW e \in S, IsInjective(s), e \notin ToSet(s)
  PROVE  /\ Append(s, e) \in Seq(S) /\ IsInjective(Append(s, e))
         /\ ToSet(Append(s, e)) = ToSet(s) \cup {e}
<1> DEFINE t == Append(s, e)
<1>1. /\ t \in Seq(S) /\ Len(t) = Len(s) + 1 /\ t[Len(s) + 1] = e /\ Len(s) \in Nat
      /\ \A n \in 1..Len(s) : t[n] = s[n]
      /\ DOMAIN s = 1..Len(s) /\ DOMAIN t = 1..(Len(s) + 1)
  BY AppendProperties, LenProperties
<1> HIDE DEF t
<1>2. \A n \in DOMAIN t : n \in 1..Len(s) \/ n = Len(s) + 1
  BY <1>1
<1>3. IsInjective(t)
  BY <1>1, <1>2 DEF IsInjective, ToSet
<1>4. ToSet(t) = ToSet(s) \cup {e}
  BY <1>1, <1>2 DEF ToSet
<1>5. QED
  BY <1>1, <1>3, <1>4 DEF t

LEMMA TailDistinct ==
  ASSUME NEW S, NEW s \in Seq(S), IsInjective(s), s # <<>>
  PROVE  /\ Tail(s) \in Seq(S) /\ IsInjective(Tail(s)) /\ Head(s) \in ToSet(s)
         /\ ToSet(Tail(s)) = ToSet(s) \ {Head(s)}
<1> DEFINE t == Tail(s)
<1>1. /\ t \in Seq(S) /\ Len(s) \in Nat /\ Len(s) >= 1
      /\ \A n \in 1..(Len(s) - 1) : t[n] = s[n + 1]
      /\ DOMAIN s = 1..Len(s) /\ DOMAIN t = 1..(Len(s) - 1) /\ Head(s) = s[1]
  BY HeadTailProperties, LenProperties
<1> HIDE DEF t
<1>2. IsInjective(t)
  BY <1>1 DEF IsInjective
<1>3. \A n \in DOMAIN s : n = 1 \/ (n - 1 \in DOMAIN t /\ n # 1)
  BY <1>1
<1>4. ToSet(t) = ToSet(s) \ {Head(s)}
  <2>1. ASSUME NEW e \in ToSet(t) PROVE e \in ToSet(s) \ {Head(s)}
    <3>1. PICK n \in DOMAIN t : t[n] = e
      BY DEF ToSet
    <3>2. n + 1 \in DOMAIN s /\ n + 1 # 1 /\ s[n + 1] = e /\ 1 \in DOMAIN s
      BY <1>1, <3>1
    <3>3. QED
      BY <1>1, <3>2 DEF ToSet, IsInjective
  <2>2. ASSUME NEW e \in ToSet(s), e # Head(s) PROVE e \in ToSet(t)
    <3>1. PICK n \in DOMAIN s : s[n] = e
      BY DEF ToSet
    <3>2. n - 1 \in DOMAIN t
      BY <1>1, <1>3, <2>2, <3>1
    <3>3. t[n - 1] = e
      BY <1>1, <3>1, <3>2
    <3>4. QED
      BY <3>2, <3>3 DEF ToSet
  <2>3. QED
    BY <2>1, <2>2
<1>5. Head(s) \in ToSet(s)
  <2>1. 1 \in DOMAIN s /\ s[1] = Head(s)
    BY <1>1
  <2>2. QED
    BY <2>1 DEF ToSet
<1>6. QED
  BY <1>1, <1>2, <1>4, <1>5 DEF t

\* Removing the only occurrence of an element closes the gap it leaves.
LEMMA RemoveFirstProperties ==
  ASSUME NEW S, NEW s \in Seq(S), NEW k \in 1..Len(s), \A j \in 1..Len(s) : s[j] = s[k] => j = k
  PROVE  /\ RemoveFirst(s, s[k]) \in Seq(S)
         /\ Len(RemoveFirst(s, s[k])) = Len(s) - 1
         /\ \A j \in 1..Len(s) - 1 : RemoveFirst(s, s[k])[j] = IF j < k THEN s[j] ELSE s[j + 1]
<1>0. Len(s) \in Nat /\ k \in Nat /\ \A j \in 1..Len(s) : s[j] \in S
  BY LenProperties, ElementOfSeq
<1>1. SelectInSeq(s, LAMBDA v : v = s[k]) = k
  <2>1. {j \in 1..Len(s) : s[j] = s[k]} = {k}
    OBVIOUS
  <2>2. Min({k}) = k
    BY <1>0 DEF Min
  <2>3. QED
    BY <2>1, <2>2 DEF SelectInSeq
<1>2. RemoveFirst(s, s[k]) = SubSeq(s, 1, k - 1) \o SubSeq(s, k + 1, Len(s))
  BY <1>1 DEF RemoveFirst, RemoveAt
<1>3. /\ SubSeq(s, 1, k - 1) \in Seq(S) /\ Len(SubSeq(s, 1, k - 1)) = k - 1
      /\ \A j \in 1..k - 1 : SubSeq(s, 1, k - 1)[j] = s[j]
  BY <1>0
<1>4. /\ SubSeq(s, k + 1, Len(s)) \in Seq(S) /\ Len(SubSeq(s, k + 1, Len(s))) = Len(s) - k
      /\ \A j \in 1..Len(s) - k : SubSeq(s, k + 1, Len(s))[j] = s[k + j]
  BY <1>0
<1> DEFINE a == SubSeq(s, 1, k - 1)
           b == SubSeq(s, k + 1, Len(s))
<1> HIDE DEF a, b
<1>5. a \in Seq(S) /\ b \in Seq(S)
  BY <1>3, <1>4 DEF a, b
<1>6. /\ a \o b \in Seq(S) /\ Len(a \o b) = Len(a) + Len(b)
      /\ \A i \in 1..Len(a) + Len(b) : (a \o b)[i] = IF i <= Len(a) THEN a[i] ELSE b[i - Len(a)]
  BY <1>5, ConcatProperties
<1>7. Len(a) = k - 1 /\ Len(b) = Len(s) - k
  BY <1>3, <1>4 DEF a, b
<1>8. ASSUME NEW j \in 1..Len(s) - 1
      PROVE  (a \o b)[j] = IF j < k THEN s[j] ELSE s[j + 1]
  <2>1. CASE j < k
    <3>1. a[j] = s[j]
      BY <1>0, <1>3, <2>1 DEF a
    <3>2. QED
      BY <1>0, <1>6, <1>7, <2>1, <3>1
  <2>2. CASE j >= k
    <3>1. b[j - (k - 1)] = s[k + (j - (k - 1))]
      BY <1>0, <1>4, <2>2 DEF b
    <3>2. (a \o b)[j] = b[j - (k - 1)]
      BY <1>0, <1>6, <1>7, <2>2
    <3>3. k + (j - (k - 1)) = j + 1
      BY <1>0
    <3>4. QED
      BY <1>0, <2>2, <3>1, <3>2, <3>3
  <2>3. j < k \/ j >= k
    BY <1>0
  <2>4. QED
    BY <2>1, <2>2, <2>3
<1>9. RemoveFirst(s, s[k]) = a \o b
  BY <1>2 DEF a, b
<1>10. Len(a \o b) = Len(s) - 1
  BY <1>0, <1>6, <1>7
<1>11. QED
  BY <1>6, <1>8, <1>9, <1>10

LEMMA RemoveDistinct ==
  ASSUME NEW S, NEW s \in Seq(S), NEW e, IsInjective(s)
  PROVE  /\ RemoveFirst(s, e) \in Seq(S) /\ IsInjective(RemoveFirst(s, e))
         /\ ToSet(RemoveFirst(s, e)) = ToSet(s) \ {e}
<1>0. Len(s) \in Nat /\ DOMAIN s = 1..Len(s)
  BY LenProperties
<1>1. CASE e \notin ToSet(s)
  <2>1. RemoveFirst(s, e) = s
    BY <1>0, <1>1 DEF RemoveFirst, ToSet
  <2>2. QED
    BY <1>1, <2>1
<1>2. CASE e \in ToSet(s)
  <2>1. PICK k \in 1..Len(s) : s[k] = e
    BY <1>0, <1>2 DEF ToSet
  <2>2. \A j \in 1..Len(s) : s[j] = s[k] => j = k
    BY <1>0 DEF IsInjective
  <2> DEFINE t == RemoveFirst(s, e)
  <2>3. /\ t \in Seq(S) /\ Len(t) = Len(s) - 1
        /\ \A j \in 1..Len(s) - 1 : t[j] = IF j < k THEN s[j] ELSE s[j + 1]
    BY <2>1, <2>2, RemoveFirstProperties
  <2> HIDE DEF t
  <2>4. DOMAIN t = 1..(Len(s) - 1)
    BY <2>3, LenProperties
  <2> DEFINE at(j) == IF j < k THEN j ELSE j + 1
  <2>5. \A j \in DOMAIN t : t[j] = s[at(j)] /\ at(j) \in 1..Len(s) /\ at(j) # k
    BY <1>0, <2>1, <2>3, <2>4
  <2>6. \A i, j \in DOMAIN t : at(i) = at(j) => i = j
    BY <1>0, <2>4
  <2>7. \A i \in 1..Len(s) : i # k => \E j \in DOMAIN t : at(j) = i
    <3> TAKE i \in 1..Len(s)
    <3>1. CASE i < k
      BY <1>0, <2>1, <2>4, <3>1
    <3>2. CASE i > k
      <4>1. i - 1 \in DOMAIN t /\ at(i - 1) = i
        BY <1>0, <2>1, <2>4, <3>2
      <4>2. QED
        BY <4>1
    <3>3. QED
      BY <1>0, <3>1, <3>2
  <2> HIDE DEF at
  <2>8. IsInjective(t)
    BY <1>0, <2>5, <2>6 DEF IsInjective
  <2>9. ToSet(t) \subseteq ToSet(s) \ {e}
    BY <1>0, <2>1, <2>2, <2>5 DEF ToSet
  <2>10. ToSet(s) \ {e} \subseteq ToSet(t)
    <3> SUFFICES ASSUME NEW i \in 1..Len(s), s[i] # e PROVE s[i] \in ToSet(t)
      BY <1>0 DEF ToSet
    <3>1. PICK j \in DOMAIN t : at(j) = i
      BY <2>1, <2>7
    <3>2. QED
      BY <2>5, <3>1 DEF ToSet
  <2>11. QED
    BY <2>3, <2>8, <2>9, <2>10 DEF t
<1>3. QED
  BY <1>1, <1>2

-------------------------------------------------------------------------------
\* Counting.

LEMMA UsingFinite == \A b : IsFiniteSet(Using(b)) /\ Cardinality(Using(b)) \in Nat
<1> SUFFICES ASSUME NEW b PROVE IsFiniteSet(Using(b)) /\ Cardinality(Using(b)) \in Nat
  OBVIOUS
<1>1. Using(b) \subseteq Calls /\ IsFiniteSet(Calls)
  BY RouterAssumption DEF Using
<1>2. QED
  BY <1>1, FS_Subset, FS_CardinalityType

Held == {"queued", "running", "unwinding"}
Waiting(b) == {c \in Calls : inv[c] = "queued" /\ Current(c) = b}

LEMMA SlotsKept ==
  ASSUME SlotsAccounted, UNCHANGED <<queue, slots>>,
         \A c \in Calls :
           /\ inv[c] \in Held \/ inv'[c] \in Held => inv'[c] = inv[c]
           /\ inv[c] \in Held => order'[c] = order[c] /\ tried'[c] = tried[c]
  PROVE  SlotsAccounted'
<1>1. \A c \in Calls : inv[c] \in Held => Current(c)' = Current(c)
  BY DEF Current
<1>2. \A b \in Backends : Using(b)' = Using(b)
  BY <1>1 DEF Using, Held
<1>3. \A b \in Backends : {c \in Calls : inv[c] = "queued" /\ Current(c) = b}'
                          = {c \in Calls : inv[c] = "queued" /\ Current(c) = b}
  BY <1>1 DEF Held
<1>4. QED
  BY <1>2, <1>3 DEF SlotsAccounted

\* One call's attempt changes: the others wait and work as before.
LEMMA SlotsMoved ==
  ASSUME SlotsAccounted, NEW c \in Calls, NEW w, inv' = [inv EXCEPT ![c] = w], DOMAIN inv = Calls,
         UNCHANGED <<order, tried>>
  PROVE  /\ \A d \in Calls : Current(d)' = Current(d)
         /\ \A b \in Backends :
              /\ Using(b)' = IF w \in {"running", "unwinding"} /\ Current(c) = b
                             THEN Using(b) \cup {c} ELSE Using(b) \ {c}
              /\ Waiting(b)' = IF w = "queued" /\ Current(c) = b
                               THEN Waiting(b) \cup {c} ELSE Waiting(b) \ {c}
<1>1. \A d \in Calls : Current(d)' = Current(d)
  BY DEF Current
<1>2. inv'[c] = w /\ \A d \in Calls : d # c => inv'[d] = inv[d]
  OBVIOUS
<1>3. ASSUME NEW b \in Backends
      PROVE  Using(b)' = IF w \in {"running", "unwinding"} /\ Current(c) = b
                             THEN Using(b) \cup {c} ELSE Using(b) \ {c}
  BY <1>1, <1>2 DEF Using
<1>4. ASSUME NEW b \in Backends
      PROVE  Waiting(b)' = IF w = "queued" /\ Current(c) = b
                               THEN Waiting(b) \cup {c} ELSE Waiting(b) \ {c}
  BY <1>1, <1>2 DEF Waiting
<1>5. QED
  BY <1>1, <1>3, <1>4

BusyCalls == {c \in Calls : Busy(c)}

LEMMA BusyFinite == IsFiniteSet(BusyCalls) /\ Cardinality(BusyCalls) \in Nat
<1>1. BusyCalls \subseteq Calls /\ IsFiniteSet(Calls)
  BY RouterAssumption DEF BusyCalls
<1>2. QED
  BY <1>1, FS_Subset, FS_CardinalityType

LEMMA CountUp ==
  ASSUME TypeOK, CallsCounted, NEW c \in Calls, ~Busy(c), Enter(c, "preparing"), active' = active + 1
  PROVE  CallsCounted'
<1>1. BusyCalls' = BusyCalls \cup {c} /\ c \notin BusyCalls
  BY DEF BusyCalls, Busy, Enter, TypeOK
<1>2. Cardinality(BusyCalls \cup {c}) = Cardinality(BusyCalls) + 1
  BY <1>1, BusyFinite, FS_AddElement
<1>3. QED
  BY <1>1, <1>2 DEF CallsCounted, BusyCalls

LEMMA CountDown ==
  ASSUME TypeOK, CallsCounted, NEW c \in Calls, Busy(c), Enter(c, "over"), active' = active - 1
  PROVE  CallsCounted' /\ active' \in Nat /\ active # 0
<1>1. BusyCalls' = BusyCalls \ {c} /\ c \in BusyCalls
  BY DEF BusyCalls, Busy, Enter, TypeOK
<1>2. /\ Cardinality(BusyCalls \ {c}) = Cardinality(BusyCalls) - 1
      /\ IsFiniteSet(BusyCalls \ {c})
  BY <1>1, BusyFinite, FS_RemoveElement
<1>3. Cardinality(BusyCalls \ {c}) \in Nat
  BY <1>2, FS_CardinalityType
<1>4. active = Cardinality(BusyCalls) /\ CallsCounted'
  BY <1>1, <1>2 DEF CallsCounted, BusyCalls
<1>5. QED
  BY <1>2, <1>3, <1>4, BusyFinite

-------------------------------------------------------------------------------
\* Every action keeps the invariant.

LEMMA InitIInv == Init => IInv
<1> SUFFICES ASSUME Init PROVE IInv
  OBVIOUS
<1> USE DEF Init
<1>0. RouterAssumption /\ Len(Registered) \in Nat
  BY RouterAssumption, RegistrationTyped
<1>1. TypeOK
  <2>1. slots \in [Backends -> Nat]
    BY <1>0 DEF RouterAssumption
  <2>2. shut \in 0..Len(Registered)
    BY <1>0
  <2>3. QED
    BY <2>1, <2>2 DEF TypeOK
<1>2. CallsTyped
  BY DEF CallsTyped, Reasons
<1>3. CallsRouted /\ AttemptsAccounted /\ AttemptsAwaited
  BY DEF CallsRouted, AttemptsAccounted, AttemptsAwaited, Busy
<1>4. SlotsAccounted
  <2> SUFFICES ASSUME NEW b \in Backends
               PROVE  /\ slots[b] + Cardinality(Using(b)) = Concurrency[b]
                      /\ IsInjective(queue[b])
                      /\ ToSet(queue[b]) = {c \in Calls : inv[c] = "queued" /\ Current(c) = b}
    BY DEF SlotsAccounted
  <2>1. Using(b) = {}
    BY DEF Using
  <2>2. Concurrency[b] \in Nat
    BY <1>0 DEF RouterAssumption
  <2>3. queue[b] = <<>> /\ ToSet(<<>>) = {} /\ IsInjective(<<>>)
    BY DEF ToSet, IsInjective
  <2>4. QED
    BY <2>1, <2>2, <2>3, FS_EmptySet
<1>5. CallsCounted
  <2>1. {c \in Calls : Busy(c)} = {}
    BY DEF Busy
  <2>2. QED
    BY <2>1, FS_EmptySet DEF CallsCounted
<1>6. CloseWaits
  BY DEF CloseWaits
<1>7. QED
  BY <1>1, <1>2, <1>3, <1>4, <1>5, <1>6 DEF IInv

\* The books of the calls do not depend on where exactly a call under way is.
LEMMA BooksKept ==
  ASSUME IInv, UNCHANGED <<request, order, tried, told, ended, active>>,
         \A c \in Calls : (Busy(c)' <=> Busy(c)) /\ (pc'[c] = "idle" <=> pc[c] = "idle")
  PROVE  CallsRouted' /\ AttemptsAccounted' /\ CallsCounted'
<1>1. CallsRouted'
  BY DEF IInv, CallsRouted
<1>2. AttemptsAccounted'
  BY DEF IInv, AttemptsAccounted
<1>3. {c \in Calls : Busy(c)}' = {c \in Calls : Busy(c)}
  OBVIOUS
<1>4. CallsCounted'
  BY <1>3 DEF IInv, CallsCounted
<1>5. QED
  BY <1>1, <1>2, <1>4

\* No refusal passes for a success.
LEMMA RefusalsAreNamed == \A q : Route(q).code # "success"
<1> SUFFICES ASSUME NEW q PROVE Route(q).code # "success"
  OBVIOUS
<1>1. \A code : Refusal(code).code = code
  BY DEF Refusal
<1>2. OverrideCode(q) # "success"
  BY DEF OverrideCode
<1>3. AuthoritativeRoute(Authority[q.capability], q).code # "success"
  BY <1>1 DEF AuthoritativeRoute
<1>4. QED
  BY <1>1, <1>2, <1>3 DEF Route

LEMMA BeginIInv ==
  ASSUME IInv, NEW c \in Calls, NEW q \in Requests[c], Begin(c, q)
  PROVE  IInv'
<1> DEFINE o == Route(q).order
<1>0. /\ TypeOK /\ CallsTyped /\ CallsRouted /\ AttemptsAccounted /\ AttemptsAwaited
      /\ SlotsAccounted /\ CallsCounted /\ CloseWaits
      /\ q \in Asked /\ pc[c] = "idle"
  BY DEF IInv, Asked, Begin
<1>1. o \in Seq(Backends)
  BY <1>0, RouteIsSound DEF OrderIsSound
<1>2. order[c] = <<>> /\ told[c] = <<>> /\ tried[c] \in Seq([backend : Backends, outcome : Reasons])
  BY <1>0 DEF CallsTyped, CallsRouted
<1>3. Len(tried[c]) = 0 /\ inv[c] \in {"none", "gone"} /\ ~Busy(c)
  <2>1. ~Busy(c)
    BY <1>0 DEF Busy
  <2>2. Len(tried[c]) <= Len(order[c]) /\ Len(order[c]) = 0 /\ Len(tried[c]) \in Nat
    BY <1>0, <1>2, <2>1, LenProperties DEF CallsRouted
  <2>3. inv[c] \in {"none", "gone"}
    BY <1>0 DEF AttemptsAwaited
  <2>4. QED
    BY <2>1, <2>2, <2>3
<1>4. /\ request' = [request EXCEPT ![c] = q]
      /\ UNCHANGED <<tried, reason, told, inv, queue, slots, closing, closeTask, shut, closer>>
  BY DEF Begin, invVars, closeVars
<1> HIDE DEF o
<1>5. CASE closing \/ o = <<>>
  <2>1. PICK how : how # "success" /\ ended' = [ended EXCEPT ![c] = how]
    BY <1>5, RefusalsAreNamed DEF Begin, o
  <2>2. pc' = [pc EXCEPT ![c] = "over"] /\ UNCHANGED <<order, active>>
    BY <1>5 DEF Enter, Begin, o
  <2>3. TypeOK'
    BY <1>0, <1>4, <2>2 DEF TypeOK
  <2>4. CallsTyped'
    BY <1>0, <1>4, <2>1, <2>2 DEF CallsTyped
  <2>5. CallsRouted'
    BY <1>0, <1>2, <1>3, <1>4, <2>2 DEF CallsRouted, Busy, TypeOK, CallsTyped
  <2>6. AttemptsAccounted'
    BY <1>0, <1>3, <1>4, <2>1, <2>2 DEF AttemptsAccounted, Busy, TypeOK, CallsTyped
  <2>7. AttemptsAwaited'
    BY <1>0, <1>3, <1>4, <2>2 DEF AttemptsAwaited, TypeOK
  <2>8. SlotsAccounted'
    BY <1>0, <1>4, <2>2, SlotsKept
  <2>9. CallsCounted'
    <3>1. {d \in Calls : Busy(d)}' = {d \in Calls : Busy(d)}
      BY <1>0, <1>3, <2>2 DEF Busy, TypeOK
    <3>2. QED
      BY <1>0, <2>2, <3>1 DEF CallsCounted
  <2>10. CloseWaits'
    BY <1>0, <1>4, <2>2 DEF CloseWaits
  <2>11. QED
    BY <2>3, <2>4, <2>5, <2>6, <2>7, <2>8, <2>9, <2>10 DEF IInv
<1>6. CASE ~closing /\ o # <<>>
  <2>1. /\ pc' = [pc EXCEPT ![c] = "preparing"] /\ order' = [order EXCEPT ![c] = o]
        /\ active' = active + 1 /\ ended' = ended
    BY <1>6 DEF Enter, Begin, o
  <2>2. TypeOK'
    BY <1>0, <1>4, <2>1 DEF TypeOK
  <2>3. CallsTyped'
    BY <1>0, <1>1, <1>4, <2>1 DEF CallsTyped
  <2>4. Len(o) > 0
    BY <1>1, <1>6, EmptySeq, LenProperties
  <2>5. CallsRouted'
    BY <1>0, <1>1, <1>2, <1>3, <1>4, <2>1, <2>4 DEF CallsRouted, Busy, TypeOK, CallsTyped, o
  <2>6. AttemptsAccounted'
    <3>1. /\ \A d \in Calls : d # c => order'[d] = order[d] /\ (Busy(d)' <=> Busy(d))
          /\ Len(told[c]) = 0
      BY <1>0, <1>2, <2>1 DEF Busy, TypeOK, CallsTyped
    <3>2. QED
      BY <1>0, <1>3, <1>4, <2>1, <3>1 DEF AttemptsAccounted
  <2>7. AttemptsAwaited'
    BY <1>0, <1>3, <1>4, <2>1 DEF AttemptsAwaited, TypeOK
  <2>8. SlotsAccounted'
    <3>1. \A d \in Calls : d # c => order'[d] = order[d]
      BY <1>0, <2>1 DEF CallsTyped
    <3>2. QED
      BY <1>0, <1>3, <1>4, <3>1, SlotsKept DEF Held
  <2>9. CallsCounted'
    BY <1>0, <1>3, <2>1, CountUp DEF Enter
  <2>10. CloseWaits'
    BY <1>0, <1>4, <1>6, <2>1 DEF CloseWaits
  <2>11. QED
    BY <2>2, <2>3, <2>5, <2>6, <2>7, <2>8, <2>9, <2>10 DEF IInv
<1>7. QED
  BY <1>5, <1>6

\* A call ends without a result; its attempt, if it had one, is gone.
LEMMA EndIInv ==
  ASSUME IInv, NEW c \in Calls, pc[c] \in {"preparing", "reporting"}, NEW how, how # "success",
         End(c, how), UNCHANGED <<request, order, tried, reason, told, invVars, closeVars>>
  PROVE  IInv'
<1> USE DEF End, Enter, invVars, closeVars
<1>0. TypeOK /\ CallsTyped /\ CallsCounted /\ Busy(c) /\ inv[c] \in {"none", "gone"}
  BY DEF IInv, Busy, AttemptsAwaited
<1>1. CallsCounted' /\ active' \in Nat /\ active # 0
  BY <1>0, CountDown
<1>2. TypeOK'
  BY <1>0, <1>1 DEF TypeOK
<1>3. CallsTyped'
  BY <1>0 DEF CallsTyped
<1>4. CallsRouted'
  <2>1. \A d \in Calls : /\ Busy(d)' => Busy(d)
                         /\ pc'[d] = "idle" <=> pc[d] = "idle"
    BY <1>0 DEF Busy, TypeOK
  <2>2. QED
    BY <2>1 DEF IInv, CallsRouted
<1>5. AttemptsAccounted'
  BY <1>0 DEF IInv, AttemptsAccounted, Busy, TypeOK, CallsTyped
<1>6. AttemptsAwaited'
  BY <1>0 DEF IInv, AttemptsAwaited, TypeOK
<1>7. SlotsAccounted'
  BY SlotsKept DEF IInv
<1>8. CloseWaits'
  BY <1>1 DEF IInv, CloseWaits
<1>9. QED
  BY <1>1, <1>2, <1>3, <1>4, <1>5, <1>6, <1>7, <1>8 DEF IInv

\* The call under way moves on, or its attempt does.
LEMMA MoveIInv ==
  ASSUME IInv, NEW c \in Calls, Busy(c),
         NEW w \in {"preparing", "waiting", "cleaning", "reporting"}, pc' = [pc EXCEPT ![c] = w],
         NEW i \in {"none", "queued", "running", "unwinding", "gone"} \cup Outcomes,
         inv' = [inv EXCEPT ![c] = i],
         i \in CASE w = "waiting" -> {"queued", "running"} \cup Outcomes
                 [] w = "cleaning" -> {"unwinding", "gone"}
                 [] OTHER -> {"none", "gone"},
         reason' \in [Calls -> Reasons], slots' \in [Backends -> Nat],
         queue' \in [Backends -> Seq(Calls)], SlotsAccounted',
         UNCHANGED <<request, order, tried, told, ended, active, closeVars>>
  PROVE  IInv'
<1> USE DEF closeVars
<1>0. TypeOK /\ CallsTyped
  BY DEF IInv
<1>1. TypeOK'
  BY <1>0 DEF TypeOK
<1>2. CallsTyped'
  BY <1>0 DEF CallsTyped
<1>3. \A d \in Calls : (Busy(d)' <=> Busy(d)) /\ (pc'[d] = "idle" <=> pc[d] = "idle")
  BY <1>0 DEF Busy, TypeOK
<1>4. CallsRouted' /\ AttemptsAccounted' /\ CallsCounted'
  BY <1>3, BooksKept
<1>5. AttemptsAwaited'
  <2>1. inv'[c] = i /\ pc'[c] = w /\ \A d \in Calls : d # c => inv'[d] = inv[d] /\ pc'[d] = pc[d]
    BY <1>0 DEF TypeOK
  <2>2. QED
    BY <2>1 DEF IInv, AttemptsAwaited
<1>6. CloseWaits'
  BY DEF IInv, CloseWaits
<1>7. QED
  BY <1>1, <1>2, <1>4, <1>5, <1>6 DEF IInv

\* The backend an attempt goes to.
LEMMA CurrentTyped ==
  ASSUME IInv, NEW c \in Calls, Busy(c)
  PROVE  /\ Current(c) \in Backends
         /\ Len(tried[c]) \in Nat /\ Len(tried[c]) + 1 \in 1..Len(order[c])
<1>1. /\ order[c] \in Seq(Backends) /\ tried[c] \in Seq([backend : Backends, outcome : Reasons])
      /\ Len(tried[c]) < Len(order[c])
  BY DEF IInv, CallsTyped, CallsRouted
<1>2. Len(tried[c]) \in Nat /\ Len(order[c]) \in Nat
  BY <1>1, LenProperties
<1>3. QED
  BY <1>1, <1>2, ElementOfSeq DEF Current

LEMMA AttemptsOfTheBusy ==
  ASSUME IInv, NEW c \in Calls
  PROVE  /\ inv[c] \in {"running", "unwinding", "queued"} \cup Outcomes => Busy(c)
         /\ inv[c] \in {"running", "queued"} \cup Outcomes => pc[c] = "waiting"
         /\ inv[c] = "unwinding" => pc[c] = "cleaning"
<1>1. inv[c] \in CASE pc[c] = "waiting" -> {"queued", "running"} \cup Outcomes
                   [] pc[c] = "cleaning" -> {"unwinding", "gone"}
                   [] OTHER -> {"none", "gone"}
  BY DEF IInv, AttemptsAwaited
<1>2. pc[c] # "waiting" /\ pc[c] # "cleaning" => inv[c] \in {"none", "gone"}
  BY <1>1
<1>3. pc[c] = "cleaning" => inv[c] \in {"unwinding", "gone"}
  BY <1>1
<1>4. pc[c] = "waiting" => inv[c] \in {"queued", "running"} \cup Outcomes
  BY <1>1
<1>5. QED
  BY <1>2, <1>3, <1>4 DEF Busy, Outcomes

LEMMA StartAttemptIInv ==
  ASSUME IInv, NEW c \in Calls, StartAttempt(c)
  PROVE  IInv'
<1> DEFINE b == Current(c)
<1>0. /\ TypeOK /\ CallsTyped /\ SlotsAccounted /\ pc[c] = "preparing" /\ Busy(c)
      /\ inv' = [inv EXCEPT ![c] = "queued"] /\ queue' = [queue EXCEPT ![b] = Append(@, c)]
      /\ UNCHANGED <<order, tried, slots>>
  BY DEF IInv, StartAttempt, Busy
<1>1. b \in Backends
  BY <1>0, CurrentTyped
<1>2. inv[c] \in {"none", "gone"}
  BY <1>0 DEF IInv, AttemptsAwaited
<1> HIDE DEF b
<1>3. queue[b] \in Seq(Calls) /\ IsInjective(queue[b]) /\ ToSet(queue[b]) = Waiting(b)
  BY <1>0, <1>1 DEF CallsTyped, SlotsAccounted, Waiting
<1>4. /\ queue'[b] \in Seq(Calls) /\ IsInjective(queue'[b]) /\ ToSet(queue'[b]) = Waiting(b) \cup {c}
      /\ \A d \in Backends : d # b => queue'[d] = queue[d]
  <2>1. c \notin ToSet(queue[b])
    BY <1>2, <1>3 DEF Waiting
  <2>2. queue'[b] = Append(queue[b], c) /\ \A d \in Backends : d # b => queue'[d] = queue[d]
    BY <1>0, <1>1 DEF CallsTyped
  <2>3. QED
    BY <1>3, <2>1, <2>2, AppendDistinct
<1>5. SlotsAccounted'
  <2>1. DOMAIN inv = Calls
    BY <1>0 DEF TypeOK
  <2>2. \A d \in Backends :
          /\ Using(d)' = Using(d) \ {c}
          /\ Waiting(d)' = IF b = d THEN Waiting(d) \cup {c} ELSE Waiting(d) \ {c}
    BY <1>0, <2>1, SlotsMoved DEF b
  <2>3. \A d \in Backends : c \notin Using(d) /\ c \notin Waiting(d)
    BY <1>2 DEF Using, Waiting
  <2>4. \A d \in Backends : ToSet(queue[d]) = Waiting(d)
    BY <1>0 DEF SlotsAccounted, Waiting
  <2>5. ASSUME NEW d \in Backends PROVE Using(d)' = Using(d) /\ Waiting(d)' = ToSet(queue'[d])
    <3>1. Using(d)' = Using(d)
      BY <2>2, <2>3
    <3>2. CASE d = b
      BY <1>4, <2>2, <3>1, <3>2
    <3>3. CASE d # b
      <4>1. Waiting(d)' = Waiting(d) /\ queue'[d] = queue[d]
        BY SMTT(30), <1>4, <2>2, <2>3, <3>3
      <4>2. QED
        BY <2>4, <3>1, <4>1
    <3>4. QED
      BY <3>2, <3>3
  <2>6. QED
    BY <1>0, <1>4, <2>5 DEF SlotsAccounted, Waiting
<1>6. queue' \in [Backends -> Seq(Calls)]
  BY <1>0, <1>1, <1>4 DEF CallsTyped
<1>7. /\ pc' = [pc EXCEPT ![c] = "waiting"] /\ reason' \in [Calls -> Reasons]
      /\ slots' \in [Backends -> Nat]
      /\ UNCHANGED <<request, order, tried, told, ended, active, closeVars>>
  BY <1>0 DEF StartAttempt, Enter, TypeOK, CallsTyped
<1>8. QED
  BY <1>0, <1>5, <1>6, <1>7, MoveIInv

LEMMA AcquireIInv ==
  ASSUME IInv, NEW c \in Calls, Acquire(c)
  PROVE  IInv'
<1> DEFINE b == Current(c)
<1>0. /\ TypeOK /\ CallsTyped /\ SlotsAccounted /\ inv[c] = "queued"
      /\ Head(queue[b]) = c /\ slots[b] > 0
      /\ inv' = [inv EXCEPT ![c] = "running"] /\ queue' = [queue EXCEPT ![b] = Tail(@)]
      /\ slots' = [slots EXCEPT ![b] = @ - 1] /\ UNCHANGED <<callVars, closeVars>>
  BY DEF IInv, Acquire
<1>1. pc[c] = "waiting" /\ Busy(c)
  BY <1>0, AttemptsOfTheBusy
<1>2. b \in Backends
  BY <1>1, CurrentTyped
<1>3. c \in Waiting(b)
  BY <1>0 DEF Waiting
<1> HIDE DEF b
<1>4. queue[b] \in Seq(Calls) /\ IsInjective(queue[b]) /\ ToSet(queue[b]) = Waiting(b)
  BY <1>0, <1>2 DEF CallsTyped, SlotsAccounted, Waiting
<1>5. /\ queue'[b] \in Seq(Calls) /\ IsInjective(queue'[b]) /\ ToSet(queue'[b]) = Waiting(b) \ {c}
      /\ \A d \in Backends : d # b => queue'[d] = queue[d]
  <2>1. queue[b] # <<>>
    BY <1>3, <1>4 DEF ToSet
  <2>2. queue'[b] = Tail(queue[b]) /\ \A d \in Backends : d # b => queue'[d] = queue[d]
    BY <1>0, <1>2 DEF CallsTyped
  <2>3. QED
    BY <1>0, <1>4, <2>1, <2>2, TailDistinct
<1>6. slots[b] \in Nat /\ slots'[b] = slots[b] - 1 /\ \A d \in Backends : d # b => slots'[d] = slots[d]
  BY <1>0, <1>2 DEF TypeOK
<1>7. SlotsAccounted'
  <2>1. DOMAIN inv = Calls /\ order' = order /\ tried' = tried
    BY <1>0 DEF TypeOK, callVars
  <2>2. \A d \in Backends :
          /\ Using(d)' = IF b = d THEN Using(d) \cup {c} ELSE Using(d) \ {c}
          /\ Waiting(d)' = Waiting(d) \ {c}
    BY <1>0, <2>1, SlotsMoved DEF b
  <2>3. \A d \in Backends : c \notin Using(d) /\ (d # b => c \notin Waiting(d))
    BY <1>0 DEF Using, Waiting, b
  <2>4. Cardinality(Using(b) \cup {c}) = Cardinality(Using(b)) + 1 /\ Cardinality(Using(b)) \in Nat
    BY <1>2, <2>3, UsingFinite, FS_AddElement
  <2>5. \A d \in Backends : slots[d] + Cardinality(Using(d)) = Concurrency[d]
    BY <1>0 DEF SlotsAccounted
  <2>6. \A d \in Backends : slots'[d] + Cardinality(Using(d)') = Concurrency[d]
    <3> TAKE d \in Backends
    <3>1. CASE d = b
      <4>1. Using(d)' = Using(b) \cup {c} /\ slots'[d] = slots[b] - 1
        BY <1>6, <2>2, <3>1
      <4>2. slots[b] + Cardinality(Using(b)) = Concurrency[d]
        BY <2>5, <3>1
      <4>3. QED
        BY <1>6, <2>4, <4>1, <4>2
    <3>2. CASE d # b
      <4>1. Using(d)' = Using(d) /\ slots'[d] = slots[d]
        <5>1. Using(d)' = Using(d) \ {c} /\ c \notin Using(d)
          BY <2>2, <2>3, <3>2
        <5>2. slots'[d] = slots[d]
          BY <1>6, <3>2
        <5>3. QED
          BY <5>1, <5>2
      <4>2. QED
        BY <2>5, <4>1
    <3>3. QED
      BY <3>1, <3>2
  <2>7. \A d \in Backends : IsInjective(queue'[d]) /\ ToSet(queue'[d]) = Waiting(d)'
    BY <1>0, <1>5, <2>2, <2>3 DEF SlotsAccounted, Waiting
  <2>8. QED
    BY <2>6, <2>7 DEF SlotsAccounted, Waiting
<1>8. queue' \in [Backends -> Seq(Calls)] /\ slots' \in [Backends -> Nat]
  BY SMTT(30), <1>0, <1>2, <1>5, <1>6 DEF CallsTyped, TypeOK
<1>9. pc' = [pc EXCEPT ![c] = "waiting"]
  BY <1>0, <1>1 DEF callVars, TypeOK
<1>10. QED
  BY <1>0, <1>1, <1>7, <1>8, <1>9, MoveIInv DEF callVars, CallsTyped

\* An attempt that has a slot gives it back.
LEMMA InvocationEndsIInv ==
  ASSUME IInv, NEW c \in Calls, NEW outcome, InvocationEnds(c, outcome),
         \/ inv[c] = "running" /\ outcome \in Outcomes
         \/ inv[c] = "unwinding" /\ outcome = "gone"
  PROVE  IInv'
<1> DEFINE b == Current(c)
<1>0. /\ TypeOK /\ CallsTyped /\ SlotsAccounted /\ inv[c] \in {"running", "unwinding"}
      /\ inv' = [inv EXCEPT ![c] = outcome] /\ slots' = [slots EXCEPT ![b] = @ + 1]
      /\ UNCHANGED <<callVars, queue, closeVars>>
  BY DEF IInv, InvocationEnds
<1>1. Busy(c)
  BY <1>0, AttemptsOfTheBusy
<1>2. b \in Backends
  BY <1>1, CurrentTyped
<1>3. c \in Using(b)
  BY <1>0 DEF Using
<1> HIDE DEF b
<1>4. slots[b] \in Nat /\ slots'[b] = slots[b] + 1 /\ \A d \in Backends : d # b => slots'[d] = slots[d]
  BY <1>0, <1>2 DEF TypeOK
<1>5. outcome \in {"gone"} \cup Outcomes /\ outcome \notin Held
  BY DEF Held, Outcomes
<1>6. SlotsAccounted'
  <2>1. DOMAIN inv = Calls /\ order' = order /\ tried' = tried
    BY <1>0 DEF TypeOK, callVars
  <2>2. \A d \in Backends : Using(d)' = Using(d) \ {c} /\ Waiting(d)' = Waiting(d) \ {c}
    BY <1>0, <1>5, <2>1, SlotsMoved DEF Held
  <2>3. \A d \in Backends : (d # b => c \notin Using(d)) /\ c \notin Waiting(d)
    BY <1>0 DEF Using, Waiting, b
  <2>4. /\ Cardinality(Using(b) \ {c}) = Cardinality(Using(b)) - 1
        /\ Cardinality(Using(b)) \in Nat
    BY <1>3, UsingFinite, FS_RemoveElement
  <2>5. \A d \in Backends : /\ slots[d] + Cardinality(Using(d)) = Concurrency[d]
                            /\ IsInjective(queue[d]) /\ ToSet(queue[d]) = Waiting(d)
    BY <1>0 DEF SlotsAccounted, Waiting
  <2>6. \A d \in Backends : slots'[d] + Cardinality(Using(d)') = Concurrency[d]
    <3> TAKE d \in Backends
    <3>1. CASE d = b
      <4>1. Using(d)' = Using(b) \ {c} /\ slots'[d] = slots[b] + 1
        BY <1>4, <2>2, <3>1
      <4>2. slots[b] + Cardinality(Using(b)) = Concurrency[d]
        BY <2>5, <3>1
      <4>3. QED
        BY <1>4, <2>4, <4>1, <4>2
    <3>2. CASE d # b
      <4>1. Using(d)' = Using(d) /\ slots'[d] = slots[d]
        BY <1>4, <2>2, <2>3, <3>2
      <4>2. QED
        BY <2>5, <4>1
    <3>3. QED
      BY <3>1, <3>2
  <2>7. \A d \in Backends : IsInjective(queue'[d]) /\ ToSet(queue'[d]) = Waiting(d)'
    BY <1>0, <2>2, <2>3, <2>5
  <2>8. QED
    BY <2>6, <2>7 DEF SlotsAccounted, Waiting
<1>7. slots' \in [Backends -> Nat] /\ queue' \in [Backends -> Seq(Calls)]
  BY <1>0, <1>2, <1>4 DEF CallsTyped, TypeOK
<1>8. /\ pc' = [pc EXCEPT ![c] = pc[c]] /\ reason' \in [Calls -> Reasons]
      /\ UNCHANGED <<request, order, tried, told, ended, active, closeVars>>
  BY <1>0 DEF callVars, TypeOK, CallsTyped
<1>9. CASE inv[c] = "running" /\ outcome \in Outcomes
  <2>1. pc[c] = "waiting"
    BY <1>9, AttemptsOfTheBusy
  <2>2. QED
    BY <1>0, <1>1, <1>6, <1>7, <1>8, <1>9, <2>1, MoveIInv
<1>10. CASE inv[c] = "unwinding" /\ outcome = "gone"
  <2>1. pc[c] = "cleaning"
    BY <1>10, AttemptsOfTheBusy
  <2>2. QED
    BY <1>0, <1>1, <1>6, <1>7, <1>8, <1>10, <2>1, MoveIInv
<1>11. QED
  BY <1>9, <1>10

\* A call stops waiting: its attempt leaves the queue, or unwinds in its slot.
LEMMA StopWaitingIInv ==
  ASSUME IInv, NEW c \in Calls, NEW why \in Reasons, StopWaiting(c, why)
  PROVE  IInv'
<1> DEFINE b == Current(c)
           w == IF inv[c] = "running" THEN "unwinding" ELSE "gone"
<1>0. /\ TypeOK /\ CallsTyped /\ SlotsAccounted /\ pc[c] = "waiting" /\ Busy(c)
      /\ inv' = [inv EXCEPT ![c] = w] /\ queue' = [queue EXCEPT ![b] = RemoveFirst(@, c)]
      /\ pc' = [pc EXCEPT ![c] = "cleaning"] /\ reason' = [reason EXCEPT ![c] = why]
      /\ UNCHANGED <<request, order, tried, told, ended, active, slots, closeVars>>
  BY DEF IInv, StopWaiting, CancelInvocation, Enter, Busy, TypeOK
<1>1. b \in Backends
  BY <1>0, CurrentTyped
<1>2. inv[c] \in {"queued", "running"} \cup Outcomes
  BY <1>0 DEF IInv, AttemptsAwaited
<1>3. w \in {"unwinding", "gone"} /\ (w = "unwinding" <=> inv[c] = "running") /\ inv[c] # "unwinding"
  BY <1>2 DEF Outcomes
<1> HIDE DEF b, w
<1>4. queue[b] \in Seq(Calls) /\ IsInjective(queue[b]) /\ ToSet(queue[b]) = Waiting(b)
  BY <1>0, <1>1 DEF CallsTyped, SlotsAccounted, Waiting
<1>5. /\ queue'[b] \in Seq(Calls) /\ IsInjective(queue'[b]) /\ ToSet(queue'[b]) = Waiting(b) \ {c}
      /\ \A d \in Backends : d # b => queue'[d] = queue[d]
  <2>1. queue'[b] = RemoveFirst(queue[b], c) /\ \A d \in Backends : d # b => queue'[d] = queue[d]
    BY <1>0, <1>1 DEF CallsTyped
  <2>2. QED
    BY <1>4, <2>1, RemoveDistinct
<1>6. SlotsAccounted'
  <2>1. DOMAIN inv = Calls
    BY <1>0 DEF TypeOK
  <2>2. \A d \in Backends :
          /\ Using(d)' = IF w = "unwinding" /\ b = d THEN Using(d) \cup {c} ELSE Using(d) \ {c}
          /\ Waiting(d)' = Waiting(d) \ {c}
    <3>1. \A d \in Backends :
            /\ Using(d)' = IF w \in {"running", "unwinding"} /\ Current(c) = d
                           THEN Using(d) \cup {c} ELSE Using(d) \ {c}
            /\ Waiting(d)' = IF w = "queued" /\ Current(c) = d
                             THEN Waiting(d) \cup {c} ELSE Waiting(d) \ {c}
      BY <1>0, <2>1, SlotsMoved
    <3>2. (w \in {"running", "unwinding"} <=> w = "unwinding") /\ w # "queued"
      BY <1>3
    <3>3. QED
      BY <3>1, <3>2 DEF b
  <2>3. \A d \in Backends : /\ c \in Using(d) <=> inv[c] = "running" /\ b = d
                            /\ d # b => c \notin Waiting(d)
    BY <1>3 DEF Using, Waiting, b
  <2>4. \A d \in Backends : Using(d)' = Using(d)
    BY <1>3, <2>2, <2>3
  <2>5. \A d \in Backends : IsInjective(queue[d]) /\ ToSet(queue[d]) = Waiting(d)
    BY <1>0 DEF SlotsAccounted, Waiting
  <2>6. ASSUME NEW d \in Backends
        PROVE  IsInjective(queue'[d]) /\ ToSet(queue'[d]) = Waiting(d)'
    <3>1. CASE d = b
      BY <1>5, <2>2, <3>1
    <3>2. CASE d # b
      <4>1. queue'[d] = queue[d]
        BY <1>5, <3>2
      <4>2. Waiting(d)' = Waiting(d)
        BY <2>2, <2>3, <3>2
      <4>3. QED
        BY <2>5, <4>1, <4>2
    <3>3. QED
      BY <3>1, <3>2
  <2>7. QED
    BY <1>0, <2>4, <2>6 DEF SlotsAccounted, Waiting
<1>7. queue' \in [Backends -> Seq(Calls)] /\ slots' \in [Backends -> Nat]
      /\ reason' \in [Calls -> Reasons]
  BY <1>0, <1>1, <1>5 DEF CallsTyped, TypeOK
<1>8. QED
  BY <1>0, <1>3, <1>6, <1>7, MoveIInv

LEMMA ObserveIInv ==
  ASSUME IInv, NEW c \in Calls, Observe(c)
  PROVE  IInv'
<1>0. /\ TypeOK /\ CallsTyped /\ SlotsAccounted /\ pc[c] = "waiting" /\ Busy(c)
      /\ inv[c] \in Outcomes /\ inv' = [inv EXCEPT ![c] = "gone"]
      /\ pc' = [pc EXCEPT ![c] = "reporting"] /\ reason' = [reason EXCEPT ![c] = inv[c]]
      /\ UNCHANGED <<request, order, tried, told, ended, active, queue, slots, closeVars>>
  BY DEF IInv, Observe, Enter, Busy
<1>1. SlotsAccounted'
  <2>1. inv[c] \notin Held /\ "gone" \notin Held /\ inv \in [Calls -> {"none", "queued", "running", "unwinding", "gone"} \cup Outcomes]
    BY <1>0 DEF Held, Outcomes, TypeOK
  <2>2. QED
    BY <1>0, <2>1, SlotsKept
<1>2. reason' \in [Calls -> Reasons] /\ slots' \in [Backends -> Nat]
      /\ queue' \in [Backends -> Seq(Calls)]
  BY <1>0 DEF TypeOK, CallsTyped, Reasons
<1>3. QED
  BY <1>0, <1>1, <1>2, MoveIInv

LEMMA CleanUpIInv ==
  ASSUME IInv, NEW c \in Calls, CleanUp(c)
  PROVE  IInv'
<1>0. /\ TypeOK /\ CallsTyped /\ SlotsAccounted /\ Busy(c)
      /\ inv[c] = "gone" /\ inv' = [inv EXCEPT ![c] = "gone"]
      /\ pc' = [pc EXCEPT ![c] = "reporting"]
      /\ UNCHANGED <<request, order, tried, told, reason, ended, active, inv, queue, slots, closeVars>>
  BY DEF IInv, CleanUp, Cleaned, Enter, Busy, callVars, invVars, TypeOK
<1>1. SlotsAccounted'
  BY <1>0, SlotsKept
<1>2. reason' \in [Calls -> Reasons] /\ slots' \in [Backends -> Nat]
      /\ queue' \in [Backends -> Seq(Calls)]
  BY <1>0 DEF TypeOK, CallsTyped
<1>3. QED
  BY <1>0, <1>1, <1>2, MoveIInv

\* The outcome is told and kept; the call ends or prepares for its next backend.
LEMMA ReportIInv ==
  ASSUME IInv, NEW c \in Calls, Report(c)
  PROVE  IInv'
<1> DEFINE goes == reason[c] \notin {"success", "cancelled"} /\ MayFallBack(c)
           how == IF reason[c] \in {"success", "cancelled"} THEN reason[c] ELSE "failed"
           kept == reason[c] # "cancelled"
           t == tried[c]
           l == Len(tried[c])
<1>0. /\ TypeOK /\ CallsTyped /\ CallsRouted /\ AttemptsAccounted /\ AttemptsAwaited
      /\ SlotsAccounted /\ CallsCounted /\ CloseWaits
      /\ pc[c] = "reporting" /\ Busy(c)
  BY DEF IInv, Report, Busy
<1>1. /\ told' = [told EXCEPT ![c] = Append(@, reason[c])]
      /\ tried' = [tried EXCEPT ![c] = IF kept THEN Append(@, Attempt(c)) ELSE @]
      /\ pc' = [pc EXCEPT ![c] = IF goes THEN "preparing" ELSE "over"]
      /\ ended' = IF goes THEN ended ELSE [ended EXCEPT ![c] = how]
      /\ active' = IF goes THEN active ELSE active - 1
      /\ UNCHANGED <<request, order, reason, cancelled, inv, queue, slots, closing, closeTask, shut, closer>>
  BY DEF Report, Enter, End, invVars, closeVars
<1>2. /\ l \in Nat /\ l + 1 \in 1..Len(order[c]) /\ Current(c) \in Backends
  BY <1>0, CurrentTyped
<1>3. /\ Attempt(c) \in [backend : Backends, outcome : Reasons] /\ reason[c] \in Reasons
      /\ Attempt(c).backend = order[c][l + 1] /\ Attempt(c).outcome = reason[c]
  BY <1>0, <1>2 DEF Attempt, CallsTyped, Current
<1>4. goes => reason[c] \in Mendable /\ l + 1 < Len(order[c]) /\ kept
  BY DEF MayFallBack, Mendable
<1>5. /\ t \in Seq([backend : Backends, outcome : Reasons]) /\ told[c] \in Seq(Reasons)
      /\ Len(told[c]) = l
  BY <1>0 DEF CallsTyped, AttemptsAccounted
<1>6. inv[c] = "gone" \/ inv[c] = "none"
  BY <1>0 DEF AttemptsAwaited
<1> HIDE DEF goes, kept
<1>7. /\ Append(t, Attempt(c)) \in Seq([backend : Backends, outcome : Reasons])
      /\ Len(Append(t, Attempt(c))) = l + 1 /\ Append(t, Attempt(c))[l + 1] = Attempt(c)
      /\ \A n \in 1..l : Append(t, Attempt(c))[n] = t[n]
  BY <1>3, <1>5, AppendProperties
<1>8. /\ Append(told[c], reason[c]) \in Seq(Reasons)
      /\ Len(Append(told[c], reason[c])) = l + 1 /\ Append(told[c], reason[c])[l + 1] = reason[c]
      /\ \A n \in 1..l : Append(told[c], reason[c])[n] = told[c][n]
  BY <1>3, <1>5, AppendProperties
<1>9. /\ told'[c] = Append(told[c], reason[c])
      /\ tried'[c] = IF kept THEN Append(t, Attempt(c)) ELSE t
      /\ \A d \in Calls : d # c => told'[d] = told[d] /\ tried'[d] = tried[d] /\ pc'[d] = pc[d]
      /\ pc'[c] = IF goes THEN "preparing" ELSE "over"
      /\ \A d \in Calls : d # c => ended'[d] = ended[d]
      /\ ~goes => ended'[c] = how
  BY <1>0, <1>1 DEF CallsTyped, TypeOK
<1>10. (Busy(c)' <=> goes) /\ \A d \in Calls : d # c => (Busy(d)' <=> Busy(d))
  BY <1>9 DEF Busy
<1>11. CallsCounted' /\ active' \in Nat /\ (closeTask = "closing" \/ closeTask = "ended" => active' = 0)
  <2>1. CASE goes
    <3>1. {d \in Calls : Busy(d)}' = {d \in Calls : Busy(d)}
      BY <1>0, <1>10, <2>1
    <3>2. QED
      BY <1>0, <1>1, <2>1, <3>1 DEF CallsCounted, CloseWaits, TypeOK
  <2>2. CASE ~goes
    <3>1. CallsCounted' /\ active' \in Nat /\ active # 0
      BY <1>0, <1>1, <2>2, CountDown DEF Enter
    <3>2. QED
      BY <1>0, <3>1 DEF CloseWaits
  <2>3. QED
    BY <2>1, <2>2
<1>12. TypeOK'
  BY <1>0, <1>1, <1>11 DEF TypeOK
<1>13. CallsTyped'
  <2>1. tried' \in [Calls -> Seq([backend : Backends, outcome : Reasons])]
    BY <1>0, <1>1, <1>5, <1>7 DEF CallsTyped
  <2>2. told' \in [Calls -> Seq(Reasons)]
    BY <1>0, <1>1, <1>8 DEF CallsTyped
  <2>3. DOMAIN ended' = Calls
    BY <1>0, <1>1 DEF CallsTyped
  <2>4. QED
    BY <1>0, <1>1, <2>1, <2>2, <2>3 DEF CallsTyped
<1>14. CallsRouted'
  <2>1. pc'[c] # "idle" /\ \A d \in Calls : pc'[d] = "idle" => d # c
    BY <1>9
  <2>2. Len(tried'[c]) <= Len(order[c]) /\ (Busy(c)' => Len(tried'[c]) < Len(order[c]))
    <3>1. Len(order[c]) \in Nat
      BY <1>0, LenProperties DEF CallsTyped
    <3>2. CASE kept
      BY <1>2, <1>4, <1>7, <1>9, <1>10, <3>1, <3>2
    <3>3. CASE ~kept
      BY <1>2, <1>4, <1>9, <1>10, <3>1, <3>3
    <3>4. QED
      BY <3>2, <3>3
  <2>3. \A d \in Calls : d # c =>
          /\ Len(tried'[d]) <= Len(order[d])
          /\ Busy(d)' => Len(tried'[d]) < Len(order[d])
    BY <1>0, <1>9, <1>10 DEF CallsRouted
  <2>4. ASSUME NEW d \in Calls
        PROVE  /\ pc'[d] = "idle" => order'[d] = <<>> /\ told'[d] = <<>>
               /\ pc'[d] # "idle" => request'[d] \in Requests[d]
                                     /\ order'[d] \in {<<>>, Route(request'[d]).order}
    BY <1>0, <1>1, <1>9, <2>1 DEF CallsRouted
  <2>5. QED
    BY <1>1, <2>2, <2>3, <2>4 DEF CallsRouted
<1>15. AttemptsAccounted'
  <2>1. ASSUME NEW n \in 1..Len(tried'[c])
        PROVE  /\ tried'[c][n].backend = order[c][n]
               /\ n < Len(tried'[c]) \/ Busy(c)' => tried'[c][n].outcome \in Mendable
               /\ told'[c][n] = tried'[c][n].outcome
    <3>1. CASE n \in 1..l
      <4>1. /\ tried[c][n].backend = order[c][n] /\ tried[c][n].outcome \in Mendable
            /\ told[c][n] = tried[c][n].outcome
        BY <1>0, <3>1 DEF AttemptsAccounted
      <4>2. tried'[c][n] = tried[c][n] /\ told'[c][n] = told[c][n]
        BY <1>7, <1>8, <1>9, <3>1
      <4>3. QED
        BY <4>1, <4>2
    <3>2. CASE n \notin 1..l
      <4>1. kept /\ n = l + 1 /\ Len(tried'[c]) = l + 1
        BY <1>2, <1>7, <1>9, <3>2
      <4>2. tried'[c][n] = Attempt(c) /\ told'[c][n] = reason[c]
        BY <1>7, <1>8, <1>9, <4>1
      <4>3. Busy(c)' => reason[c] \in Mendable
        BY <1>4, <1>10
      <4>4. ~ (n < Len(tried'[c]))
        BY <1>2, <4>1
      <4>5. QED
        BY <1>3, <4>1, <4>2, <4>3, <4>4
    <3>3. QED
      BY <3>1, <3>2
  <2>2. Len(tried'[c]) <= Len(told'[c]) /\ (Busy(c)' => Len(told'[c]) = Len(tried'[c]))
    BY <1>2, <1>4, <1>5, <1>7, <1>8, <1>9, <1>10
  <2>3. ended'[c] = "success" => Len(tried'[c]) > 0 /\ tried'[c][Len(tried'[c])].outcome = "success"
    <3>1. CASE goes
      <4>1. ended[c] # "success" \/ (l > 0 /\ tried[c][l].outcome \in Mendable /\ tried[c][l].outcome = "success")
        BY <1>0, <1>2 DEF AttemptsAccounted
      <4>2. ended'[c] # "success"
        BY <1>1, <3>1, <4>1 DEF Mendable
      <4>3. QED
        BY <4>2
    <3>2. CASE ~goes
      <4>1. ended'[c] = "success" => reason[c] = "success" /\ kept
        BY <1>9, <3>2 DEF kept
      <4>2. kept => tried'[c][Len(tried'[c])] = Attempt(c) /\ Len(tried'[c]) = l + 1
        BY <1>7, <1>9
      <4>3. QED
        BY <1>2, <1>3, <4>1, <4>2
    <3>3. QED
      BY <3>1, <3>2
  <2>4. ASSUME NEW d \in Calls, d # c
        PROVE  /\ tried'[d] = tried[d] /\ told'[d] = told[d] /\ order'[d] = order[d]
               /\ (Busy(d)' <=> Busy(d)) /\ ended'[d] = ended[d]
    BY <1>1, <1>9, <1>10, <2>4
  <2>5. order' = order
    BY <1>1
  <2>6. QED
    BY SMTT(30), <1>0, <2>1, <2>2, <2>3, <2>4, <2>5 DEF AttemptsAccounted
<1>16. AttemptsAwaited'
  <2>1. pc'[c] \in {"preparing", "over"} /\ inv' = inv /\ \A d \in Calls : d # c => pc'[d] = pc[d]
    BY <1>1, <1>9
  <2>2. QED
    BY <1>0, <1>6, <2>1 DEF AttemptsAwaited
<1>17. SlotsAccounted'
  BY <1>0, <1>1, <1>6, <1>9, SlotsKept DEF Held
<1>18. CloseWaits'
  BY <1>0, <1>1, <1>11 DEF CloseWaits
<1>19. QED
  BY <1>11, <1>12, <1>13, <1>14, <1>15, <1>16, <1>17, <1>18 DEF IInv

LEMMA InterruptIInv ==
  ASSUME IInv, NEW c \in Calls, Interrupt(c)
  PROVE  IInv'
<1>1. CASE StopWaiting(c, "cancelled")
  BY <1>1, StopWaitingIInv DEF Reasons
<1>2. CASE pc[c] \in {"preparing", "reporting"} /\ End(c, "cancelled")
           /\ UNCHANGED <<request, order, tried, reason, told, invVars, closeVars>>
  BY <1>2, EndIInv
<1>3. CASE UNCHANGED <<pc, request, order, tried, reason, told, ended, active, invVars, closeVars>>
  <2>1. UNCHANGED <<pc, request, order, tried, reason, told, ended, active, inv, queue, slots,
                    closing, closeTask, shut, closer>>
    BY <1>3 DEF invVars, closeVars
  <2>2. CallsRouted' /\ AttemptsAccounted' /\ CallsCounted'
    BY <2>1, BooksKept DEF Busy
  <2>3. SlotsAccounted'
    BY <2>1, SlotsKept DEF IInv
  <2>4. TypeOK' /\ CallsTyped'
    BY <2>1 DEF IInv, TypeOK, CallsTyped
  <2>5. AttemptsAwaited' /\ CloseWaits'
    BY <2>1 DEF IInv, AttemptsAwaited, CloseWaits
  <2>6. QED
    BY <2>2, <2>3, <2>4, <2>5 DEF IInv
<1>4. QED
  BY <1>1, <1>2, <1>3 DEF Interrupt

LEMMA ClosingIInv ==
  ASSUME IInv,
         \/ Drain \/ CloseBackend \/ AbortClose
         \/ \E x \in Closers : Close(x) \/ CloserReturns(x) \/ CancelCloser(x)
  PROVE  IInv'
<1>1. UNCHANGED <<callVars, invVars>>
  BY DEF Drain, CloseBackend, AbortClose, Close, CloserReturns, CancelCloser, closeVars
<1>2. UNCHANGED <<pc, request, order, tried, reason, told, ended, active, inv, queue, slots>>
  BY <1>1 DEF callVars, invVars
<1>3. CallsRouted' /\ AttemptsAccounted' /\ CallsCounted'
  BY <1>2, BooksKept DEF Busy
<1>4. SlotsAccounted'
  BY <1>2, SlotsKept DEF IInv
<1>5. CallsTyped' /\ AttemptsAwaited'
  BY <1>2 DEF IInv, CallsTyped, AttemptsAwaited
<1>6. Len(Registered) \in Nat /\ Len(Registered) > 0
  BY RouterAssumption, RegistrationTyped, EmptySeq
<1>7. CloseWaits' /\ shut' \in 0..Len(Registered) /\ closing' \in BOOLEAN
      /\ closeTask' \in {"none", "draining", "closing", "ended", "aborted"}
  <2>1. CloseWaits /\ TypeOK
    BY DEF IInv
  <2>2. CASE Drain
    BY <1>2, <1>6, <2>1, <2>2 DEF TypeOK, CloseWaits, Drain
  <2>3. CASE CloseBackend
    BY <1>2, <1>6, <2>1, <2>3 DEF TypeOK, CloseWaits, CloseBackend
  <2>4. CASE AbortClose
    BY <1>2, <1>6, <2>1, <2>4 DEF TypeOK, CloseWaits, AbortClose
  <2>5. ASSUME NEW x \in Closers, Close(x)
        PROVE  /\ CloseWaits' /\ shut' \in 0..Len(Registered) /\ closing' \in BOOLEAN
               /\ closeTask' \in {"none", "draining", "closing", "ended", "aborted"}
    <3>1. closing' = TRUE /\ shut' = shut /\ active' = active
          /\ closeTask' = IF closeTask = "none" THEN "draining" ELSE closeTask
      BY <1>2, <2>5 DEF Close
    <3>2. QED
      BY <2>1, <3>1 DEF TypeOK, CloseWaits
  <2>6. CASE UNCHANGED <<closing, closeTask, shut>>
    BY <1>2, <2>1, <2>6 DEF TypeOK, CloseWaits
  <2>7. QED
    BY <2>2, <2>3, <2>4, <2>5, <2>6 DEF CloserReturns, CancelCloser
<1>8. closer' \in [Closers -> {"idle", "waiting", "over"}]
  BY DEF IInv, TypeOK, Drain, CloseBackend, AbortClose, Close, CloserReturns, CancelCloser
<1>9. TypeOK'
  BY <1>2, <1>7, <1>8 DEF IInv, TypeOK
<1>10. QED
  BY <1>3, <1>4, <1>5, <1>7, <1>9 DEF IInv

LEMMA StutterIInv == ASSUME IInv, UNCHANGED vars PROVE IInv'
<1>1. UNCHANGED <<pc, request, order, tried, reason, told, ended, active, inv, queue, slots,
                  closing, closeTask, shut, closer>>
  BY DEF vars, callVars, invVars, closeVars
<1>2. CallsRouted' /\ AttemptsAccounted' /\ CallsCounted'
  BY <1>1, BooksKept DEF Busy
<1>3. SlotsAccounted'
  BY <1>1, SlotsKept DEF IInv
<1>4. TypeOK' /\ CallsTyped'
  BY <1>1 DEF IInv, TypeOK, CallsTyped
<1>5. AttemptsAwaited' /\ CloseWaits'
  BY <1>1 DEF IInv, AttemptsAwaited, CloseWaits
<1>6. QED
  BY <1>2, <1>3, <1>4, <1>5 DEF IInv

LEMMA NextIInv == ASSUME IInv, [Next]_vars PROVE IInv'
<1>1. ASSUME NEW c \in Calls, NEW q \in Requests[c], Begin(c, q) PROVE IInv'
  BY <1>1, BeginIInv
<1>2. ASSUME NEW c \in Calls, CallStep(c) PROVE IInv'
  <2>1. CASE PreparationFails(c) \/ ReportFails(c)
    BY <2>1, EndIInv DEF PreparationFails, ReportFails
  <2>2. CASE StartAttempt(c)
    BY <2>2, StartAttemptIInv
  <2>3. CASE Acquire(c)
    BY <2>3, AcquireIInv
  <2>4. CASE BackendUnwinds(c)
    BY <2>4, InvocationEndsIInv DEF BackendUnwinds
  <2>5. CASE Observe(c)
    BY <2>5, ObserveIInv
  <2>6. CASE TimesOut(c)
    BY <2>6, StopWaitingIInv DEF TimesOut, Reasons
  <2>7. CASE CleanUp(c)
    BY <2>7, CleanUpIInv
  <2>8. CASE Report(c)
    BY <2>8, ReportIInv
  <2>9. QED
    BY <1>2, <2>1, <2>2, <2>3, <2>4, <2>5, <2>6, <2>7, <2>8 DEF CallStep
<1>3. ASSUME NEW c \in Calls, BackendReturns(c) PROVE IInv'
  BY <1>3, InvocationEndsIInv DEF BackendReturns
<1>4. ASSUME NEW c \in Calls, Interrupt(c) PROVE IInv'
  BY <1>4, InterruptIInv
<1>5. CASE \/ Drain \/ CloseBackend \/ AbortClose
           \/ \E x \in Closers : Close(x) \/ CloserReturns(x) \/ CancelCloser(x)
  BY <1>5, ClosingIInv
<1>6. CASE UNCHANGED vars
  BY <1>6, StutterIInv
<1>7. QED
  BY <1>1, <1>2, <1>3, <1>4, <1>5, <1>6 DEF Next

\* The invariant behind the theorems: where each call is, what its attempt does,
\* which slot or place it takes and what it has been through agree.
THEOREM Inductive == Spec => []IInv
<1>1. Init => IInv
  BY InitIInv
<1>2. IInv /\ [Next]_vars => IInv'
  BY NextIInv
<1>3. QED
  BY <1>1, <1>2, PTL DEF Spec

LEMMA OrderlyFollows == IInv => RouterIsOrderly
<1> SUFFICES ASSUME IInv PROVE RouterIsOrderly
  OBVIOUS
<1>1. \A c \in Calls : inv[c] \notin {"none", "gone"} => pc[c] \in {"waiting", "cleaning"}
  BY AttemptsOfTheBusy DEF IInv, TypeOK
<1>2. active = Cardinality({c \in Calls : pc[c] \notin {"idle", "over"}})
  BY DEF IInv, CallsCounted, Busy
<1>3. ASSUME closeTask \in {"closing", "ended"}, NEW c \in Calls
      PROVE  inv[c] \in {"none", "gone"}
  <2>1. Cardinality(BusyCalls) = 0
    BY <1>3 DEF IInv, CloseWaits, CallsCounted, BusyCalls
  <2>2. BusyCalls = {}
    BY <2>1, BusyFinite, FS_EmptySet
  <2>3. pc[c] \in {"idle", "over"}
    BY <2>2 DEF BusyCalls, Busy
  <2>4. QED
    BY <1>1, <2>3
<1>4. QED
  BY <1>1, <1>2, <1>3 DEF RouterIsOrderly, IInv, SlotsAccounted

\* No interleaving of attempts, timeouts, cancellations and closes leaves an
\* attempt that no call waits for, leaks a slot, a place in a queue or a count,
\* or closes a backend at work (_invoke, _cancel_invocation, _end_call).
THEOREM RouterStaysOrderly == Spec => []RouterIsOrderly
BY Inductive, OrderlyFollows, PTL

LEMMA EarnedFollows == IInv => FallbackIsEarned
<1> SUFFICES ASSUME IInv, NEW c \in Calls
             PROVE LET q == request[c] IN
    /\ \A n \in DOMAIN tried[c] :
         LET b == tried[c][n].backend
         IN /\ Supports(b, q) = "yes" /\ Declares(b, q)
            /\ \A d \in Backends :
                 (/\ Authority[q.capability] = Nobody
                  /\ Declares(d, q) /\ Supports(d, q) = "yes" /\ Before(PlaceOf(d, q), PlaceOf(b, q)))
                 => \E m \in 1..(n - 1) : tried[c][m].backend = d
            /\ \A m \in 1..(n - 1) :
                 /\ tried[c][m].backend # b
                 /\ tried[c][m].outcome \in {"timeout", "unavailable", "retryable_error"}
            /\ n <= Len(told[c]) /\ told[c][n] = tried[c][n].outcome
    /\ ended[c] = "success" => Last(tried[c]).outcome = "success"
  BY DEF FallbackIsEarned
<1> DEFINE q == request[c]
           t == tried[c]
           o == order[c]
<1>0. CallsTyped /\ CallsRouted /\ AttemptsAccounted
  BY DEF IInv
<1>1. /\ t \in Seq([backend : Backends, outcome : Reasons]) /\ o \in Seq(Backends)
      /\ Len(t) \in Nat /\ Len(o) \in Nat /\ DOMAIN t = 1..Len(t)
  BY <1>0, LenProperties DEF CallsTyped
<1>2. Len(t) <= Len(o)
  BY <1>0 DEF CallsRouted
<1>3. \A n \in 1..Len(t) : /\ t[n].backend = o[n] /\ told[c][n] = t[n].outcome
                           /\ n < Len(t) => t[n].outcome \in Mendable
  BY <1>0 DEF AttemptsAccounted
<1>4. Len(t) <= Len(told[c]) /\ (ended[c] = "success" => t[Len(t)].outcome = "success")
  BY <1>0 DEF AttemptsAccounted
<1>5. Len(told[c]) \in Nat
  BY <1>0, LenProperties DEF CallsTyped
<1>6. Len(t) > 0 => OrderIsSound(o, q)
  <2> SUFFICES ASSUME Len(t) > 0 PROVE OrderIsSound(o, q)
    OBVIOUS
  <2>1. o # <<>>
    BY <1>1, <1>2
  <2>2. q \in Asked /\ o = Route(q).order
    BY <1>0, <2>1 DEF CallsRouted, Asked
  <2>3. QED
    BY <2>2, RouteIsSound
<1> HIDE DEF q, t, o
<1>7. ASSUME NEW n \in 1..Len(t)
      PROVE  LET b == t[n].backend
         IN /\ Supports(b, q) = "yes" /\ Declares(b, q)
            /\ \A d \in Backends :
                 (/\ Authority[q.capability] = Nobody
                  /\ Declares(d, q) /\ Supports(d, q) = "yes" /\ Before(PlaceOf(d, q), PlaceOf(b, q)))
                 => \E m \in 1..(n - 1) : t[m].backend = d
            /\ \A m \in 1..(n - 1) :
                 /\ t[m].backend # b
                 /\ t[m].outcome \in {"timeout", "unavailable", "retryable_error"}
            /\ n <= Len(told[c]) /\ told[c][n] = t[n].outcome
  <2>1. OrderIsSound(o, q) /\ n \in 1..Len(o) /\ n <= Len(told[c])
    BY <1>1, <1>2, <1>4, <1>5, <1>6
  <2>2. \A m \in 1..(n - 1) : m \in 1..Len(t) /\ m \in 1..Len(o) /\ m < Len(t) /\ m # n
    BY <1>1, <1>2
  <2>3. \A m \in 1..(n - 1) : t[m].backend # o[n] /\ t[m].outcome \in Mendable
    BY <1>3, <2>1, <2>2 DEF OrderIsSound
  <2>4. ASSUME NEW d \in Backends, Authority[q.capability] = Nobody,
               Declares(d, q), Supports(d, q) = "yes", Before(PlaceOf(d, q), PlaceOf(o[n], q))
        PROVE  \E m \in 1..(n - 1) : t[m].backend = d
    <3>1. PICK m \in 1..(n - 1) : o[m] = d
      BY <2>1, <2>4 DEF OrderIsSound
    <3>2. QED
      BY <1>3, <2>2, <3>1
  <2>5. Supports(o[n], q) = "yes" /\ Declares(o[n], q)
    BY <2>1 DEF OrderIsSound
  <2>6. t[n].backend = o[n] /\ told[c][n] = t[n].outcome
    BY <1>3
  <2>7. QED
    BY <2>1, <2>3, <2>4, <2>5, <2>6 DEF Mendable
<1>8. ended[c] = "success" => Last(t).outcome = "success"
  BY <1>4 DEF Last
<1>9. QED
  BY <1>1, <1>7, <1>8 DEF q, t

\* Every call, by any route, tries the backends that support its request in the
\* documented order, each once, goes on only from a failure that another backend
\* may mend, stops at the first success and tells its session of each attempt
\* (_route, _can_fallback, analyze).
THEOREM FallbackStaysEarned == Spec => []FallbackIsEarned
BY Inductive, EarnedFollows, PTL
===============================================================================
