---------------------------- MODULE TraceProofs ----------------------------
(***************************************************************************)
(* Proofs about a run's trace.  TraceBuilder, for every finite set of       *)
(* populations, every number of sinks and any number of invocations and     *)
(* cancellations: starts and finishes match, every sink hears one order,    *)
(* and a final trace is frozen.  JsonlSink, for every set of runs, every     *)
(* queue size and rotation: closing loses nothing that was handed over, and *)
(* the files hold the tail of what was put into them.  MemorySink and      *)
(* TelemetrySink, for all limits and every script of events: each event is  *)
(* held or counted, each span is ended once.                                *)
(***************************************************************************)
EXTENDS TraceBuilder, TraceSinks, SequenceTheorems, FiniteSetTheorems, WellFoundedInduction, TLAPS

Single == {Begin, Terminal, Loaded}
Paired(i) == {Event("started", i), Event("finished", i)}

\* Every event is one of a kind or belongs to an invocation; an invocation has
\* one start, and at most one finish, which comes later.
EventsPaired ==
  /\ \A n \in 1..Len(events) :
       events[n] \in Single \/ \E i \in 1..issued : events[n] \in Paired(i)
  /\ \A m, n \in 1..Len(events) : events[m] = events[n] /\ events[m] \notin Single => m = n
  /\ \A i \in 1..issued : \E n \in 1..Len(events) : events[n] = Event("started", i)
  /\ \A i \in 1..issued : \A m, n \in 1..Len(events) :
       events[m] = Event("started", i) /\ events[n] = Event("finished", i) => m < n

\* An invocation is active, once, from its start to its finish.
ActiveUnfinished ==
  /\ \A k \in 1..Len(active) : active[k] \in 1..issued
  /\ \A j, k \in 1..Len(active) : active[j] = active[k] => j = k
  /\ \A i \in 1..issued : Contains(active, i) <=> ~Finished(i)

\* The lock is held by a call, and only its holder has events to record.
LockHeld ==
  /\ holder = Free => agenda = <<>> /\ cursor = 0
  /\ holder # Free => op[holder] # NoOp
  /\ cursor # 0 => events # <<>>

\* What waits to be recorded is of the run, the start that was asked for, or
\* the finish of an invocation that is active still.
AgendaSound ==
  /\ \A k \in 1..Len(agenda) :
       \/ agenda[k] \in Single
       \/ agenda[k] = Event("started", 0) /\ op[holder] = agenda[k]
       \/ \E i \in 1..issued : agenda[k] = Event("finished", i) /\ Contains(active, i)
  /\ \A j, k \in 1..Len(agenda) : agenda[j] = agenda[k] /\ agenda[j].kind = "finished" => j = k

\* A start is numbered when it is recorded.
StartOwed ==
  \A t \in Tasks : op[t].kind = "started" =>
    \/ t # holder /\ op[t] = Event("started", 0)
    \/ t = holder /\ op[t] = Event("started", 0) /\ Len(agenda) = 1 /\ agenda[1] = op[t]
    \/ t = holder /\ op[t].inv \in 1..issued /\ agenda = <<>>

\* A finalization has every active invocation to finish, and then the terminal event.
FinalizationOwed ==
  holder # Free /\ op[holder] = Terminal =>
    IF agenda = <<>> THEN active = <<>> /\ events # <<>> /\ Last(events) = Terminal
    ELSE /\ agenda[Len(agenda)] = Terminal
         /\ \A k \in 1..Len(active) : Contains(agenda, Event("finished", active[k]))

\* Only the run begins and ends its trace, and what a task finishes is its own.
CallsAreOwn ==
  \A t \in Tasks :
    /\ own[t] \subseteq 1..issued
    /\ op[t] = NoOp \/ op[t].kind = "started" \/ (t = Run /\ op[t] \in {Begin, Terminal})
         \/ \E i \in own[t] : op[t] = Event("finished", i)

Pending == {t \in Tasks : op[t] = Event("started", 0)}

\* There is an invocation left for every start that waits.
StartsAreBounded == issued + Cardinality(Pending) <= MaxInvocations

\* A final trace has no unfinished invocation, ends with the terminal event, and
\* nobody is writing to it.
FinalSettled ==
  final => /\ active = <<>> /\ events # <<>> /\ Last(events) = Terminal
           /\ phase[Run] = "done" /\ op[Run] = NoOp /\ holder = Free

\* What a sink accepted is on record, and the last event only once it was served.
HeardRecorded ==
  \A s \in Sinks :
    /\ \A m, n \in 1..Len(heard[s]) : m < n => heard[s][m] < heard[s][n]
    /\ \A m \in 1..Len(heard[s]) : heard[s][m] \in 1..Len(events) /\ Served(heard[s][m], s)
    /\ s \notin broken => \A n \in 1..Len(events) :
         Served(n, s) => Contains(heard[s], n) \/ <<n, s>> \in cut

IInv == /\ TypeOK
        /\ EventsPaired
        /\ ActiveUnfinished
        /\ LockHeld /\ AgendaSound /\ StartOwed /\ FinalizationOwed
        /\ CallsAreOwn
        /\ StartsAreBounded
        /\ FinalSettled
        /\ HeardRecorded

-------------------------------------------------------------------------------
USE TaskAssumption

LEMMA TasksFinite == IsFiniteSet(Tasks) /\ Free \notin Tasks /\ Run \in Tasks
BY FS_AddElement, FS_Union, FS_Singleton DEF Tasks

LEMMA EventsDiffer ==
  /\ \A k, l, i, j : Event(k, i) = Event(l, j) <=> k = l /\ i = j
  /\ \A k, i : Event(k, i).kind = k /\ Event(k, i).inv = i
BY DEF Event

LEMMA SingleEvents ==
  /\ Begin = Event("run_started", 0) /\ Terminal = Event("terminal", 0)
  /\ Loaded = Event("point", 0) /\ NoOp = Event("none", 0)
  /\ Single \subseteq Records
  /\ \A i : Event("started", i) \notin Single /\ Event("finished", i) \notin Single
BY DEF Begin, Terminal, Loaded, NoOp, Single, Event, Records, Kinds

LEMMA EventsAreRecords ==
  \A i \in 0..MaxInvocations, k \in Kinds : Event(k, i) \in Records
BY DEF Event, Records

\* Removing the only occurrence of an element closes the gap it leaves.
LEMMA RemoveFirstProperties ==
  ASSUME NEW S, NEW s \in Seq(S), NEW k \in 1..Len(s), \A j \in 1..Len(s) : s[j] = s[k] => j = k
  PROVE  /\ RemoveFirst(s, s[k]) \in Seq(S)
         /\ Len(RemoveFirst(s, s[k])) = Len(s) - 1
         /\ \A j \in 1..Len(s) - 1 : RemoveFirst(s, s[k])[j] = IF j < k THEN s[j] ELSE s[j + 1]
<1>0. Len(s) \in Nat /\ k \in Nat /\ \A j \in 1..Len(s) : s[j] \in S
  BY LenProperties, ElementOfSeq
<1>1. SelectInSeq(s, LAMBDA v : v = s[k]) = k
  <2>1. {j \in 1..Len(s) : s[j] = s[k]} = {k}
    OBVIOUS
  <2>2. Min({k}) = k
    BY <1>0 DEF Min
  <2>3. QED
    BY <2>1, <2>2 DEF SelectInSeq
<1>2. RemoveFirst(s, s[k]) = SubSeq(s, 1, k - 1) \o SubSeq(s, k + 1, Len(s))
  BY <1>1 DEF RemoveFirst, RemoveAt
<1>3. /\ SubSeq(s, 1, k - 1) \in Seq(S) /\ Len(SubSeq(s, 1, k - 1)) = k - 1
      /\ \A j \in 1..k - 1 : SubSeq(s, 1, k - 1)[j] = s[j]
  BY <1>0
<1>4. /\ SubSeq(s, k + 1, Len(s)) \in Seq(S) /\ Len(SubSeq(s, k + 1, Len(s))) = Len(s) - k
      /\ \A j \in 1..Len(s) - k : SubSeq(s, k + 1, Len(s))[j] = s[k + j]
  BY <1>0
<1> DEFINE a == SubSeq(s, 1, k - 1)
           b == SubSeq(s, k + 1, Len(s))
<1> HIDE DEF a, b
<1>5. a \in Seq(S) /\ b \in Seq(S)
  BY <1>3, <1>4 DEF a, b
<1>6. /\ a \o b \in Seq(S) /\ Len(a \o b) = Len(a) + Len(b)
      /\ \A i \in 1..Len(a) + Len(b) : (a \o b)[i] = IF i <= Len(a) THEN a[i] ELSE b[i - Len(a)]
  BY <1>5, ConcatProperties
<1>7. Len(a) = k - 1 /\ Len(b) = Len(s) - k
  BY <1>3, <1>4 DEF a, b
<1>8. ASSUME NEW j \in 1..Len(s) - 1
      PROVE  (a \o b)[j] = IF j < k THEN s[j] ELSE s[j + 1]
  <2>1. CASE j < k
    <3>1. a[j] = s[j]
      BY <1>0, <1>3, <2>1 DEF a
    <3>2. QED
      BY <1>0, <1>6, <1>7, <2>1, <3>1
  <2>2. CASE j >= k
    <3>1. b[j - (k - 1)] = s[k + (j - (k - 1))]
      BY <1>0, <1>4, <2>2 DEF b
    <3>2. (a \o b)[j] = b[j - (k - 1)]
      BY <1>0, <1>6, <1>7, <2>2
    <3>3. k + (j - (k - 1)) = j + 1
      BY <1>0
    <3>4. QED
      BY <1>0, <2>2, <3>1, <3>2, <3>3
  <2>3. j < k \/ j >= k
    BY <1>0
  <2>4. QED
    BY <2>1, <2>2, <2>3
<1>9. RemoveFirst(s, s[k]) = a \o b
  BY <1>2 DEF a, b
<1>10. Len(a \o b) = Len(s) - 1
  BY <1>0, <1>6, <1>7
<1>11. QED
  BY <1>6, <1>8, <1>9, <1>10

\* What is not recorded does not disturb the pairs of events.
LEMMA PairsUndisturbed ==
  ASSUME EventsPaired, ActiveUnfinished, UNCHANGED <<events, active, issued>>
  PROVE  EventsPaired' /\ ActiveUnfinished'
<1>1. events' = events /\ active' = active /\ issued' = issued
  OBVIOUS
<1>2. \A i : Finished(i)' <=> Finished(i)
  BY ONLY <1>1 DEF Finished
<1>3. EventsPaired'
  BY ONLY <1>1, EventsPaired DEF EventsPaired
<1>4. ActiveUnfinished'
  BY ONLY <1>1, <1>2, ActiveUnfinished DEF ActiveUnfinished
<1>5. QED
  BY <1>3, <1>4

LEMMA InitIInv == Init => IInv
<1> SUFFICES ASSUME Init PROVE IInv
  OBVIOUS
<1> USE DEF Init
<1>1. TypeOK
  <2>1. op \in [Tasks -> Records] /\ own \in [Tasks -> SUBSET (1..MaxInvocations)]
    BY EventsAreRecords, SingleEvents DEF Kinds
  <2>2. final \in BOOLEAN /\ phase \in [Tasks -> Phases]
    BY DEF Phases
  <2>3. QED
    BY <2>1, <2>2 DEF TypeOK
<1>2. EventsPaired /\ ActiveUnfinished
  BY DEF EventsPaired, ActiveUnfinished
<1>3. LockHeld /\ AgendaSound /\ StartOwed /\ FinalizationOwed
  BY SingleEvents, EventsDiffer DEF LockHeld, AgendaSound, StartOwed, FinalizationOwed
<1>4. CallsAreOwn
  BY DEF CallsAreOwn
<1>5. StartsAreBounded
  <2>1. Pending = {}
    BY SingleEvents, EventsDiffer DEF Pending
  <2>2. QED
    BY <2>1, FS_EmptySet DEF StartsAreBounded
<1>6. FinalSettled /\ HeardRecorded
  BY DEF FinalSettled, HeardRecorded
<1>7. QED
  BY <1>1, <1>2, <1>3, <1>4, <1>5, <1>6 DEF IInv

-------------------------------------------------------------------------------
\* The calls.

\* The starts that wait grow by one at most, and do not grow otherwise.
LEMMA PendingKept ==
  ASSUME StartsAreBounded, TypeOK, issued' = issued, Pending' \subseteq Pending
  PROVE  StartsAreBounded'
<1>1. IsFiniteSet(Pending)
  BY TasksFinite, FS_Subset DEF Pending
<1>2. Cardinality(Pending') <= Cardinality(Pending) /\ Cardinality(Pending) \in Nat
      /\ Cardinality(Pending') \in Nat
  BY <1>1, FS_Subset, FS_CardinalityType
<1>3. QED
  BY <1>2 DEF StartsAreBounded, TypeOK

LEMMA RequestIInv ==
  ASSUME IInv, NEW t \in Tasks, NEW o, Request(t, o),
         \/ /\ o = Event("started", 0)
            /\ issued + Cardinality({u \in Tasks : op[u].kind = "started"}) < MaxInvocations
         \/ t = Run /\ o \in {Begin, Terminal}
         \/ \E i \in own[t] : o = Event("finished", i),
         final => phase[t] # "done"
  PROVE  IInv'
<1> USE DEF IInv, Request, book, writing
<1>1. o \in Records /\ o # NoOp
  BY EventsAreRecords, EventsDiffer, SingleEvents DEF Single, TypeOK, Kinds
<1>2. t # holder
  BY TasksFinite DEF LockHeld
<1>3. TypeOK'
  BY <1>1 DEF TypeOK
<1>4. EventsPaired' /\ ActiveUnfinished'
  BY DEF EventsPaired, ActiveUnfinished, Finished
<1>5. LockHeld' /\ FinalizationOwed'
  BY <1>2, TasksFinite DEF LockHeld, FinalizationOwed, TypeOK
<1>6. AgendaSound'
  BY <1>2, TasksFinite DEF AgendaSound, LockHeld, TypeOK
<1>7. StartOwed'
  BY <1>2, EventsDiffer, SingleEvents DEF StartOwed, TypeOK
<1>8. CallsAreOwn'
  BY EventsDiffer DEF CallsAreOwn, TypeOK
<1>9. StartsAreBounded'
  <2>1. CASE o = Event("started", 0)
    <3>1. issued + Cardinality({u \in Tasks : op[u].kind = "started"}) < MaxInvocations
      BY <2>1, EventsDiffer, SingleEvents
    <3>2. Pending' = Pending \cup {t} /\ t \notin Pending
      BY <2>1, EventsDiffer, SingleEvents DEF Pending, TypeOK
    <3>3. IsFiniteSet(Pending) /\ Pending \subseteq {u \in Tasks : op[u].kind = "started"}
      BY TasksFinite, FS_Subset, EventsDiffer DEF Pending
    <3>4. IsFiniteSet({u \in Tasks : op[u].kind = "started"})
      BY TasksFinite, FS_Subset
    <3>5. Cardinality(Pending) <= Cardinality({u \in Tasks : op[u].kind = "started"})
          /\ Cardinality({u \in Tasks : op[u].kind = "started"}) \in Nat
          /\ Cardinality(Pending) \in Nat
      BY <3>3, <3>4, FS_Subset, FS_CardinalityType
    <3>6. Cardinality(Pending \cup {t}) = Cardinality(Pending) + 1
      BY <3>2, <3>3, FS_AddElement
    <3>7. QED
      BY <3>1, <3>2, <3>5, <3>6 DEF StartsAreBounded, TypeOK
  <2>2. CASE o # Event("started", 0)
    <3>1. Pending' \subseteq Pending
      BY <2>2 DEF Pending, TypeOK
    <3>2. QED
      BY <3>1, PendingKept
  <2>3. QED
    BY <2>1, <2>2
<1>10. FinalSettled'
  BY DEF FinalSettled, TypeOK
<1>11. HeardRecorded'
  BY DEF HeardRecorded, Served
<1>12. QED
  BY <1>3, <1>4, <1>5, <1>6, <1>7, <1>8, <1>9, <1>10, <1>11

LEMMA CallsIInv ==
  ASSUME IInv, \/ CallStart \/ CallFinalize
               \/ \E t \in Tasks : CallStartInvocation(t) \/ CallFinish(t)
  PROVE  IInv'
<1>1. CASE CallStart
  BY <1>1, RequestIInv, TasksFinite DEF CallStart
<1>2. CASE CallFinalize
  BY <1>2, RequestIInv, TasksFinite DEF CallFinalize
<1>3. ASSUME NEW t \in Tasks, CallStartInvocation(t)
      PROVE  IInv'
  BY <1>3, RequestIInv DEF CallStartInvocation
<1>4. ASSUME NEW t \in Tasks, CallFinish(t)
      PROVE  IInv'
  BY <1>4, RequestIInv DEF CallFinish
<1>5. QED
  BY <1>1, <1>2, <1>3, <1>4

\* Only the phase of a task changes, and never the one of a run that is done.
LEMMA PhaseIInv ==
  ASSUME IInv, NEW t \in Tasks, NEW p \in Phases, phase' = [phase EXCEPT ![t] = p],
         phase[t] # "done",
         UNCHANGED <<book, writing, final, op, own, interrupts>>
  PROVE  IInv'
<1> USE DEF IInv, book, writing
<1>1. TypeOK'
  BY DEF TypeOK
<1>2. EventsPaired' /\ ActiveUnfinished' /\ CallsAreOwn'
  <2>1. UNCHANGED <<events, active, issued, own, op>>
    OBVIOUS
  <2>2. EventsPaired' /\ ActiveUnfinished'
    BY <2>1, PairsUndisturbed
  <2>3. CallsAreOwn'
    BY <2>1 DEF CallsAreOwn
  <2>4. QED
    BY <2>2, <2>3
<1>3. LockHeld' /\ AgendaSound' /\ StartOwed' /\ FinalizationOwed'
  BY DEF LockHeld, AgendaSound, StartOwed, FinalizationOwed
<1>4. StartsAreBounded'
  BY DEF StartsAreBounded, Pending
<1>5. FinalSettled'
  BY DEF FinalSettled, TypeOK
<1>6. HeardRecorded'
  BY DEF HeardRecorded, Served
<1>7. QED
  BY <1>1, <1>2, <1>3, <1>4, <1>5, <1>6

LEMMA PhasesIInv ==
  ASSUME IInv, BodyRaises \/ \E t \in Tasks : PopulationEnds(t)
  PROVE  IInv'
<1>1. CASE BodyRaises
  BY <1>1, PhaseIInv, TasksFinite DEF BodyRaises, Phases
<1>2. ASSUME NEW t \in Tasks, PopulationEnds(t)
      PROVE  IInv'
  BY <1>2, PhaseIInv DEF PopulationEnds, Phases
<1>3. QED
  BY <1>1, <1>2

-------------------------------------------------------------------------------
\* Under the lock.

\* The calls of the run are told apart by their kind.
LEMMA CallKinds ==
  ASSUME CallsAreOwn, NEW t \in Tasks
  PROVE  /\ op[t].kind = "terminal" => t = Run /\ op[t] = Terminal
         /\ op[t].kind = "run_started" => t = Run /\ op[t] = Begin
         /\ op[t].kind = "finished" => op[t].inv \in own[t] /\ op[t] = Event("finished", op[t].inv)
BY EventsDiffer, SingleEvents DEF CallsAreOwn

\* What a call that gets the lock has to record.
LEMMA AgendaOfCall ==
  ASSUME IInv, NEW t \in Tasks, op[t] # NoOp, ~Settled(op[t]), holder = Free,
         NEW a, a = Agenda(op[t])
  PROVE  /\ a \in Seq(Records) /\ a # <<>>
         /\ \A k \in 1..Len(a) :
              \/ a[k] \in Single
              \/ a[k] = Event("started", 0) /\ op[t] = a[k]
              \/ \E i \in 1..issued : a[k] = Event("finished", i) /\ Contains(active, i)
         /\ \A j, k \in 1..Len(a) : a[j] = a[k] /\ a[j].kind = "finished" => j = k
         /\ op[t].kind = "started" => Len(a) = 1 /\ a[1] = op[t]
         /\ op[t] = Terminal =>
              /\ a[Len(a)] = Terminal
              /\ \A k \in 1..Len(active) : Contains(a, Event("finished", active[k]))
<1> USE DEF IInv
<1>1. CASE op[t] = Terminal
  <2> DEFINE n == Len(active)
             f == [k \in 1..n |-> Event("finished", active[n - k + 1])]
  <2>1. n \in Nat /\ \A k \in 1..n : active[k] \in 1..issued /\ active[k] \in 1..MaxInvocations
    BY LenProperties, ElementOfSeq DEF TypeOK, ActiveUnfinished
  <2>2. Finishes(Reverse(active)) = f
    BY <2>1 DEF Finishes, Reverse
  <2>3. f \in Seq(Records) /\ Len(f) = n
    <3>1. \A k \in 1..n : Event("finished", active[n - k + 1]) \in Records
      BY <2>1, EventsAreRecords DEF Kinds
    <3>2. QED
      BY <2>1, <3>1
  <2>4. \A k \in 1..n : f[k] = Event("finished", active[n - k + 1])
    OBVIOUS
  <2> HIDE DEF f
  <2>5. a = Append(f, Terminal)
    <3>1. Terminal \in Records
      BY SingleEvents DEF Single
    <3>2. Append(f, Terminal) = f \o <<Terminal>>
      BY <2>3, <3>1, AppendIsConcat
    <3>3. Agenda(op[t]) = Finishes(Reverse(active)) \o <<Terminal>>
      BY <1>1, EventsDiffer, SingleEvents DEF Agenda
    <3>4. QED
      BY <2>2, <3>2, <3>3
  <2>6. /\ a \in Seq(Records) /\ Len(a) = n + 1 /\ a[n + 1] = Terminal
        /\ \A k \in 1..n : a[k] = Event("finished", active[n - k + 1])
    BY <2>1, <2>3, <2>4, <2>5, SingleEvents, AppendProperties DEF Single
  <2> HIDE DEF n
  <2>7. \A k \in 1..n : Contains(active, active[k])
    BY DEF Contains, n
  <2>8. ASSUME NEW k \in 1..Len(a)
        PROVE  \/ a[k] \in Single
               \/ \E i \in 1..issued : a[k] = Event("finished", i) /\ Contains(active, i)
    <3>1. CASE k = n + 1
      BY <2>6, <3>1 DEF Single
    <3>2. CASE k # n + 1
      <4>1. k \in 1..n /\ n - k + 1 \in 1..n
        BY <2>1, <2>6, <3>2
      <4>2. QED
        BY <2>1, <2>6, <2>7, <4>1
    <3>3. QED
      BY <3>1, <3>2
  <2>9. ASSUME NEW j \in 1..Len(a), NEW k \in 1..Len(a), a[j] = a[k], a[j].kind = "finished"
        PROVE  j = k
    <3>1. j # n + 1 /\ k # n + 1
      BY <2>6, <2>9, EventsDiffer, SingleEvents
    <3>2. j \in 1..n /\ k \in 1..n /\ n - j + 1 \in 1..n /\ n - k + 1 \in 1..n
      BY <2>1, <2>6, <3>1
    <3>3. active[n - j + 1] = active[n - k + 1]
      BY <2>6, <2>9, <3>2, EventsDiffer
    <3>4. n - j + 1 = n - k + 1
      BY <3>2, <3>3 DEF ActiveUnfinished, n
    <3>5. QED
      BY <2>1, <3>2, <3>4
  <2>10. ASSUME NEW k \in 1..n
         PROVE  Contains(a, Event("finished", active[k]))
    <3>1. n - k + 1 \in 1..n /\ n - (n - k + 1) + 1 = k
      BY <2>1
    <3>2. a[n - k + 1] = Event("finished", active[k])
      BY <2>6, <3>1
    <3>3. n - k + 1 \in 1..Len(a)
      BY <2>1, <2>6, <3>1
    <3>4. QED
      BY <3>2, <3>3 DEF Contains
  <2>11. op[t].kind # "started"
    BY <1>1, EventsDiffer, SingleEvents
  <2>12. a # <<>>
    BY <2>1, <2>6
  <2>13. QED
    BY <2>6, <2>8, <2>9, <2>10, <2>11, <2>12 DEF n
<1>2. CASE op[t] = Begin
  <2>1. a = <<Begin, Loaded>>
    BY <1>2, EventsDiffer, SingleEvents DEF Agenda
  <2>2. op[t].kind # "started" /\ op[t] # Terminal
    BY <1>2, EventsDiffer, SingleEvents
  <2>3. Begin \in Records /\ Loaded \in Records /\ Begin.kind # "finished" /\ Loaded.kind # "finished"
        /\ Begin \in Single /\ Loaded \in Single
    BY EventsDiffer, SingleEvents DEF Single
  <2>4. QED
    BY <2>1, <2>2, <2>3
<1>3. CASE op[t] \notin {Begin, Terminal}
  <2>1. a = <<op[t]>> /\ op[t] \in Records
    BY <1>3 DEF Agenda, TypeOK
  <2>2. op[t] = Event("started", 0)
        \/ \E i \in 1..issued : op[t] = Event("finished", i) /\ Contains(active, i)
    <3>1. CASE op[t].kind = "started"
      BY <3>1, TasksFinite DEF StartOwed
    <3>2. CASE \E i \in own[t] : op[t] = Event("finished", i)
      <4>1. PICK i \in own[t] : op[t] = Event("finished", i)
        BY <3>2
      <4>2. i \in 1..issued /\ ~Finished(i)
        BY <4>1, EventsDiffer DEF CallsAreOwn, Settled
      <4>3. QED
        BY <4>1, <4>2 DEF ActiveUnfinished
    <3>3. QED
      BY <1>3, <3>1, <3>2 DEF CallsAreOwn
  <2>3. QED
    BY <1>3, <2>1, <2>2
<1>4. QED
  BY <1>1, <1>2, <1>3

LEMMA AcquireIInv ==
  ASSUME IInv, NEW t \in Tasks, Acquire(t)
  PROVE  IInv'
<1> USE DEF IInv, Acquire, book
<1>0. /\ agenda' \in Seq(Records) /\ agenda' # <<>>
      /\ \A k \in 1..Len(agenda') :
           \/ agenda'[k] \in Single
           \/ agenda'[k] = Event("started", 0) /\ op[t] = agenda'[k]
           \/ \E i \in 1..issued : agenda'[k] = Event("finished", i) /\ Contains(active, i)
      /\ \A j, k \in 1..Len(agenda') : agenda'[j] = agenda'[k] /\ agenda'[j].kind = "finished" => j = k
      /\ op[t].kind = "started" => Len(agenda') = 1 /\ agenda'[1] = op[t]
      /\ op[t] = Terminal =>
           /\ agenda'[Len(agenda')] = Terminal
           /\ \A k \in 1..Len(active) : Contains(agenda', Event("finished", active[k]))
  BY AgendaOfCall
<1>1. TypeOK'
  BY <1>0 DEF TypeOK
<1>2. EventsPaired' /\ ActiveUnfinished' /\ CallsAreOwn'
  BY DEF EventsPaired, ActiveUnfinished, Finished, CallsAreOwn
<1>3. LockHeld'
  BY TasksFinite DEF LockHeld
<1>4. AgendaSound'
  BY <1>0 DEF AgendaSound
<1>5. StartOwed'
  BY <1>0, TasksFinite DEF StartOwed
<1>6. FinalizationOwed'
  BY <1>0 DEF FinalizationOwed
<1>7. StartsAreBounded'
  BY DEF StartsAreBounded, Pending
<1>8. FinalSettled'
  <2>1. SUFFICES ASSUME final PROVE FALSE
    BY DEF FinalSettled
  <2>2. t # Run /\ op[t].kind # "started"
    BY <2>1 DEF FinalSettled, Refused
  <2>3. PICK i \in own[t] : op[t] = Event("finished", i)
    BY <2>2 DEF CallsAreOwn
  <2>4. i \in 1..issued /\ ~Contains(active, i)
    BY <2>1 DEF CallsAreOwn, FinalSettled, Contains
  <2>5. QED
    BY <2>3, <2>4, EventsDiffer DEF ActiveUnfinished, Settled
<1>9. HeardRecorded'
  BY DEF HeardRecorded, Served
<1>10. QED
  BY <1>1, <1>2, <1>3, <1>4, <1>5, <1>6, <1>7, <1>8, <1>9

\* A call returns with nothing more to record, or is given up.
LEMMA CallOverIInv ==
  ASSUME IInv, NEW t \in Tasks, t # holder, op' = [op EXCEPT ![t] = NoOp],
         NEW p \in Phases, phase' = [phase EXCEPT ![t] = p], t = Run => ~final,
         own' \in [Tasks -> SUBSET (1..issued)],
         \A u \in Tasks \ {t} : own'[u] = own[u],
         UNCHANGED <<book, writing, final>>, interrupts' \in 0..MaxInterrupts
  PROVE  IInv'
<1> USE DEF IInv, book, writing
<1>1. TypeOK'
  <2>1. NoOp \in Records
    BY SingleEvents, EventsAreRecords DEF Kinds
  <2>2. own' \in [Tasks -> SUBSET (1..MaxInvocations)]
    <3>1. 1..issued \subseteq 1..MaxInvocations
      BY DEF TypeOK
    <3>2. QED
      BY <3>1
  <2>3. QED
    BY <2>1, <2>2 DEF TypeOK
<1>2. EventsPaired' /\ ActiveUnfinished'
  BY DEF EventsPaired, ActiveUnfinished, Finished
<1>3. CallsAreOwn'
  BY DEF CallsAreOwn, TypeOK
<1>4. LockHeld' /\ FinalizationOwed'
  BY TasksFinite DEF LockHeld, FinalizationOwed, TypeOK
<1>5. AgendaSound'
  <2>1. CASE holder = Free
    BY <2>1 DEF LockHeld, AgendaSound
  <2>2. CASE holder # Free
    <3>1. op'[holder] = op[holder]
      BY <2>2 DEF TypeOK
    <3>2. QED
      BY <3>1 DEF AgendaSound
  <2>3. QED
    BY <2>1, <2>2
<1>6. StartOwed'
  BY EventsDiffer, SingleEvents DEF StartOwed, TypeOK
<1>7. StartsAreBounded'
  <2>1. Pending' \subseteq Pending
    BY EventsDiffer, SingleEvents DEF Pending, TypeOK
  <2>2. QED
    BY <2>1, PendingKept
<1>8. FinalSettled'
  BY DEF FinalSettled, TypeOK
<1>9. HeardRecorded'
  BY DEF HeardRecorded, Served
<1>10. QED
  BY <1>1, <1>2, <1>3, <1>4, <1>5, <1>6, <1>7, <1>8, <1>9

LEMMA ReturnAtOnceIInv ==
  ASSUME IInv, NEW t \in Tasks, ReturnAtOnce(t)
  PROVE  IInv'
<1>1. op[t].kind = "finished" /\ t # holder
  BY TasksFinite DEF ReturnAtOnce, Settled
<1>2. phase' = [phase EXCEPT ![t] = phase[t]] /\ phase[t] \in Phases
  BY <1>1 DEF IInv, TypeOK, ReturnAtOnce, Returned
<1>3. own' \in [Tasks -> SUBSET (1..issued)] /\ \A u \in Tasks \ {t} : own'[u] = own[u]
  BY <1>1 DEF IInv, TypeOK, CallsAreOwn, ReturnAtOnce, Returned
<1>4. t = Run => ~final
  BY <1>1, EventsDiffer, SingleEvents DEF IInv, FinalSettled
<1>5. QED
  BY <1>1, <1>2, <1>3, <1>4, CallOverIInv DEF IInv, TypeOK, ReturnAtOnce, Returned

LEMMA RefuseStartIInv ==
  ASSUME IInv, NEW t \in Tasks, RefuseStart(t)
  PROVE  IInv'
<1>1. op[t].kind = "started" /\ t # holder /\ final
  BY TasksFinite DEF RefuseStart, Refused
<1>2. own' \in [Tasks -> SUBSET (1..issued)]
  BY DEF IInv, TypeOK, CallsAreOwn, RefuseStart
<1>3. t # Run
  BY <1>1, EventsDiffer, SingleEvents DEF IInv, FinalSettled
<1>4. QED
  BY <1>1, <1>2, <1>3, CallOverIInv DEF IInv, TypeOK, RefuseStart, Phases

-------------------------------------------------------------------------------
\* Recording.

LEMMA RecordFacts ==
  ASSUME IInv, Record, NEW x \in Records, events' = Append(events, x)
  PROVE  /\ events' \in Seq(Records) /\ Len(events') = Len(events) + 1 /\ Len(events) \in Nat
         /\ events'[Len(events) + 1] = x
         /\ \A n \in 1..Len(events) : events'[n] = events[n]
         /\ agenda' \in Seq(Records) /\ Len(agenda') = Len(agenda) - 1 /\ Len(agenda) \in Nat \ {0}
         /\ \A k \in 1..Len(agenda') : agenda'[k] = agenda[k + 1] /\ k + 1 \in 1..Len(agenda)
         /\ Head(agenda) = agenda[1] /\ 1 \in 1..Len(agenda)
         /\ holder \in Tasks /\ holder' = holder
         /\ HeardRecorded'
<1> USE DEF IInv, Record
<1>1. /\ events' \in Seq(Records) /\ Len(events') = Len(events) + 1 /\ Len(events) \in Nat
      /\ events'[Len(events) + 1] = x
      /\ \A n \in 1..Len(events) : events'[n] = events[n]
  BY AppendProperties, LenProperties DEF TypeOK
<1>2. /\ agenda' \in Seq(Records) /\ Len(agenda') = Len(agenda) - 1 /\ Len(agenda) \in Nat \ {0}
      /\ \A k \in 1..Len(agenda') : agenda'[k] = agenda[k + 1]
  BY HeadTailProperties, LenProperties, EmptySeq DEF TypeOK
<1>3. Head(agenda) = agenda[1]
  OBVIOUS
<1>4. \A k \in 1..Len(agenda') : k + 1 \in 1..Len(agenda)
  BY <1>2
<1>5. HeardRecorded'
  <2> SUFFICES ASSUME NEW s \in Sinks
               PROVE  /\ \A m, n \in 1..Len(heard[s]) : m < n => heard[s][m] < heard[s][n]
                      /\ \A m \in 1..Len(heard[s]) :
                           heard[s][m] \in 1..Len(events') /\ Served(heard[s][m], s)'
                      /\ s \notin broken => \A n \in 1..Len(events') :
                           Served(n, s)' => Contains(heard[s], n) \/ <<n, s>> \in cut
    BY DEF HeardRecorded
  <2>1. \A n : Served(n, s)' => n < Len(events')
    BY DEF Served, Sinks
  <2>2. \A n \in 1..Len(events) : Served(n, s)' /\ Served(n, s)
    BY <1>1 DEF Served
  <2>3. \A m \in 1..Len(heard[s]) : heard[s][m] \in 1..Len(events') /\ Served(heard[s][m], s)'
    BY <1>1, <2>2 DEF HeardRecorded
  <2>4. \A n \in 1..Len(events') : n < Len(events') => n \in 1..Len(events)
    BY <1>1
  <2>5. QED
    BY <2>1, <2>2, <2>3, <2>4 DEF HeardRecorded
<1>6. QED
  BY <1>1, <1>2, <1>3, <1>4, <1>5 DEF TypeOK

\* The run begins or ends, or an image is loaded.
LEMMA RecordSingleIInv ==
  ASSUME IInv, Record, Head(agenda) \in Single
  PROVE  IInv'
<1> USE DEF IInv
<1> DEFINE e == Head(agenda)
<1>0. /\ e \in Records /\ e.kind # "started" /\ e.kind # "finished"
      /\ e # Terminal => e.kind # "terminal"
  BY SingleEvents, EventsDiffer DEF Single
<1>1. /\ events' = Append(events, e)
      /\ UNCHANGED <<active, issued, op, holder, heard, broken, cut, final, own, phase, interrupts>>
      /\ cursor' = 1 /\ cursor = 0 /\ holder # Free /\ agenda # <<>>
  BY <1>0 DEF Record
<1> HIDE DEF e
<1>2. /\ events' \in Seq(Records) /\ Len(events') = Len(events) + 1 /\ Len(events) \in Nat
      /\ events'[Len(events) + 1] = e
      /\ \A n \in 1..Len(events) : events'[n] = events[n]
      /\ agenda' \in Seq(Records) /\ Len(agenda') = Len(agenda) - 1 /\ Len(agenda) \in Nat \ {0}
      /\ \A k \in 1..Len(agenda') : agenda'[k] = agenda[k + 1] /\ k + 1 \in 1..Len(agenda)
      /\ e = agenda[1] /\ 1 \in 1..Len(agenda) /\ holder \in Tasks
      /\ HeardRecorded'
  BY <1>0, <1>1, RecordFacts DEF e
<1>3. e \in Single
  BY DEF e
<1>4. TypeOK'
  BY <1>1, <1>2 DEF TypeOK
<1>5. \A n \in 1..Len(events') : events'[n] \notin Single => n \in 1..Len(events)
  BY <1>2, <1>3
<1>6. EventsPaired'
  <2>1. \A n \in 1..Len(events') :
          events'[n] \in Single \/ \E i \in 1..issued : events'[n] \in Paired(i)
    BY <1>2, <1>5 DEF EventsPaired
  <2>2. \A m, n \in 1..Len(events') : events'[m] = events'[n] /\ events'[m] \notin Single => m = n
    BY <1>2, <1>5 DEF EventsPaired
  <2>3. \A i \in 1..issued : \E n \in 1..Len(events') : events'[n] = Event("started", i)
    BY <1>2 DEF EventsPaired
  <2>4. \A i \in 1..issued : \A m, n \in 1..Len(events') :
          events'[m] = Event("started", i) /\ events'[n] = Event("finished", i) => m < n
    BY <1>2, <1>5, SingleEvents DEF EventsPaired
  <2>5. QED
    BY <1>1, <2>1, <2>2, <2>3, <2>4 DEF EventsPaired
<1>7. ActiveUnfinished'
  <2>1. ASSUME NEW i PROVE Finished(i)' <=> Finished(i)
    <3>1. Event("finished", i) \notin Single
      BY SingleEvents
    <3>2. Finished(i)' => Finished(i)
      BY <1>2, <1>5, <3>1 DEF Finished
    <3>3. Finished(i) => Finished(i)'
      BY <1>2 DEF Finished
    <3>4. QED
      BY <3>2, <3>3
  <2>2. QED
    BY <1>1, <2>1 DEF ActiveUnfinished
<1>8. LockHeld'
  BY <1>1 DEF LockHeld
<1>9. AgendaSound'
  <2>1. ASSUME NEW k \in 1..Len(agenda')
        PROVE  \/ agenda'[k] \in Single
               \/ agenda'[k] = Event("started", 0) /\ op[holder] = agenda'[k]
               \/ \E i \in 1..issued : agenda'[k] = Event("finished", i) /\ Contains(active, i)
    BY <1>2 DEF AgendaSound
  <2>2. ASSUME NEW j \in 1..Len(agenda'), NEW k \in 1..Len(agenda'),
               agenda'[j] = agenda'[k], agenda'[j].kind = "finished"
        PROVE  j = k
    <3>1. agenda[j + 1] = agenda[k + 1] /\ agenda[j + 1].kind = "finished"
      BY <1>2, <2>2
    <3>2. j + 1 = k + 1
      BY <1>2, <3>1 DEF AgendaSound
    <3>3. QED
      BY <1>2, <3>2
  <2>3. QED
    BY <1>1, <2>1, <2>2 DEF AgendaSound
<1>10. StartOwed'
  BY <1>1, <1>2, <1>3, SingleEvents DEF StartOwed
<1>11. FinalizationOwed'
  <2> SUFFICES ASSUME op[holder] = Terminal
               PROVE  IF agenda' = <<>>
                      THEN active = <<>> /\ events' # <<>> /\ Last(events') = Terminal
                      ELSE /\ agenda'[Len(agenda')] = Terminal
                           /\ \A k \in 1..Len(active) : Contains(agenda', Event("finished", active[k]))
    BY <1>1 DEF FinalizationOwed
  <2>1. /\ agenda[Len(agenda)] = Terminal
        /\ \A k \in 1..Len(active) : Contains(agenda, Event("finished", active[k]))
    BY <1>1 DEF FinalizationOwed
  <2>2. \A k \in 1..Len(active) : \E j \in 2..Len(agenda) : agenda[j] = Event("finished", active[k])
    BY <1>2, <1>3, <2>1, SingleEvents DEF Contains
  <2>3. CASE agenda' = <<>>
    <3>1. Len(agenda) = 1
      BY <1>2, <2>3
    <3>2. Len(active) = 0
      BY <2>2, <3>1, LenProperties DEF TypeOK
    <3>3. active = <<>>
      BY <3>2, EmptySeq DEF TypeOK
    <3>4. e = Terminal
      BY <1>2, <2>1, <3>1
    <3>5. QED
      BY <1>2, <2>3, <3>3, <3>4 DEF Last
  <2>4. CASE agenda' # <<>>
    <3>1. Len(agenda') \in Nat \ {0}
      BY <1>2, <2>4, EmptySeq
    <3>2. agenda'[Len(agenda')] = Terminal
      BY <1>2, <2>1, <3>1
    <3>3. ASSUME NEW k \in 1..Len(active)
          PROVE  Contains(agenda', Event("finished", active[k]))
      <4>1. PICK j \in 2..Len(agenda) : agenda[j] = Event("finished", active[k])
        BY <2>2
      <4>2. j - 1 \in 1..Len(agenda') /\ agenda'[j - 1] = agenda[j]
        BY <1>2, <4>1
      <4>3. QED
        BY <4>1, <4>2 DEF Contains
    <3>4. QED
      BY <2>4, <3>2, <3>3
  <2>5. QED
    BY <2>3, <2>4
<1>12. CallsAreOwn' /\ StartsAreBounded'
  BY <1>1 DEF CallsAreOwn, StartsAreBounded, Pending
<1>13. FinalSettled'
  BY <1>1 DEF FinalSettled
<1>14. QED
  BY <1>2, <1>4, <1>6, <1>7, <1>8, <1>9, <1>10, <1>11, <1>12, <1>13

\* An active invocation is finished: its owner is done with it or the run is finalized.
LEMMA RecordFinishedIInv ==
  ASSUME IInv, Record, NEW i \in 1..issued, Head(agenda) = Event("finished", i), Contains(active, i)
  PROVE  IInv'
<1> USE DEF IInv
<1> DEFINE e == Event("finished", i)
<1>0. e \in Records /\ e.kind = "finished" /\ e.inv = i /\ e \notin Single
  BY EventsAreRecords, EventsDiffer, SingleEvents DEF TypeOK, Kinds
<1>1. /\ events' = Append(events, e) /\ active' = RemoveFirst(active, i)
      /\ UNCHANGED <<issued, op, holder, heard, broken, cut, final, own, phase, interrupts>>
      /\ cursor' = 1 /\ cursor = 0 /\ holder # Free /\ agenda # <<>>
  BY <1>0 DEF Record
<1> HIDE DEF e
<1>2. /\ events' \in Seq(Records) /\ Len(events') = Len(events) + 1 /\ Len(events) \in Nat
      /\ events'[Len(events) + 1] = e
      /\ \A n \in 1..Len(events) : events'[n] = events[n]
      /\ agenda' \in Seq(Records) /\ Len(agenda') = Len(agenda) - 1 /\ Len(agenda) \in Nat \ {0}
      /\ \A k \in 1..Len(agenda') : agenda'[k] = agenda[k + 1] /\ k + 1 \in 1..Len(agenda)
      /\ e = agenda[1] /\ 1 \in 1..Len(agenda) /\ holder \in Tasks
      /\ HeardRecorded'
  BY <1>0, <1>1, RecordFacts DEF e
<1>3. PICK k \in 1..Len(active) : active[k] = i
  BY DEF Contains
<1>4. /\ active' \in Seq(1..MaxInvocations) /\ Len(active') = Len(active) - 1 /\ Len(active) \in Nat
      /\ \A j \in 1..Len(active) - 1 : active'[j] = IF j < k THEN active[j] ELSE active[j + 1]
  <2>1. active \in Seq(1..MaxInvocations) /\ Len(active) \in Nat
    BY LenProperties DEF TypeOK
  <2>2. \A j \in 1..Len(active) : active[j] = active[k] => j = k
    BY DEF ActiveUnfinished
  <2>3. active' = RemoveFirst(active, active[k])
    BY <1>1, <1>3
  <2>4. QED
    BY <2>1, <2>2, <2>3, RemoveFirstProperties
<1>5. /\ \A j \in 1..Len(active') : \E h \in 1..Len(active) \ {k} : active'[j] = active[h]
      /\ \A h \in 1..Len(active) \ {k} : \E j \in 1..Len(active') : active'[j] = active[h]
      /\ \A j, h \in 1..Len(active') : active'[j] = active'[h] => j = h
  <2>1. ASSUME NEW j \in 1..Len(active')
        PROVE  \E h \in 1..Len(active) \ {k} : active'[j] = active[h]
    <3>1. CASE j < k
      BY <1>4, <3>1
    <3>2. CASE j >= k
      <4>1. j + 1 \in 1..Len(active) \ {k} /\ active'[j] = active[j + 1]
        BY <1>4, <3>2
      <4>2. QED
        BY <4>1
    <3>3. QED
      BY <3>1, <3>2
  <2>2. ASSUME NEW h \in 1..Len(active) \ {k}
        PROVE  \E j \in 1..Len(active') : active'[j] = active[h]
    <3>1. CASE h < k
      <4>1. h \in 1..Len(active') /\ active'[h] = active[h]
        BY <1>4, <3>1
      <4>2. QED
        BY <4>1
    <3>2. CASE h > k
      <4>1. h - 1 \in 1..Len(active') /\ active'[h - 1] = active[h]
        BY <1>4, <3>2
      <4>2. QED
        BY <4>1
    <3>3. QED
      BY <3>1, <3>2
  <2>3. ASSUME NEW j \in 1..Len(active'), NEW h \in 1..Len(active'), active'[j] = active'[h]
        PROVE  j = h
    <3> DEFINE J == IF j < k THEN j ELSE j + 1
               H == IF h < k THEN h ELSE h + 1
    <3>1. J \in 1..Len(active) /\ H \in 1..Len(active)
      BY <1>4
    <3>2. active'[j] = active[J] /\ active'[h] = active[H]
      BY <1>4
    <3>3. J = H
      BY <2>3, <3>1, <3>2 DEF ActiveUnfinished
    <3>4. QED
      BY <1>4, <3>3
  <2>4. QED
    BY <2>1, <2>2, <2>3
<1>6. \A x : Contains(active', x) <=> Contains(active, x) /\ x # i
  <2>1. \A h \in 1..Len(active) \ {k} : active[h] # i
    BY <1>3 DEF ActiveUnfinished
  <2>2. ASSUME NEW x, Contains(active', x)
        PROVE  Contains(active, x) /\ x # i
    <3>1. PICK j \in 1..Len(active') : active'[j] = x
      BY <2>2 DEF Contains
    <3>2. PICK h \in 1..Len(active) \ {k} : active'[j] = active[h]
      BY <1>5
    <3>3. QED
      BY <2>1, <3>1, <3>2 DEF Contains
  <2>3. ASSUME NEW x, Contains(active, x), x # i
        PROVE  Contains(active', x)
    <3>1. PICK h \in 1..Len(active) : active[h] = x
      BY <2>3 DEF Contains
    <3>2. h \in 1..Len(active) \ {k}
      BY <1>3, <2>3, <3>1
    <3>3. QED
      BY <1>5, <3>1, <3>2 DEF Contains
  <2>4. QED
    BY <2>2, <2>3
<1>7. TypeOK'
  <2>1. events' \in Seq(Records) /\ agenda' \in Seq(Records) /\ active' \in Seq(1..MaxInvocations)
    BY <1>2, <1>4
  <2>2. UNCHANGED <<issued, op, holder, heard, broken, cut, final, own, phase, interrupts>>
    BY <1>1
  <2>3. cursor' \in 0..NumSinks
    BY <1>1, TaskAssumption
  <2>4. TypeOK
    OBVIOUS
  <2>5. QED
    BY ONLY <2>1, <2>2, <2>3, <2>4 DEF TypeOK
<1>8. ~Finished(i)
  BY DEF ActiveUnfinished
<1>9. \A n \in 1..Len(events') : n \in 1..Len(events) \/ (n = Len(events) + 1 /\ events'[n] = e)
  BY <1>2
<1>10. \A n \in 1..Len(events) : events[n] # e
  BY <1>8 DEF Finished, e
<1>11. EventsPaired'
  <2>1. \A n \in 1..Len(events') :
          events'[n] \in Single \/ \E h \in 1..issued : events'[n] \in Paired(h)
    BY <1>2, <1>9 DEF EventsPaired, Paired, e
  <2>2. \A m, n \in 1..Len(events') : events'[m] = events'[n] /\ events'[m] \notin Single => m = n
    <3>1. ASSUME NEW m \in 1..Len(events'), NEW n \in 1..Len(events'),
                 events'[m] = events'[n], events'[m] \notin Single
          PROVE  m = n
      <4>1. CASE m \in 1..Len(events) /\ n \in 1..Len(events)
        BY <1>2, <3>1, <4>1 DEF EventsPaired
      <4>2. CASE m = Len(events) + 1 \/ n = Len(events) + 1
        BY <1>2, <1>9, <1>10, <3>1, <4>2
      <4>3. QED
        BY <1>9, <4>1, <4>2
    <3>2. QED
      BY <3>1
  <2>3. \A h \in 1..issued : \E n \in 1..Len(events') : events'[n] = Event("started", h)
    BY SMTT(30), <1>2 DEF EventsPaired
  <2>4. ASSUME NEW h \in 1..issued, NEW m \in 1..Len(events'), NEW n \in 1..Len(events'),
               events'[m] = Event("started", h), events'[n] = Event("finished", h)
        PROVE  m < n
    <3>1. m \in 1..Len(events)
      BY <1>0, <1>9, <2>4, EventsDiffer
    <3>2. CASE n \in 1..Len(events)
      <4>1. events[m] = Event("started", h) /\ events[n] = Event("finished", h)
        BY <1>2, <2>4, <3>1, <3>2
      <4>2. QED
        BY <3>1, <3>2, <4>1 DEF EventsPaired
    <3>3. CASE n = Len(events) + 1
      BY <1>2, <3>1, <3>3
    <3>4. QED
      BY <1>9, <3>2, <3>3
  <2>5. QED
    BY ZenonT(40), <1>1, <2>1, <2>2, <2>3, <2>4 DEF EventsPaired
<1>12. ActiveUnfinished'
  <2>1. \A h : Finished(h)' <=> Finished(h) \/ h = i
    <3>1. ASSUME NEW h, Finished(h)'
          PROVE  Finished(h) \/ h = i
      <4>1. PICK n \in 1..Len(events') : events'[n] = Event("finished", h)
        BY <3>1 DEF Finished
      <4>2. CASE n \in 1..Len(events)
        BY <1>2, <4>1, <4>2 DEF Finished
      <4>3. CASE events'[n] = e
        BY <4>1, <4>3, EventsDiffer DEF e
      <4>4. QED
        BY <1>9, <4>2, <4>3
    <3>2. ASSUME NEW h, Finished(h)
          PROVE  Finished(h)'
      BY <1>2, <3>2 DEF Finished
    <3>3. Finished(i)'
      BY <1>2 DEF Finished, e
    <3>4. QED
      BY <3>1, <3>2, <3>3
  <2>2. \A j \in 1..Len(active') : active'[j] \in 1..issued
    BY <1>5 DEF ActiveUnfinished
  <2>3. QED
    BY <1>1, <1>5, <1>6, <2>1, <2>2 DEF ActiveUnfinished
<1>13. LockHeld'
  BY <1>1 DEF LockHeld
<1>14. \A n \in 2..Len(agenda) : agenda[n] # e
  <2>1. /\ \A j, n \in 1..Len(agenda) :
              agenda[j] = agenda[n] /\ agenda[j].kind = "finished" => j = n
        /\ 1 \in 1..Len(agenda) /\ agenda[1] = e /\ e.kind = "finished"
    BY <1>0, <1>2, EventsDiffer DEF AgendaSound, e
  <2>2. \A n \in 2..Len(agenda) : n \in 1..Len(agenda) /\ n # 1
    BY <1>2
  <2>3. QED
    BY ONLY <2>1, <2>2
<1>15. AgendaSound'
  <2>1. ASSUME NEW n \in 1..Len(agenda')
        PROVE  \/ agenda'[n] \in Single
               \/ agenda'[n] = Event("started", 0) /\ op[holder] = agenda'[n]
               \/ \E h \in 1..issued : agenda'[n] = Event("finished", h) /\ Contains(active', h)
    <3>1. agenda'[n] = agenda[n + 1] /\ n + 1 \in 2..Len(agenda)
      BY <1>2
    <3>2. QED
      BY <1>6, <1>14, <3>1 DEF AgendaSound, e
  <2>2. \A j, n \in 1..Len(agenda') : agenda'[j] = agenda'[n] /\ agenda'[j].kind = "finished" => j = n
    BY SMTT(30), <1>2 DEF AgendaSound
  <2>3. QED
    BY <1>1, <2>1, <2>2 DEF AgendaSound
<1>16. StartOwed'
  BY <1>0, <1>1, <1>2, EventsDiffer DEF StartOwed
<1>17. FinalizationOwed'
  <2> SUFFICES ASSUME op[holder] = Terminal
               PROVE  /\ agenda' # <<>> /\ agenda'[Len(agenda')] = Terminal
                      /\ \A j \in 1..Len(active') : Contains(agenda', Event("finished", active'[j]))
    BY <1>1 DEF FinalizationOwed
  <2>1. /\ agenda[Len(agenda)] = Terminal
        /\ \A j \in 1..Len(active) : Contains(agenda, Event("finished", active[j]))
    BY <1>1 DEF FinalizationOwed
  <2>2. Len(agenda) # 1
    BY <1>0, <1>2, <2>1 DEF Single
  <2>3. agenda' # <<>> /\ agenda'[Len(agenda')] = Terminal
    BY <1>2, <2>1, <2>2
  <2>4. ASSUME NEW j \in 1..Len(active')
        PROVE  Contains(agenda', Event("finished", active'[j]))
    <3>1. PICK h \in 1..Len(active) \ {k} : active'[j] = active[h]
      BY <1>5
    <3>2. active[h] # i
      BY <1>3, <3>1 DEF ActiveUnfinished
    <3>3. PICK n \in 1..Len(agenda) : agenda[n] = Event("finished", active[h])
      BY <2>1, <3>1 DEF Contains
    <3>4. n # 1
      BY <1>2, <3>2, <3>3, EventsDiffer DEF e
    <3>5. n - 1 \in 1..Len(agenda') /\ agenda'[n - 1] = agenda[n]
      BY <1>2, <3>3, <3>4
    <3>6. QED
      BY <3>1, <3>3, <3>5 DEF Contains
  <2>5. QED
    BY <2>3, <2>4
<1>18. CallsAreOwn' /\ StartsAreBounded'
  BY <1>1 DEF CallsAreOwn, StartsAreBounded, Pending
<1>19. FinalSettled'
  BY <1>1 DEF FinalSettled
<1>20. QED
  BY <1>2, <1>7, <1>11, <1>12, <1>13, <1>15, <1>16, <1>17, <1>18, <1>19

\* An invocation is numbered, starts and is active.
LEMMA RecordStartedIInv ==
  ASSUME IInv, Record, Head(agenda) = Event("started", 0), op[holder] = Event("started", 0)
  PROVE  IInv'
<1> USE DEF IInv
<1> DEFINE i == issued + 1
           e == Event("started", i)
<1>1. /\ events' = Append(events, e) /\ active' = Append(active, i) /\ issued' = i
      /\ op' = [op EXCEPT ![holder].inv = i]
      /\ UNCHANGED <<holder, heard, broken, cut, final, own, phase, interrupts>>
      /\ cursor' = 1 /\ cursor = 0 /\ holder # Free /\ agenda # <<>>
  BY EventsDiffer DEF Record
<1>2. holder \in Tasks /\ issued \in Nat /\ issued' = issued + 1
  BY <1>1 DEF TypeOK
<1>3. /\ op'[holder] = Event("started", i)
      /\ \A t \in Tasks \ {holder} : op'[t] = op[t]
  <2>1. op'[holder] = [op[holder] EXCEPT !.inv = i]
    BY <1>1, <1>2 DEF TypeOK
  <2>2. [op[holder] EXCEPT !.inv = i] = Event("started", i)
    BY DEF Event
  <2>3. QED
    BY <1>1, <2>1, <2>2 DEF TypeOK
<1>4. Pending' = Pending \ {holder} /\ holder \in Pending
  BY <1>2, <1>3, EventsDiffer DEF Pending
<1>5. StartsAreBounded' /\ i \in 1..MaxInvocations
  <2>1. IsFiniteSet(Pending)
    BY TasksFinite, FS_Subset DEF Pending
  <2>2. /\ Cardinality(Pending') = Cardinality(Pending) - 1
        /\ Cardinality(Pending) \in Nat /\ Cardinality(Pending') \in Nat
    BY <1>4, <2>1, FS_RemoveElement, FS_Subset, FS_CardinalityType
  <2>3. QED
    BY <1>2, <2>2 DEF StartsAreBounded
<1>6. e \in Records /\ i \in 1..MaxInvocations
  BY <1>5, EventsAreRecords DEF Kinds
<1>7. /\ events' \in Seq(Records) /\ Len(events') = Len(events) + 1 /\ Len(events) \in Nat
      /\ events'[Len(events) + 1] = e
      /\ \A n \in 1..Len(events) : events'[n] = events[n]
      /\ agenda' \in Seq(Records) /\ Len(agenda') = Len(agenda) - 1 /\ Len(agenda) \in Nat \ {0}
      /\ HeardRecorded'
  BY <1>1, <1>6, RecordFacts
<1>8. agenda' = <<>> /\ Len(agenda') = 0
  <2>1. Len(agenda) = 1
    BY SMTT(30), <1>1, <1>2, EventsDiffer, SingleEvents DEF StartOwed
  <2>2. QED
    BY <1>7, <2>1, EmptySeq
<1>9. /\ active' \in Seq(1..MaxInvocations) /\ Len(active') = Len(active) + 1 /\ Len(active) \in Nat
      /\ active'[Len(active) + 1] = i
      /\ \A k \in 1..Len(active) : active'[k] = active[k]
  BY <1>1, <1>6, AppendProperties, LenProperties DEF TypeOK
<1>10. TypeOK'
  <2>1. op' \in [Tasks -> Records]
    BY <1>1, <1>2, <1>3, <1>6 DEF TypeOK
  <2>2. QED
    BY SMTT(30), <1>1, <1>6, <1>7, <1>9, <2>1 DEF TypeOK
<1> HIDE DEF e
<1>11. \A n \in 1..Len(events') : n \in 1..Len(events) \/ (n = Len(events) + 1 /\ events'[n] = e)
  BY <1>7
<1>12. \A n \in 1..Len(events), h \in {issued + 1} :
         events[n] # Event("started", h) /\ events[n] # Event("finished", h)
  BY <1>2, EventsDiffer, SingleEvents DEF EventsPaired, Paired
<1>13. 1..issued' = (1..issued) \cup {i} /\ i \notin 1..issued
  BY <1>2
<1> HIDE DEF i
<1>14. e = Event("started", i) /\ i = issued + 1
  BY DEF e, i
<1>15. EventsPaired'
  <2>1. \A n \in 1..Len(events') :
          events'[n] \in Single \/ \E h \in 1..issued' : events'[n] \in Paired(h)
    BY <1>7, <1>11, <1>13, <1>14 DEF EventsPaired, Paired
  <2>2. \A m, n \in 1..Len(events') : events'[m] = events'[n] /\ events'[m] \notin Single => m = n
    BY <1>7, <1>11, <1>12, <1>14 DEF EventsPaired
  <2>3. \A h \in 1..issued' : \E n \in 1..Len(events') : events'[n] = Event("started", h)
    <3>1. \A h \in 1..issued : \E n \in 1..Len(events') : events'[n] = Event("started", h)
      BY <1>7 DEF EventsPaired
    <3>2. events'[Len(events) + 1] = Event("started", i) /\ Len(events) + 1 \in 1..Len(events')
      BY <1>7, <1>14
    <3>3. QED
      BY <1>13, <3>1, <3>2
  <2>4. ASSUME NEW h \in 1..issued', NEW m \in 1..Len(events'), NEW n \in 1..Len(events'),
               events'[m] = Event("started", h), events'[n] = Event("finished", h)
        PROVE  m < n
    <3>1. n \in 1..Len(events)
      BY <1>11, <1>14, <2>4, EventsDiffer
    <3>2. h # i
      BY <1>7, <1>12, <1>14, <2>4, <3>1
    <3>3. m \in 1..Len(events) /\ h \in 1..issued
      BY <1>11, <1>13, <1>14, <2>4, <3>2, EventsDiffer
    <3>4. QED
      BY <1>7, <2>4, <3>1, <3>3 DEF EventsPaired
  <2>5. QED
    BY <2>1, <2>2, <2>3, <2>4 DEF EventsPaired
<1>16. ActiveUnfinished'
  <2>1. \A h : Finished(h)' <=> Finished(h)
    BY <1>7, <1>11, <1>14, EventsDiffer DEF Finished
  <2>2. ~Finished(i)
    BY <1>12, <1>14 DEF Finished
  <2>3. \A k \in 1..Len(active') : k \in 1..Len(active) \/ (k = Len(active) + 1 /\ active'[k] = i)
    BY <1>9
  <2>4. \A h : Contains(active', h) <=> Contains(active, h) \/ h = i
    BY <1>9, <2>3 DEF Contains
  <2>5. \A k \in 1..Len(active') : active'[k] \in 1..issued'
    BY <1>9, <1>13, <2>3 DEF ActiveUnfinished
  <2>6. \A j, k \in 1..Len(active') : active'[j] = active'[k] => j = k
    BY <1>9, <1>13, <2>3 DEF ActiveUnfinished
  <2>7. QED
    BY <1>13, <2>1, <2>2, <2>4, <2>5, <2>6 DEF ActiveUnfinished
<1>17. LockHeld' /\ AgendaSound' /\ FinalizationOwed'
  <2>1. op'[holder] # NoOp /\ op'[holder] # Terminal
    BY <1>3, EventsDiffer, SingleEvents
  <2>2. events' # <<>>
    BY <1>7, EmptySeq
  <2>3. QED
    BY <1>1, <1>8, <2>1, <2>2 DEF LockHeld, AgendaSound, FinalizationOwed
<1>18. StartOwed'
  BY <1>1, <1>2, <1>3, <1>8, <1>13, EventsDiffer DEF StartOwed
<1>19. CallsAreOwn'
  BY <1>1, <1>3, <1>13, EventsDiffer DEF CallsAreOwn
<1>20. FinalSettled'
  BY <1>1 DEF FinalSettled
<1>21. QED
  BY <1>5, <1>7, <1>10, <1>15, <1>16, <1>17, <1>18, <1>19, <1>20

LEMMA RecordIInv ==
  ASSUME IInv, Record
  PROVE  IInv'
<1>1. Head(agenda) = agenda[1] /\ 1 \in 1..Len(agenda)
  BY LenProperties, EmptySeq DEF IInv, TypeOK, Record
<1>2. QED
  BY <1>1, RecordSingleIInv, RecordFinishedIInv, RecordStartedIInv DEF IInv, AgendaSound

-------------------------------------------------------------------------------
\* Delivering, and letting the lock go.

LEMMA DeliverIInv ==
  ASSUME IInv, NEW ok \in BOOLEAN, Deliver(ok)
  PROVE  IInv'
<1> USE DEF IInv
<1>1. /\ cursor \in 1..NumSinks /\ NumSinks \in Nat /\ cursor' = IF cursor = NumSinks THEN 0 ELSE cursor + 1
      /\ UNCHANGED <<events, active, issued, cut, holder, agenda, final, op, own, phase, interrupts>>
  BY DEF Deliver, NextSink, Sinks
<1>2. /\ holder # Free /\ Len(events) \in Nat \ {0}
      /\ heard \in [Sinks -> Seq(Nat)] /\ broken \subseteq Sinks
  BY <1>1, EmptySeq DEF LockHeld, TypeOK
<1>3. /\ broken \subseteq broken'
      /\ \A s \in Sinks \ {cursor} : heard'[s] = heard[s]
      /\ \/ heard'[cursor] = heard[cursor] /\ cursor \in broken'
         \/ heard'[cursor] = Append(heard[cursor], Len(events)) /\ broken' = broken
      /\ heard' \in [Sinks -> Seq(Nat)] /\ broken' \subseteq Sinks
  <2>1. cursor \in Sinks /\ heard[cursor] \in Seq(Nat)
    BY <1>1, <1>2 DEF Sinks
  <2>2. Append(heard[cursor], Len(events)) \in Seq(Nat)
    BY <1>2, <2>1, AppendProperties
  <2>3. CASE cursor \in broken
    BY <1>2, <2>1, <2>3 DEF Deliver
  <2>4. CASE cursor \notin broken /\ ok
    BY <1>2, <2>1, <2>2, <2>4 DEF Deliver
  <2>5. CASE cursor \notin broken /\ ~ok
    BY <1>2, <2>1, <2>5 DEF Deliver, Disable
  <2>6. QED
    BY <2>3, <2>4, <2>5
<1>4. TypeOK'
  BY <1>1, <1>3 DEF TypeOK
<1> DEFINE After(n, s) == n < Len(events) \/ (n = Len(events) /\ (cursor' = 0 \/ s < cursor'))
<1>5. ASSUME NEW s \in Sinks, NEW n \in 1..Len(events)
      PROVE  /\ Served(n, s) => After(n, s)
             /\ s # cursor => (After(n, s) => Served(n, s))
             /\ After(n, s) /\ ~Served(n, s) => n = Len(events)
             /\ Served(n, cursor) => n < Len(events)
  <2>1. s \in Nat /\ s <= NumSinks /\ n \in Nat /\ n <= Len(events)
    BY <1>1, <1>2 DEF Sinks
  <2>2. CASE cursor = NumSinks
    BY <1>1, <1>2, <2>1, <2>2 DEF Served
  <2>3. CASE cursor # NumSinks
    BY <1>1, <1>2, <2>1, <2>3 DEF Served
  <2>4. QED
    BY <2>2, <2>3
<1>6. HeardRecorded'
  <2> SUFFICES ASSUME NEW s \in Sinks
               PROVE  /\ \A m, n \in 1..Len(heard'[s]) : m < n => heard'[s][m] < heard'[s][n]
                      /\ \A m \in 1..Len(heard'[s]) :
                           heard'[s][m] \in 1..Len(events) /\ After(heard'[s][m], s)
                      /\ s \notin broken' => \A n \in 1..Len(events) :
                           After(n, s) => Contains(heard'[s], n) \/ <<n, s>> \in cut
    BY <1>1 DEF HeardRecorded, Served
  <2> HIDE DEF After
  <2>0. \A m \in 1..Len(heard[s]) : heard[s][m] \in 1..Len(events) /\ After(heard[s][m], s)
    BY <1>5 DEF HeardRecorded
  <2>1. CASE heard'[s] = heard[s] /\ s # cursor
    <3>1. s \notin broken => \A n \in 1..Len(events) :
            After(n, s) => Contains(heard[s], n) \/ <<n, s>> \in cut
      BY <1>5, <2>1 DEF HeardRecorded
    <3>2. QED
      BY <1>3, <2>0, <2>1, <3>1 DEF HeardRecorded
  <2>2. CASE heard'[s] = heard[s] /\ s \in broken'
    BY <2>0, <2>2 DEF HeardRecorded
  <2>3. CASE s = cursor /\ heard'[s] = Append(heard[s], Len(events)) /\ broken' = broken
    <3> DEFINE h == heard[s]
    <3>1. h \in Seq(Nat) /\ Len(h) \in Nat
      BY <1>2, LenProperties
    <3>2. /\ Len(heard'[s]) = Len(h) + 1 /\ heard'[s][Len(h) + 1] = Len(events)
          /\ \A m \in 1..Len(h) : heard'[s][m] = h[m]
      BY <1>2, <2>3, <3>1, AppendProperties
    <3>3. \A m \in 1..Len(h) : h[m] \in 1..Len(events) /\ h[m] < Len(events) /\ After(h[m], s)
      BY <1>2, <1>5, <2>3 DEF HeardRecorded
    <3>4. \A m, n \in 1..Len(h) : m < n => h[m] < h[n]
      BY DEF HeardRecorded
    <3> HIDE DEF h
    <3>5. \A m \in 1..Len(heard'[s]) : m \in 1..Len(h) \/ m = Len(h) + 1
      BY <3>1, <3>2
    <3>6. \A m, n \in 1..Len(heard'[s]) : m < n => heard'[s][m] < heard'[s][n]
      <4>1. ASSUME NEW m \in 1..Len(heard'[s]), NEW n \in 1..Len(heard'[s]), m < n
            PROVE  heard'[s][m] < heard'[s][n]
        <5>1. m \in 1..Len(h)
          BY <3>1, <3>2, <4>1
        <5>2. CASE n \in 1..Len(h)
          BY <3>2, <3>4, <4>1, <5>1, <5>2
        <5>3. CASE n = Len(h) + 1
          BY <3>2, <3>3, <5>1, <5>3
        <5>4. QED
          BY <3>5, <5>2, <5>3
      <4>2. QED
        BY <4>1
    <3>7. \A m \in 1..Len(heard'[s]) : heard'[s][m] \in 1..Len(events) /\ After(heard'[s][m], s)
      <4>1. ASSUME NEW m \in 1..Len(heard'[s])
            PROVE  heard'[s][m] \in 1..Len(events) /\ After(heard'[s][m], s)
        <5>1. CASE m \in 1..Len(h)
          BY <3>2, <3>3, <5>1
        <5>2. CASE m = Len(h) + 1
          <6>1. Len(events) \in 1..Len(events) /\ After(Len(events), s)
            BY <1>1, <1>2, <2>3 DEF After
          <6>2. QED
            BY <3>2, <5>2, <6>1
        <5>3. QED
          BY <3>5, <5>1, <5>2
      <4>2. QED
        BY <4>1
    <3>8. ASSUME s \notin broken, NEW n \in 1..Len(events), After(n, s)
          PROVE  Contains(heard'[s], n) \/ <<n, s>> \in cut
      <4>1. CASE Served(n, s)
        <5>1. (\E m \in 1..Len(h) : h[m] = n) \/ <<n, s>> \in cut
          BY <3>8, <4>1 DEF HeardRecorded, Contains, h
        <5>2. \A m \in 1..Len(h) : m \in 1..Len(heard'[s])
          BY <3>1, <3>2
        <5>3. QED
          BY <3>2, <5>1, <5>2 DEF Contains
      <4>2. CASE ~Served(n, s)
        <5>1. n = Len(events) /\ Len(h) + 1 \in 1..Len(heard'[s])
          <6>1. n = Len(events)
            BY <1>5, <3>8, <4>2
          <6>2. Len(h) + 1 \in 1..Len(heard'[s])
            BY <3>1, <3>2
          <6>3. QED
            BY <6>1, <6>2
        <5>2. QED
          BY <3>2, <5>1 DEF Contains
      <4>3. QED
        BY <4>1, <4>2
    <3>9. QED
      BY <2>3, <3>6, <3>7, <3>8
  <2>4. QED
    BY <1>3, <2>1, <2>2, <2>3
<1>7. LockHeld' /\ AgendaSound' /\ StartOwed' /\ FinalizationOwed'
  BY <1>1, <1>2 DEF LockHeld, AgendaSound, StartOwed, FinalizationOwed
<1>8. EventsPaired' /\ ActiveUnfinished' /\ CallsAreOwn'
  BY <1>1 DEF EventsPaired, ActiveUnfinished, Finished, CallsAreOwn
<1>9. StartsAreBounded' /\ FinalSettled'
  BY <1>1 DEF StartsAreBounded, Pending, FinalSettled
<1>10. QED
  BY <1>4, <1>6, <1>7, <1>8, <1>9

\* The holder lets the lock go: its call returns, or is given up.
LEMMA ReleaseIInv ==
  ASSUME IInv, NEW t \in Tasks, holder = t, op' = [op EXCEPT ![t] = NoOp],
         NEW p \in Phases, phase' = [phase EXCEPT ![t] = p],
         own' \in [Tasks -> SUBSET (1..issued)],
         \A u \in Tasks \ {t} : own'[u] = own[u],
         holder' = Free, agenda' = <<>>, cursor' = 0,
         UNCHANGED <<events, active, issued, heard, broken>>,
         cut' \subseteq (Nat \X Sinks), interrupts' \in 0..MaxInterrupts, final' \in BOOLEAN,
         FinalSettled', HeardRecorded'
  PROVE  IInv'
<1> USE DEF IInv
<1>1. TypeOK'
  <2>1. NoOp \in Records
    BY SingleEvents, EventsAreRecords DEF Kinds
  <2>2. own' \in [Tasks -> SUBSET (1..MaxInvocations)]
    <3>1. 1..issued \subseteq 1..MaxInvocations
      BY DEF TypeOK
    <3>2. QED
      BY <3>1
  <2>3. agenda' \in Seq(Records) /\ cursor' \in 0..NumSinks
    BY EmptySeq
  <2>4. QED
    BY <2>1, <2>2, <2>3 DEF TypeOK
<1>2. EventsPaired' /\ ActiveUnfinished'
  BY PairsUndisturbed
<1>3. CallsAreOwn'
  BY DEF CallsAreOwn, TypeOK
<1>4. LockHeld' /\ AgendaSound' /\ FinalizationOwed'
  BY DEF LockHeld, AgendaSound, FinalizationOwed
<1>5. StartOwed'
  BY TasksFinite, EventsDiffer, SingleEvents DEF StartOwed, TypeOK
<1>6. StartsAreBounded'
  <2>1. Pending' \subseteq Pending
    BY EventsDiffer, SingleEvents DEF Pending, TypeOK
  <2>2. QED
    BY <2>1, PendingKept
<1>7. QED
  BY <1>1, <1>2, <1>3, <1>4, <1>5, <1>6

LEMMA CompleteIInv ==
  ASSUME IInv, Complete
  PROVE  IInv'
<1> USE DEF IInv
<1>1. /\ holder \in Tasks /\ holder # Free /\ cursor = 0 /\ agenda = <<>>
      /\ final' = (final \/ op[holder] = Terminal) /\ holder' = Free
      /\ Returned(holder, op[holder])
      /\ UNCHANGED <<events, active, issued, heard, broken, cut, agenda, cursor, interrupts>>
  BY DEF Complete, book, TypeOK
<1>2. own' \in [Tasks -> SUBSET (1..issued)] /\ \A u \in Tasks \ {holder} : own'[u] = own[u]
  <2>1. op[holder].kind = "started" => op[holder].inv \in 1..issued
    BY <1>1, EmptySeq DEF StartOwed
  <2>2. own[holder] \subseteq 1..issued /\ own \in [Tasks -> SUBSET (1..issued)]
    BY <1>1 DEF CallsAreOwn, TypeOK
  <2> DEFINE o == CASE op[holder].kind = "finished" -> own[holder] \ {op[holder].inv}
                    [] op[holder].kind = "started"  -> own[holder] \cup {op[holder].inv}
                    [] OTHER -> own[holder]
  <2>3. own' = [own EXCEPT ![holder] = o]
    BY <1>1 DEF Returned
  <2>4. o \subseteq 1..issued
    BY <2>1, <2>2
  <2> HIDE DEF o
  <2>5. QED
    BY <1>1, <2>2, <2>3, <2>4
<1>3. PICK p \in Phases : /\ phase' = [phase EXCEPT ![holder] = p]
                          /\ op[holder] = Terminal => p = "done"
  <2> DEFINE p == CASE op[holder].kind = "run_started" -> "working"
                    [] op[holder].kind = "terminal" -> "done"
                    [] OTHER -> phase[holder]
  <2>1. phase' = [phase EXCEPT ![holder] = p]
    BY <1>1 DEF Returned
  <2>2. p \in Phases
    BY <1>1 DEF TypeOK, Phases
  <2>3. op[holder] = Terminal => p = "done"
    BY EventsDiffer, SingleEvents
  <2> HIDE DEF p
  <2>4. QED
    BY <2>1, <2>2, <2>3
<1>4. op' = [op EXCEPT ![holder] = NoOp] /\ final' \in BOOLEAN
  BY <1>1 DEF Returned, TypeOK
<1>5. HeardRecorded'
  BY <1>1 DEF HeardRecorded, Served
<1>6. FinalSettled'
  <2> SUFFICES ASSUME op[holder] = Terminal
               PROVE  /\ active = <<>> /\ events # <<>> /\ Last(events) = Terminal
                      /\ phase'[Run] = "done" /\ op'[Run] = NoOp
    BY <1>1 DEF FinalSettled
  <2>1. holder = Run
    BY <1>1, CallKinds, EventsDiffer, SingleEvents
  <2>2. QED
    BY <1>1, <1>3, <1>4, <2>1 DEF FinalizationOwed, TypeOK
<1>7. QED
  BY <1>1, <1>2, <1>3, <1>4, <1>5, <1>6, ReleaseIInv DEF TypeOK

LEMMA InterruptIInv ==
  ASSUME IInv, NEW t \in Tasks, Interrupt(t)
  PROVE  IInv'
<1> USE DEF IInv
<1>1. /\ op' = [op EXCEPT ![t] = NoOp] /\ phase' = [phase EXCEPT ![t] = AfterInterrupt(t)]
      /\ interrupts' \in 0..MaxInterrupts /\ phase[t] # "done"
      /\ UNCHANGED <<events, active, issued, heard, broken, final, own>>
  BY DEF Interrupt, TypeOK
<1>2. AfterInterrupt(t) \in Phases
  BY DEF AfterInterrupt, Phases
<1>3. own' \in [Tasks -> SUBSET (1..issued)]
  BY <1>1 DEF TypeOK, CallsAreOwn
<1>4. t = Run => ~final
  BY <1>1 DEF FinalSettled
<1>5. CASE holder # t
  <2>1. UNCHANGED <<book, writing>>
    BY <1>1, <1>5 DEF Interrupt, book
  <2>2. QED
    BY <1>1, <1>2, <1>3, <1>4, <1>5, <2>1, CallOverIInv
<1>6. CASE holder = t
  <2>1. /\ cursor \in Sinks /\ holder' = Free /\ agenda' = <<>> /\ cursor' = 0
        /\ cut' = cut \cup {<<Len(events), s>> : s \in cursor..NumSinks}
    BY <1>6 DEF Interrupt
  <2>2. cut' \subseteq (Nat \X Sinks)
    BY <2>1, LenProperties DEF TypeOK, Sinks
  <2>3. ~final
    BY <1>6, TasksFinite DEF FinalSettled
  <2>4. FinalSettled'
    BY <1>1, <2>3 DEF FinalSettled
  <2>5. HeardRecorded'
    <3> SUFFICES ASSUME NEW s \in Sinks
                 PROVE  /\ \A m, n \in 1..Len(heard[s]) : m < n => heard[s][m] < heard[s][n]
                        /\ \A m \in 1..Len(heard[s]) :
                             heard[s][m] \in 1..Len(events) /\ Served(heard[s][m], s)'
                        /\ s \notin broken => \A n \in 1..Len(events) :
                             Contains(heard[s], n) \/ <<n, s>> \in cut'
      BY <1>1 DEF HeardRecorded
    <3>1. Len(events) \in Nat
      BY LenProperties DEF TypeOK
    <3>2. \A n \in 1..Len(events) : Served(n, s)'
      BY <1>1, <2>1, <3>1 DEF Served
    <3>3. ASSUME s \notin broken, NEW n \in 1..Len(events)
          PROVE  Contains(heard[s], n) \/ <<n, s>> \in cut'
      <4>1. CASE Served(n, s)
        BY <2>1, <3>3, <4>1 DEF HeardRecorded
      <4>2. CASE ~Served(n, s)
        <5>1. n = Len(events) /\ s \in cursor..NumSinks
          BY <2>1, <3>1, <4>2 DEF Served, Sinks
        <5>2. QED
          BY <2>1, <5>1
      <4>3. QED
        BY <4>1, <4>2
    <3>4. \A m \in 1..Len(heard[s]) : heard[s][m] \in 1..Len(events) /\ Served(heard[s][m], s)'
      BY <1>1, <2>1, <3>1 DEF HeardRecorded, Served
    <3>5. QED
      BY <3>3, <3>4 DEF HeardRecorded
  <2>6. final' \in BOOLEAN
    BY <1>1 DEF TypeOK
  <2>7. QED
    BY <1>1, <1>2, <1>3, <1>6, <2>1, <2>2, <2>4, <2>5, <2>6, ReleaseIInv
<1>7. QED
  BY <1>5, <1>6

-------------------------------------------------------------------------------

LEMMA NextIInv == IInv /\ [Next]_vars => IInv'
<1> SUFFICES ASSUME IInv, [Next]_vars PROVE IInv'
  OBVIOUS
<1>1. CASE CallStart \/ CallFinalize \/ BodyRaises
  BY <1>1, CallsIInv, PhasesIInv
<1>2. CASE Writing
  BY <1>2, RecordIInv, DeliverIInv, CompleteIInv DEF Writing
<1>3. ASSUME NEW t \in Tasks, TaskStep(t)
      PROVE  IInv'
  BY <1>3, AcquireIInv, ReturnAtOnceIInv, RefuseStartIInv, CallsIInv, PhasesIInv DEF TaskStep
<1>4. ASSUME NEW t \in Tasks, Interrupt(t)
      PROVE  IInv'
  BY <1>4, InterruptIInv
<1>5. CASE UNCHANGED vars
  <2> USE <1>5 DEF vars, IInv
  <2>1. TypeOK' /\ CallsAreOwn' /\ StartsAreBounded'
    BY DEF TypeOK, CallsAreOwn, StartsAreBounded, Pending
  <2>2. LockHeld' /\ AgendaSound' /\ StartOwed' /\ FinalizationOwed' /\ FinalSettled' /\ HeardRecorded'
    BY DEF LockHeld, AgendaSound, StartOwed, FinalizationOwed, FinalSettled, HeardRecorded, Served
  <2>3. EventsPaired' /\ ActiveUnfinished'
    BY DEF EventsPaired, ActiveUnfinished, Finished
  <2>4. QED
    BY <2>1, <2>2, <2>3
<1>6. QED
  BY <1>1, <1>2, <1>3, <1>4, <1>5 DEF Next

\* The inductive invariant holds in every reachable state.
THEOREM Inductive == Spec => []IInv
<1>1. QED
  BY InitIInv, NextIInv, PTL DEF Spec

\* Every variable keeps its type.
THEOREM TypeCorrect == Spec => []TypeOK
<1>1. QED
  BY Inductive, PTL DEF IInv

LEMMA IInvPairs == IInv => StartsAreFinishedOnce
<1> SUFFICES ASSUME IInv PROVE StartsAreFinishedOnce
  OBVIOUS
<1> USE DEF IInv
<1>1. ASSUME NEW i \in 1..issued
      PROVE  \E n \in 1..Len(events) :
               /\ At(Event("started", i)) = {n}
               /\ \/ At(Event("finished", i)) = {} /\ Contains(active, i)
                  \/ \E m \in n + 1..Len(events) : At(Event("finished", i)) = {m}
  <2>1. PICK n \in 1..Len(events) : events[n] = Event("started", i)
    BY DEF EventsPaired
  <2>2. At(Event("started", i)) = {n}
    BY <2>1, SingleEvents DEF EventsPaired, At
  <2>3. CASE ~Finished(i)
    <3>1. At(Event("finished", i)) = {} /\ Contains(active, i)
      BY <2>3 DEF ActiveUnfinished, Finished, At
    <3>2. QED
      BY <2>2, <3>1
  <2>4. CASE Finished(i)
    <3>1. PICK m \in 1..Len(events) : events[m] = Event("finished", i)
      BY <2>4 DEF Finished
    <3>2. At(Event("finished", i)) = {m}
      BY <3>1, SingleEvents DEF EventsPaired, At
    <3>3. n < m
      BY <2>1, <3>1 DEF EventsPaired
    <3>4. m \in n + 1..Len(events)
      BY <3>3, LenProperties DEF TypeOK
    <3>5. QED
      BY <2>2, <3>2, <3>4
  <2>5. QED
    BY <2>3, <2>4
<1>2. final => active = <<>> /\ Last(events) = Terminal
  BY DEF FinalSettled
<1>3. QED
  BY <1>1, <1>2 DEF StartsAreFinishedOnce

\* For every number of populations, sinks and cancellations: an invocation that was started is
\* finished once and later, in a final trace without exception, and every sink accepts what is
\* recorded in one order, without a gap it has not failed or been cut off for (tracing.py).
THEOREM TraceStaysOrderly == Spec => []TraceIsOrderly
<1>1. IInv => TraceIsOrderly
  <2>1. IInv => SinksHearInOrder
    BY DEF IInv, HeardRecorded, SinksHearInOrder
  <2>2. QED
    BY <2>1, IInvPairs DEF TraceIsOrderly, IInv
<1>2. QED
  BY <1>1, Inductive, PTL

\* Nobody writes to a trace once it is final: neither the run nor a population that
\* outlives it (tracing.py finish and start_invocation).
THEOREM FinalTraceStaysFrozen == Spec => FinalTraceIsFrozen
<1>1. IInv /\ [Next]_vars => [final => final' /\ UNCHANGED events]_vars
  <2> SUFFICES ASSUME IInv, Next, final PROVE final' /\ UNCHANGED events
    BY DEF vars
  <2>1. holder = Free /\ holder \notin Tasks /\ cursor = 0
    BY TasksFinite DEF IInv, FinalSettled, LockHeld
  <2>2. ~Writing
    BY <2>1 DEF Writing, Record, Deliver, Complete, Sinks
  <2>3. CASE CallStart \/ CallFinalize \/ BodyRaises
    BY <2>3 DEF CallStart, CallFinalize, BodyRaises, Request, book
  <2>4. ASSUME NEW t \in Tasks, TaskStep(t) \/ Interrupt(t)
        PROVE  final' /\ UNCHANGED events
    BY <2>4 DEF TaskStep, Acquire, ReturnAtOnce, RefuseStart, CallStartInvocation, CallFinish,
                PopulationEnds, Interrupt, Request, book
  <2>5. QED
    BY <2>2, <2>3, <2>4 DEF Next
<1>2. QED
  BY <1>1, Inductive, PTL DEF Spec, FinalTraceIsFrozen

-----------------------------------------------------------------------------
\* What travels through the file sink: lines, known by their run and number.
SinkLines == (Runs \X Nat) \cup {NoLine}
SinkPieces == [line : SinkLines, how : {"written", "torn", "whole"}]
Items == SinkLines \cup {Stop}
Waiters == Runs \cup {Stop}

\* The types of the file sink's state.
JsonlTypes ==
  /\ overflow \in {"drop_new", "block"}
  /\ queue \in Seq(Items) /\ putters \in Seq(Waiters) /\ woken \subseteq Waiters
  /\ putting \in [Runs -> SinkLines]
  /\ writer \in {"none", "running", "done"}
  /\ closing \in {"no", "asked", "draining", "done"}
  /\ jcloser \in [JsonlClosers -> {"idle", "waiting", "returned"}]
  /\ at \in [Runs -> Nat]
  /\ laid \in Seq(SinkPieces) /\ disk \in [Generations -> Seq(SinkPieces)]

\* x is somewhere in the sequence s.
Within(x, s) == \E i \in 1..Len(s) : s[i] = x

\* A line that the writer reaches before the stop marker.
Ahead(l, q) == \E i \in 1..Len(q) : q[i] = l /\ \A j \in 1..i : q[j] # Stop
Stored(l) == Within(Piece(l, "written"), laid) \/ l \in failed

\* The marker is put by the close task only.
MarkerFollowsClose ==
  closing \in {"no", "asked"} =>
    ~Within(Stop, queue) /\ ~Within(Stop, putters) /\ Stop \notin woken

\* What was handed over is stored or on its way; what is due, ahead of the marker.
HandedIsKept ==
  /\ closing = "no" => \A l \in handed : Stored(l) \/ Ahead(l, queue)
  /\ \A l \in due : Stored(l) \/ (writer # "done" /\ Ahead(l, queue))

\* A sink without a writer has taken nothing on; a close returns when it has none or it is done.
WriterIsStarted ==
  /\ writer = "none" =>
       handed = {} /\ woken = {} /\ putters = <<>> /\ closing \in {"no", "done"}
  /\ closing = "done" => due = {} /\ writer = "none"
  /\ writer = "done" => closing = "draining"
  /\ \A c \in JsonlClosers : jcloser[c] = "returned" => closing = "done" \/ writer = "done"

QueueInv == JsonlTypes /\ MarkerFollowsClose /\ HandedIsKept /\ WriterIsStarted

-------------------------------------------------------------------------------
\* The stop marker is none of the lines.
LEMMA StopIsNoLine == Stop \notin SinkLines
<1>1. Len(Stop) = 1 /\ Len(NoLine) = 0
  BY DEF Stop, NoLine
<1>2. \A l \in Runs \X Nat : Len(l) = 2
  OBVIOUS
<1>3. QED
  BY <1>1, <1>2 DEF SinkLines

\* Taking the first of a sequence leaves no more than the rest; what is ahead of the marker
\* stays there.
LEMMA TakenFirst ==
  ASSUME NEW S, NEW q \in Seq(S), q # <<>>
  PROVE  /\ Head(q) \in S /\ Head(q) = q[1] /\ Tail(q) \in Seq(S)
         /\ \A x : Within(x, Tail(q)) => Within(x, q)
         /\ \A l : Ahead(l, q) => Head(q) # Stop /\ (l = Head(q) \/ Ahead(l, Tail(q)))
<1>1. /\ Head(q) \in S /\ Head(q) = q[1] /\ Tail(q) \in Seq(S) /\ Len(q) \in Nat
      /\ Len(Tail(q)) = Len(q) - 1 /\ \A i \in 1..Len(Tail(q)) : Tail(q)[i] = q[i + 1]
  BY HeadTailProperties, LenProperties, ElementOfSeq, EmptySeq
<1>2. ASSUME NEW x, Within(x, Tail(q)) PROVE Within(x, q)
  BY <1>1, <1>2 DEF Within
<1>3. ASSUME NEW l, Ahead(l, q) PROVE Head(q) # Stop /\ (l = Head(q) \/ Ahead(l, Tail(q)))
  <2>1. PICK i \in 1..Len(q) : q[i] = l /\ \A j \in 1..i : q[j] # Stop
    BY <1>3 DEF Ahead
  <2>2. Head(q) # Stop
    BY <1>1, <2>1
  <2>3. CASE i # 1
    <3>1. i - 1 \in 1..Len(Tail(q)) /\ Tail(q)[i - 1] = l
      BY <1>1, <2>1, <2>3
    <3>2. \A j \in 1..(i - 1) : Tail(q)[j] # Stop
      BY <1>1, <2>1, <2>3
    <3>3. QED
      BY <2>2, <3>1, <3>2 DEF Ahead
  <2>4. QED
    BY <1>1, <2>1, <2>2, <2>3
<1>4. QED
  BY <1>1, <1>2, <1>3

\* What is appended comes behind everything, so behind the marker unless there is none.
LEMMA AddedLast ==
  ASSUME NEW S, NEW q \in Seq(S), NEW x \in S
  PROVE  /\ Append(q, x) \in Seq(S)
         /\ \A y : Within(y, Append(q, x)) <=> Within(y, q) \/ y = x
         /\ \A l : Ahead(l, q) => Ahead(l, Append(q, x))
         /\ ~Within(Stop, q) /\ x # Stop => Ahead(x, Append(q, x))
<1>1. /\ Append(q, x) \in Seq(S) /\ Len(q) \in Nat /\ Len(Append(q, x)) = Len(q) + 1
      /\ \A i \in 1..Len(q) : Append(q, x)[i] = q[i]
      /\ Append(q, x)[Len(q) + 1] = x
  BY AppendProperties, LenProperties
<1> DEFINE t == Append(q, x)
<1> HIDE DEF t
<1>2. ASSUME NEW y PROVE Within(y, t) <=> Within(y, q) \/ y = x
  BY <1>1 DEF Within, t
<1>3. ASSUME NEW l, Ahead(l, q) PROVE Ahead(l, t)
  <2>1. PICK i \in 1..Len(q) : q[i] = l /\ \A j \in 1..i : q[j] # Stop
    BY <1>3 DEF Ahead
  <2>2. i \in 1..Len(t) /\ t[i] = l /\ \A j \in 1..i : t[j] # Stop
    BY <1>1, <2>1 DEF t
  <2>3. QED
    BY <2>2 DEF Ahead
<1>4. ASSUME ~Within(Stop, q), x # Stop PROVE Ahead(x, t)
  <2>1. Len(q) + 1 \in 1..Len(t) /\ t[Len(q) + 1] = x /\ \A j \in 1..(Len(q) + 1) : t[j] # Stop
    BY <1>1, <1>4 DEF Within, t
  <2>2. QED
    BY <2>1 DEF Ahead
<1>5. QED
  BY <1>1, <1>2, <1>3, <1>4 DEF t

\* Deque.remove leaves a part of the sequence.
LEMMA WithoutIsPart ==
  ASSUME NEW S, NEW s \in Seq(S), NEW w
  PROVE  /\ Without(s, w) \in Seq(S)
         /\ \A x : Within(x, Without(s, w)) => Within(x, s)
         /\ s = <<>> => Without(s, w) = <<>>
<1>0. Len(s) \in Nat /\ DOMAIN s = 1..Len(s)
  BY LenProperties
<1>a. Len(s) \in Nat
  BY LenProperties
<1>1. CASE \E i \in DOMAIN s : s[i] = w
  <2>1. PICK i \in 1..Len(s) : Without(s, w) = SubSeq(s, 1, i - 1) \o SubSeq(s, i + 1, Len(s))
    BY <1>0, <1>1 DEF Without, RemoveAt
  <2>a. i \in Nat /\ 1 <= i /\ i <= Len(s)
    BY <1>a
  <2> DEFINE a == SubSeq(s, 1, i - 1)
             b == SubSeq(s, i + 1, Len(s))
  <2>2. /\ a \in Seq(S) /\ Len(a) = i - 1 /\ \A j \in 1..Len(a) : a[j] = s[j]
    <3>1. i - 1 \in 0..Len(s) /\ 1 \in 1..(Len(s) + 1)
      BY <1>0
    <3>2. QED
      BY <1>0, <3>1, SubSeqProperties
  <2>3. /\ b \in Seq(S) /\ Len(b) = Len(s) - i /\ \A j \in 1..Len(b) : b[j] = s[j + i]
    <3>1. i + 1 \in 1..(Len(s) + 1) /\ Len(s) \in 0..Len(s)
      BY <1>0
    <3>2. /\ b \in Seq(S) /\ Len(b) = IF i + 1 <= Len(s) THEN Len(s) - (i + 1) + 1 ELSE 0
          /\ \A j \in 1..(Len(s) - (i + 1) + 1) : b[j] = s[(i + 1) + j - 1]
      BY <1>0, <3>1, SubSeqProperties
    <3> HIDE DEF b
    <3>a. Len(b) = IF i + 1 <= Len(s) THEN Len(s) - (i + 1) + 1 ELSE 0
      BY <3>2
    <3>3. Len(b) = Len(s) - i
      BY ONLY <1>a, <2>a, <3>a
    <3>4. ASSUME NEW j \in 1..Len(b) PROVE b[j] = s[j + i]
      <4>1. j \in 1..(Len(s) - (i + 1) + 1) /\ (i + 1) + j - 1 = j + i
        BY <1>0, <3>3
      <4>2. QED
        BY <3>2, <4>1
    <3>5. QED
      BY <3>2, <3>3, <3>4
  <2> HIDE DEF a, b
  <2>4. /\ a \o b \in Seq(S) /\ Len(a \o b) = Len(a) + Len(b)
        /\ \A j \in 1..(Len(a) + Len(b)) : (a \o b)[j] = IF j <= Len(a) THEN a[j] ELSE b[j - Len(a)]
    <3>1. a \in Seq(S) /\ b \in Seq(S)
      BY <2>2, <2>3
    <3>2. QED
      BY ONLY <3>1, ConcatProperties
  <2>5. \A j \in 1..Len(a \o b) : \E k \in 1..Len(s) : (a \o b)[j] = s[k]
    <3> TAKE j \in 1..Len(a \o b)
    <3>1. CASE j <= Len(a)
      BY <1>0, <2>2, <2>3, <2>4, <3>1
    <3>2. CASE j > Len(a)
      <4>1. j - Len(a) \in 1..Len(b) /\ (j - Len(a)) + i \in 1..Len(s)
        BY <1>0, <2>2, <2>3, <2>4, <3>2
      <4>2. (a \o b)[j] = b[j - Len(a)]
        BY <2>2, <2>3, <2>4, <3>2
      <4>3. b[j - Len(a)] = s[(j - Len(a)) + i]
        BY <2>3, <4>1
      <4>4. QED
        BY <4>1, <4>2, <4>3
    <3>3. QED
      BY <1>0, <2>2, <3>1, <3>2
  <2>6. s # <<>>
    BY <1>0, <1>1
  <2>7. Without(s, w) = a \o b
    BY <2>1 DEF a, b
  <2>8. \A x : Within(x, a \o b) => Within(x, s)
    BY <2>5 DEF Within
  <2>9. QED
    BY ONLY <2>4, <2>6, <2>7, <2>8
<1>2. CASE ~ \E i \in DOMAIN s : s[i] = w
  BY <1>2 DEF Without
<1>3. QED
  BY <1>1, <1>2

\* Waking takes who is first out of the line.
LEMMA WakeTypes ==
  ASSUME NEW l \in Seq(Waiters), NEW u \in SUBSET Waiters, Wake(l, u)
  PROVE  /\ putters' \in Seq(Waiters) /\ woken' \subseteq Waiters
         /\ ~Within(Stop, l) /\ Stop \notin u => ~Within(Stop, putters') /\ Stop \notin woken'
         /\ l = <<>> => putters' = <<>> /\ woken' = u
<1>1. CASE l = <<>>
  BY <1>1 DEF Wake
<1>2. CASE l # <<>>
  <2>1. putters' = Tail(l) /\ woken' = u \cup {Head(l)}
    BY <1>2 DEF Wake
  <2>2. Head(l) \in Waiters /\ Tail(l) \in Seq(Waiters) /\ Within(Head(l), l)
        /\ \A x : Within(x, Tail(l)) => Within(x, l)
    <3>1. Len(l) \in Nat /\ Len(l) # 0
      BY <1>2, LenProperties, EmptySeq
    <3>2. QED
      BY <1>2, <3>1, TakenFirst DEF Within
  <2>3. QED
    BY <1>2, <2>1, <2>2
<1>3. QED
  BY <1>1, <1>2

\* Nothing is queued at first.
LEMMA QueueInit == JsonlAssumption /\ SinkInit => QueueInv
<1> SUFFICES ASSUME SinkInit PROVE QueueInv
  OBVIOUS
<1>1. JsonlTypes
  BY EmptySeq DEF SinkInit, JsonlInit, JsonlTypes, SinkLines
<1>2. MarkerFollowsClose /\ HandedIsKept /\ WriterIsStarted
  BY DEF SinkInit, JsonlInit, MarkerFollowsClose, HandedIsKept, WriterIsStarted, Within
<1>3. QED
  BY <1>1, <1>2 DEF QueueInv

\* The line of an event that a builder delivers.
LEMMA OfferKeepsQueue ==
  ASSUME JsonlAssumption, QueueInv, NEW r \in Runs, NEW l \in Runs \X Nat, JsonlOffer(r, l),
         at' \in [Runs -> Nat]
  PROVE  QueueInv'
<1> USE DEF QueueInv, JsonlTypes
<1>0. /\ l \in SinkLines /\ l \in Items /\ l # Stop /\ r \in Waiters /\ r # Stop
  BY StopIsNoLine, JsonlAssumption DEF SinkLines, Items, Waiters
<1>a. /\ Append(queue, l) \in Seq(Items)
      /\ ~Within(Stop, queue) => ~Within(Stop, Append(queue, l)) /\ Ahead(l, Append(queue, l))
      /\ \A k : Ahead(k, queue) => Ahead(k, Append(queue, l))
  BY <1>0, AddedLast
<1>b. /\ Append(putters, r) \in Seq(Waiters)
      /\ ~Within(Stop, putters) => ~Within(Stop, Append(putters, r))
  BY <1>0, AddedLast
<1>1. JsonlTypes'
  <2>1. /\ UNCHANGED <<overflow, woken, closing, jcloser, due, laid, failed, disk>>
        /\ writer' \in {"none", "running", "done"}
        /\ queue' = queue \/ queue' = Append(queue, l)
        /\ putters' = putters \/ putters' = Append(putters, r)
        /\ putting' = putting \/ putting' = [putting EXCEPT ![r] = l]
    BY DEF JsonlOffer
  <2>2. queue' \in Seq(Items)
    BY <1>a, <2>1
  <2>3. putters' \in Seq(Waiters)
    BY <1>b, <2>1
  <2>4. putting' \in [Runs -> SinkLines]
    BY <1>0, <2>1
  <2>5. QED
    BY <2>1, <2>2, <2>3, <2>4
<1>2. MarkerFollowsClose'
  BY <1>a, <1>b DEF JsonlOffer, MarkerFollowsClose
<1>3. HandedIsKept'
  <2>0. CASE closing # "no"
    BY <2>0 DEF JsonlOffer, HandedIsKept, Stored
  <2>1. CASE closing = "no" /\ Full
    <3>1. UNCHANGED <<queue, handed, due, laid, failed, closing>> /\ writer' # "done"
      BY <2>1 DEF JsonlOffer, WriterIsStarted
    <3>2. QED
      BY <3>1 DEF HandedIsKept, Stored
  <2>2. CASE closing = "no" /\ ~Full
    <3>1. /\ queue' = Append(queue, l) /\ handed' = handed \cup {l} /\ writer' # "done"
          /\ UNCHANGED <<due, laid, failed, closing>>
      BY <2>2 DEF JsonlOffer, WriterIsStarted
    <3>2. Ahead(l, queue') /\ \A k : Ahead(k, queue) => Ahead(k, queue')
      BY <1>a, <2>2, <3>1 DEF MarkerFollowsClose
    <3>3. QED
      BY <2>2, <3>1, <3>2 DEF HandedIsKept, Stored
  <2>3. QED
    BY <2>0, <2>1, <2>2
<1>4. WriterIsStarted'
  BY DEF JsonlOffer, WriterIsStarted
<1>5. QED
  BY <1>1, <1>2, <1>3, <1>4

\* A woken emit puts its line or waits again.
LEMMA ResumeKeepsQueue ==
  ASSUME JsonlAssumption, QueueInv, NEW r \in Runs, JsonlResume(r), UNCHANGED at
  PROVE  QueueInv'
<1> USE DEF QueueInv, JsonlTypes
<1>0. /\ putting[r] \in SinkLines /\ putting[r] \in Items /\ putting[r] # Stop
      /\ r \in Waiters /\ r # Stop /\ NoLine \in SinkLines
  BY StopIsNoLine, JsonlAssumption DEF SinkLines, Items, Waiters
<1>a. /\ Append(queue, putting[r]) \in Seq(Items)
      /\ ~Within(Stop, queue) =>
           ~Within(Stop, Append(queue, putting[r])) /\ Ahead(putting[r], Append(queue, putting[r]))
      /\ \A k : Ahead(k, queue) => Ahead(k, Append(queue, putting[r]))
  BY <1>0, AddedLast
<1>b. /\ Append(putters, r) \in Seq(Waiters)
      /\ ~Within(Stop, putters) => ~Within(Stop, Append(putters, r))
  BY <1>0, AddedLast
<1>1. /\ r \in woken /\ woken' = woken \ {r} /\ putting' \in [Runs -> SinkLines]
      /\ UNCHANGED <<overflow, writer, closing, jcloser, due, laid, failed, dropped, late, disk>>
  BY <1>0 DEF JsonlResume, Resume
<1>2. \/ putters' = Append(putters, r) /\ queue' = queue /\ handed' = handed
      \/ /\ queue' = Append(queue, putting[r]) /\ putters' = putters
         /\ handed' = handed \cup {putting[r]}
  BY DEF JsonlResume, Resume
<1>3. JsonlTypes'
  BY <1>0, <1>a, <1>b, <1>1, <1>2
<1>4. MarkerFollowsClose'
  BY <1>0, <1>a, <1>b, <1>1, <1>2 DEF MarkerFollowsClose
<1>5. HandedIsKept'
  <2>1. CASE queue' = queue /\ handed' = handed
    BY <1>1, <2>1 DEF HandedIsKept, Stored
  <2>2. CASE queue' = Append(queue, putting[r]) /\ handed' = handed \cup {putting[r]}
    <3>1. \A k : Ahead(k, queue) => Ahead(k, queue')
      BY <1>a, <2>2
    <3>2. closing = "no" => Ahead(putting[r], queue')
      BY <1>a, <2>2 DEF MarkerFollowsClose
    <3>3. QED
      BY <1>1, <2>2, <3>1, <3>2 DEF HandedIsKept, Stored
  <2>3. QED
    BY <1>2, <2>1, <2>2
<1>6. WriterIsStarted'
  BY <1>1, <1>2 DEF WriterIsStarted
<1>7. QED
  BY <1>3, <1>4, <1>5, <1>6

\* An emit that gives up takes no line out of the queue.
LEMMA GiveUpKeepsQueue ==
  ASSUME JsonlAssumption, QueueInv, NEW r \in Runs, JsonlGiveUp(r), UNCHANGED at
  PROVE  QueueInv'
<1> USE DEF QueueInv, JsonlTypes
<1> DEFINE others == Without(putters, r)
<1>1. /\ UNCHANGED <<overflow, queue, writer, closing, jcloser, accounts, disk>>
      /\ putting' = [putting EXCEPT ![r] = NoLine]
      /\ Wake(others, woken \ {r}) \/ (putters' = others /\ woken' = woken \ {r})
  BY DEF JsonlGiveUp
<1>2. /\ others \in Seq(Waiters) /\ \A x : Within(x, others) => Within(x, putters)
      /\ putters = <<>> => others = <<>>
  BY WithoutIsPart
<1> HIDE DEF others
<1>3. /\ putters' \in Seq(Waiters) /\ woken' \subseteq Waiters
      /\ ~Within(Stop, putters) /\ Stop \notin woken =>
           ~Within(Stop, putters') /\ Stop \notin woken'
      /\ putters = <<>> /\ woken = {} => putters' = <<>> /\ woken' = {}
  BY <1>1, <1>2, WakeTypes
<1>4. JsonlTypes'
  BY <1>1, <1>3 DEF SinkLines, accounts
<1>5. MarkerFollowsClose' /\ HandedIsKept' /\ WriterIsStarted'
  BY <1>1, <1>3 DEF MarkerFollowsClose, HandedIsKept, WriterIsStarted, Stored, accounts
<1>6. QED
  BY <1>4, <1>5

\* Putting the marker behind the lines keeps what is ahead of it.
LEMMA MarkerBehind ==
  ASSUME QueueInv, closing' = closing \/ closing' # "no",
         UNCHANGED <<writer, handed, due, laid, failed>>,
         queue' = queue \/ queue' = Append(queue, Stop)
  PROVE  HandedIsKept'
<1>1. \A k : Ahead(k, queue) => Ahead(k, queue')
  <2>1. queue \in Seq(Items) /\ Stop \in Items
    BY DEF QueueInv, JsonlTypes, Items
  <2>2. \A k : Ahead(k, queue) => Ahead(k, Append(queue, Stop))
    BY ONLY <2>1, AddedLast
  <2>3. QED
    BY <2>2
<1>2. \A k : Stored(k)' <=> Stored(k)
  BY DEF Stored
<1>3. HandedIsKept
  BY DEF QueueInv
<1>4. closing' = "no" => \A k \in handed' : Stored(k)' \/ Ahead(k, queue')
  BY <1>1, <1>2, <1>3 DEF HandedIsKept
<1>5. \A k \in due' : Stored(k)' \/ (writer' # "done" /\ Ahead(k, queue'))
  BY <1>1, <1>2, <1>3 DEF HandedIsKept
<1>6. QED
  BY <1>4, <1>5 DEF HandedIsKept

\* Closing fixes what is due; the marker comes behind it.
LEMMA CloseKeepsQueue ==
  ASSUME JsonlAssumption, QueueInv, UNCHANGED at,
         \/ \E c \in JsonlClosers : JsonlClose(c) \/ JsonlCloseReturns(c)
         \/ PutStop \/ ResumeStop
  PROVE  QueueInv'
<1> USE DEF QueueInv, JsonlTypes
<1>0. Stop \in Items /\ Stop \in Waiters
  BY DEF Items, Waiters
<1>a. Append(queue, Stop) \in Seq(Items) /\ \A k : Ahead(k, queue) => Ahead(k, Append(queue, Stop))
  BY <1>0, AddedLast
<1>b. Append(putters, Stop) \in Seq(Waiters)
  BY <1>0, AddedLast
<1> USE <1>a, <1>b
<1>1. ASSUME NEW c \in JsonlClosers, JsonlClose(c) PROVE QueueInv'
  <2>1. /\ UNCHANGED <<overflow, queue, putters, woken, putting, writer, handed, laid, failed, disk>>
        /\ \/ closing = "no" /\ due' = handed
              /\ closing' = IF writer = "none" THEN "done" ELSE "asked"
           \/ closing # "no" /\ due' = due /\ closing' = closing
        /\ jcloser' = [jcloser EXCEPT ![c] = IF closing' = "done" THEN "returned" ELSE "waiting"]
    BY <1>1 DEF JsonlClose
  <2>2. JsonlTypes' /\ MarkerFollowsClose'
    BY <2>1 DEF MarkerFollowsClose
  <2>3. HandedIsKept' /\ WriterIsStarted'
    BY <2>1 DEF HandedIsKept, WriterIsStarted, Stored
  <2>4. QED
    BY <2>2, <2>3
<1>2. ASSUME NEW c \in JsonlClosers, JsonlCloseReturns(c) PROVE QueueInv'
  <2>1. JsonlTypes' /\ MarkerFollowsClose'
    BY <1>2 DEF JsonlCloseReturns, MarkerFollowsClose, accounts
  <2>2. HandedIsKept' /\ WriterIsStarted'
    BY <1>2 DEF JsonlCloseReturns, HandedIsKept, WriterIsStarted, Stored, accounts
  <2>3. QED
    BY <2>1, <2>2
<1>3. ASSUME PutStop PROVE QueueInv'
  <2>1. JsonlTypes' /\ MarkerFollowsClose'
    BY <1>0, <1>3 DEF PutStop, MarkerFollowsClose, accounts
  <2>2. /\ UNCHANGED <<writer, jcloser, handed, due, laid, failed, woken>>
        /\ closing = "asked" /\ closing' = "draining"
        /\ queue' = queue \/ queue' = Append(queue, Stop)
    BY <1>3 DEF PutStop, accounts
  <2>3. HandedIsKept'
    BY <2>2, MarkerBehind
  <2>4. WriterIsStarted'
    BY <2>2 DEF WriterIsStarted
  <2>5. QED
    BY <2>1, <2>3, <2>4
<1>4. ASSUME ResumeStop PROVE QueueInv'
  <2>1. JsonlTypes' /\ MarkerFollowsClose'
    BY <1>0, <1>4 DEF ResumeStop, Resume, MarkerFollowsClose, accounts
  <2>2. /\ UNCHANGED <<writer, closing, jcloser, handed, due, laid, failed>> /\ Stop \in woken
        /\ queue' = queue \/ queue' = Append(queue, Stop)
    BY <1>4 DEF ResumeStop, Resume, accounts
  <2>3. HandedIsKept'
    BY <2>2, MarkerBehind
  <2>4. WriterIsStarted'
    BY <2>2 DEF WriterIsStarted
  <2>5. QED
    BY <2>1, <2>3, <2>4
<1>5. QED
  BY <1>1, <1>2, <1>3, <1>4

\* What the writer takes is stored, unless it is the marker.
LEMMA WriterKeepsQueue ==
  ASSUME JsonlAssumption, QueueInv, JsonlWriter, UNCHANGED at,
         disk' \in [Generations -> Seq(SinkPieces)]
  PROVE  QueueInv'
<1> USE DEF QueueInv, JsonlTypes
<1>0. PICK h : h = Head(queue)
  OBVIOUS
<1>1. /\ queue # <<>> /\ writer = "running" /\ queue' = Tail(queue) /\ Wake(putters, woken)
      /\ UNCHANGED <<overflow, putting, closing, jcloser, handed, due>>
      /\ \/ /\ h # Stop /\ laid' = Append(laid, Piece(h, "written"))
            /\ failed' = failed /\ writer' = writer
         \/ /\ h # Stop /\ failed' = failed \cup {h} /\ writer' = writer
            /\ laid' = laid \/ \E how \in {"torn", "whole"} : laid' = Append(laid, Piece(h, how))
         \/ h = Stop /\ laid' = laid /\ failed' = failed /\ writer' = "done"
  BY <1>0 DEF JsonlWriter, WriteLine, WriteFails, WriterStops, Take, Lay, accounts
<1>2. /\ h \in Items /\ queue' \in Seq(Items)
      /\ Within(Stop, queue') => Within(Stop, queue)
      /\ h = queue[1]
      /\ \A l : Ahead(l, queue) => h # Stop /\ (l = h \/ Ahead(l, queue'))
  BY <1>0, <1>1, TakenFirst
<1>3. /\ putters' \in Seq(Waiters) /\ woken' \subseteq Waiters
      /\ ~Within(Stop, putters) /\ Stop \notin woken =>
           ~Within(Stop, putters') /\ Stop \notin woken'
  BY <1>1, WakeTypes
<1>4. \A how \in {"written", "torn", "whole"} : h # Stop => Piece(h, how) \in SinkPieces
  BY <1>2 DEF Items, Piece, SinkPieces
<1>5. /\ laid' \in Seq(SinkPieces) /\ \A x : Within(x, laid) => Within(x, laid')
      /\ laid' = Append(laid, Piece(h, "written")) /\ h # Stop => Within(Piece(h, "written"), laid')
  <2>1. ASSUME NEW how \in {"written", "torn", "whole"}, h # Stop,
               laid' = Append(laid, Piece(h, how))
        PROVE  /\ laid' \in Seq(SinkPieces) /\ \A x : Within(x, laid) => Within(x, laid')
               /\ Within(Piece(h, how), laid')
    BY <1>4, <2>1, AddedLast
  <2>2. CASE laid' = laid /\ h = Stop
    BY <2>2
  <2>3. CASE laid' = laid /\ failed' = failed \cup {h} /\ h # Stop
    <3>1. laid' = Append(laid, Piece(h, "written")) => Within(Piece(h, "written"), laid')
      BY <2>1, <2>3
    <3>2. QED
      BY <2>3, <3>1
  <2>4. QED
    BY <1>1, <2>1, <2>2, <2>3
<1>5b. \A l : Stored(l) => Stored(l)'
  BY <1>1, <1>5 DEF Stored
<1>6. h # Stop => Stored(h)'
  BY <1>1, <1>5 DEF Stored
<1>7. JsonlTypes'
  BY <1>1, <1>2, <1>3, <1>5
<1>8. h = Stop => closing = "draining"
  <2>1. h = Stop => Within(Stop, queue)
    <3>1. Len(queue) \in Nat /\ Len(queue) # 0
      BY <1>1, EmptySeq, LenProperties
    <3>2. 1 \in 1..Len(queue)
      BY <3>1
    <3>3. QED
      BY <1>2, <3>2 DEF Within
  <2>2. QED
    BY <1>1, <2>1 DEF MarkerFollowsClose, WriterIsStarted
<1>9. MarkerFollowsClose'
  BY <1>1, <1>2, <1>3 DEF MarkerFollowsClose
<1>10. HandedIsKept'
  <2>1. ASSUME NEW l, Stored(l) \/ Ahead(l, queue)
        PROVE  Stored(l)' \/ (writer' # "done" /\ Ahead(l, queue'))
    BY <1>1, <1>2, <1>5b, <1>6, <2>1
  <2>2. QED
    BY <1>1, <2>1 DEF HandedIsKept
<1>11. WriterIsStarted'
  BY <1>1, <1>8 DEF WriterIsStarted
<1>12. QED
  BY <1>7, <1>9, <1>10, <1>11

-------------------------------------------------------------------------------
\* The files are consecutive pieces of what was put into them: generation g holds what lies
\* between two cuts.
Marks == 0 .. (RotationCount + 1)
Cuts(off, d, w) ==
  /\ off \in [Marks -> 0..Len(w)]
  /\ off[0] = Len(w)
  /\ \A g, h \in Marks : g <= h => off[h] <= off[g]
  /\ \A g \in Generations : d[g] = SubSeq(w, off[g + 1] + 1, off[g])

\* An older generation that has lines behind it is full.
Filled(off) == \A g \in 1..RotationCount : off[g] # 0 => off[g] - off[g + 1] >= RotationLines

FilesAreConsecutive ==
  \E off : /\ Cuts(off, disk, laid)
           /\ failed = {} => Filled(off) /\ (laid # <<>> => off[1] < off[0])

Files == [Generations -> Seq(SinkPieces)]

\* The lines between two cuts.
LEMMA PieceProperties ==
  ASSUME NEW w \in Seq(SinkPieces), NEW m \in 0..Len(w), NEW n \in 0..Len(w), m <= n
  PROVE  /\ SubSeq(w, m + 1, n) \in Seq(SinkPieces)
         /\ Len(SubSeq(w, m + 1, n)) = n - m
         /\ \A i \in 1..(n - m) : SubSeq(w, m + 1, n)[i] = w[m + i]
<1>0. Len(w) \in Nat /\ \A i \in 1..Len(w) : w[i] \in SinkPieces
  BY LenProperties, ElementOfSeq
<1>1. m \in Nat /\ n \in Nat /\ n <= Len(w)
  BY <1>0
<1>2. \A i \in (m + 1)..n : w[i] \in SinkPieces
  BY <1>0, <1>1
<1> DEFINE t == SubSeq(w, m + 1, n)
<1>3. /\ t \in Seq(SinkPieces) /\ Len(t) = IF m + 1 <= n THEN n - (m + 1) + 1 ELSE 0
      /\ \A i \in 1..(n - (m + 1) + 1) : t[i] = w[(m + 1) + i - 1]
  BY <1>1, <1>2, SubSeqProperties
<1> HIDE DEF t
<1>4. Len(t) = n - m
  BY <1>1, <1>3
<1>5. ASSUME NEW i \in 1..(n - m) PROVE t[i] = w[m + i]
  <2>1. i \in 1..(n - (m + 1) + 1) /\ (m + 1) + i - 1 = m + i
    BY <1>1
  <2>2. QED
    BY <1>3, <2>1
<1>6. QED
  BY <1>3, <1>4, <1>5 DEF t

\* A rotation that stops at generation k moves the cuts of the older ones.
LEMMA RotationMovesCuts ==
  ASSUME JsonlAssumption, NEW w \in Seq(SinkPieces), NEW d \in Files, NEW off, Cuts(off, d, w),
         NEW k \in Generations
  PROVE  \E c : /\ Cuts(c, Rotated(d, k), w)
                /\ k = 0 /\ Filled(off) /\ Len(d[0]) >= RotationLines => Filled(c)
<1> DEFINE c == [g \in Marks |-> IF g > k THEN off[g - 1] ELSE off[g]]
<1>0. /\ RotationCount \in Nat \ {0} /\ Len(w) \in Nat /\ k \in Nat /\ k <= RotationCount
      /\ RotationLines \in Nat \ {0}
  BY LenProperties, JsonlAssumption DEF Generations
<1>1. /\ off \in [Marks -> 0..Len(w)] /\ off[0] = Len(w)
      /\ \A g, h \in Marks : g <= h => off[h] <= off[g]
      /\ \A g \in Generations : d[g] = SubSeq(w, off[g + 1] + 1, off[g])
  BY DEF Cuts
<1>2. \A g \in Marks : /\ g \in Int /\ g > k => g - 1 \in Marks
                       /\ g \in Int /\ c[g] = IF g > k THEN off[g - 1] ELSE off[g]
  BY <1>0 DEF Marks
<1>3. c \in [Marks -> 0..Len(w)] /\ c[0] = Len(w)
  <2>1. 0 \in Marks
    BY <1>0 DEF Marks
  <2>2. QED
    BY <1>0, <1>1, <1>2, <2>1
<1> HIDE DEF c
<1>4. ASSUME NEW g \in Marks, NEW h \in Marks, g <= h PROVE c[h] <= c[g]
  <2>1. CASE g > k
    <3>1. h > k /\ g - 1 \in Marks /\ h - 1 \in Marks /\ g - 1 <= h - 1
      BY <1>0, <1>2, <1>4, <2>1
    <3>2. QED
      BY <1>1, <1>2, <2>1, <3>1
  <2>2. CASE ~(g > k) /\ h > k
    <3>1. h - 1 \in Marks /\ g <= h - 1
      BY <1>0, <1>2, <1>4, <2>2
    <3>2. QED
      BY <1>1, <1>2, <2>2, <3>1
  <2>3. CASE ~(g > k) /\ ~(h > k)
    BY <1>1, <1>2, <1>4, <2>3
  <2>4. QED
    BY <2>1, <2>2, <2>3, <1>0, <1>2
<1>5. ASSUME NEW g \in Generations PROVE Rotated(d, k)[g] = SubSeq(w, c[g + 1] + 1, c[g])
  <2>0. g \in Nat /\ g \in Marks /\ g + 1 \in Marks /\ (g + 1) - 1 = g
    BY <1>0 DEF Generations, Marks
  <2>1. Rotated(d, k)[g] = IF g > k THEN d[g - 1] ELSE IF g = k THEN <<>> ELSE d[g]
    BY DEF Rotated
  <2>2. CASE g > k
    <3>1. g - 1 \in Generations /\ (g - 1) + 1 = g
      BY <1>0, <2>0, <2>2 DEF Generations
    <3>2. c[g + 1] = off[g] /\ c[g] = off[g - 1]
      BY <1>0, <1>2, <2>0, <2>2
    <3>3. d[g - 1] = SubSeq(w, off[g] + 1, off[g - 1])
      BY <1>1, <3>1
    <3>4. QED
      BY <2>1, <2>2, <3>2, <3>3
  <2>3. CASE g = k
    <3>1. c[g + 1] = off[g] /\ c[g] = off[g]
      BY <1>0, <1>2, <2>0, <2>3
    <3>2. off[g] \in 0..Len(w)
      BY <1>1, <2>0
    <3>3. SubSeq(w, off[g] + 1, off[g]) \in Seq(SinkPieces) /\ Len(SubSeq(w, off[g] + 1, off[g])) = 0
      BY <1>0, <3>2, PieceProperties
    <3>4. SubSeq(w, off[g] + 1, off[g]) = <<>>
      BY <3>3, EmptySeq
    <3>5. Rotated(d, k)[g] = <<>>
      BY <1>0, <2>1, <2>3
    <3>6. QED
      BY <3>1, <3>4, <3>5
  <2>4. CASE g < k
    <3>1. c[g + 1] = off[g + 1] /\ c[g] = off[g]
      BY <1>0, <1>2, <2>0, <2>4
    <3>2. Rotated(d, k)[g] = d[g]
      BY <1>0, <2>0, <2>1, <2>4
    <3>3. d[g] = SubSeq(w, off[g + 1] + 1, off[g])
      BY <1>1
    <3>4. QED
      BY <3>1, <3>2, <3>3
  <2>5. QED
    BY <1>0, <2>0, <2>2, <2>3, <2>4
<1>6. Cuts(c, Rotated(d, k), w)
  BY <1>3, <1>4, <1>5 DEF Cuts
<1>7. ASSUME k = 0, Filled(off), Len(d[0]) >= RotationLines PROVE Filled(c)
  <2> SUFFICES ASSUME NEW g \in 1..RotationCount, c[g] # 0
               PROVE  c[g] - c[g + 1] >= RotationLines
    BY DEF Filled
  <2>0. g \in Marks /\ g + 1 \in Marks /\ g - 1 \in Marks /\ g > k /\ g + 1 > k /\ (g + 1) - 1 = g
    BY <1>0, <1>7 DEF Marks
  <2>1. c[g] = off[g - 1] /\ c[g + 1] = off[g]
    BY <1>2, <2>0
  <2>2. CASE g = 1
    <3>1. d[0] = SubSeq(w, off[1] + 1, off[0]) /\ off[1] \in 0..Len(w) /\ off[0] \in 0..Len(w)
          /\ off[1] <= off[0]
      <4>1. 0 \in Generations /\ 0 + 1 = 1 /\ 0 \in Marks /\ 1 \in Marks
        BY <1>0 DEF Generations, Marks
      <4>2. QED
        BY <1>1, <4>1
    <3>2. Len(d[0]) = off[0] - off[1]
      BY <3>1, PieceProperties
    <3>3. QED
      BY <1>7, <2>1, <2>2, <3>2
  <2>3. CASE g # 1
    <3>1. g - 1 \in 1..RotationCount /\ (g - 1) + 1 = g
      BY <1>0, <2>3
    <3>2. QED
      BY <1>7, <2>1, <3>1 DEF Filled
  <2>4. QED
    BY <2>2, <2>3
<1>8. QED
  BY <1>6, <1>7

\* A piece that is laid moves the first cut.
LEMMA LineMovesFirstCut ==
  ASSUME JsonlAssumption, NEW w \in Seq(SinkPieces), NEW d \in Files, NEW off, Cuts(off, d, w),
         NEW l \in SinkPieces
  PROVE  \E c : /\ Cuts(c, [d EXCEPT ![0] = Append(@, l)], Append(w, l))
                /\ (Filled(off) => Filled(c)) /\ c[1] < c[0]
<1> DEFINE c == [off EXCEPT ![0] = Len(w) + 1]
           v == Append(w, l)
           e == [d EXCEPT ![0] = Append(@, l)]
<1>0. /\ RotationCount \in Nat \ {0} /\ Len(w) \in Nat /\ 0 \in Marks /\ 1 \in Marks
      /\ 0 \in Generations /\ \A g \in Generations : g \in Marks /\ g + 1 \in Marks /\ g + 1 # 0
  BY LenProperties, JsonlAssumption DEF Generations, Marks
<1>1. /\ off \in [Marks -> 0..Len(w)] /\ off[0] = Len(w)
      /\ \A g, h \in Marks : g <= h => off[h] <= off[g]
      /\ \A g \in Generations : d[g] = SubSeq(w, off[g + 1] + 1, off[g])
  BY DEF Cuts
<1>2. /\ v \in Seq(SinkPieces) /\ Len(v) = Len(w) + 1 /\ v[Len(w) + 1] = l
      /\ \A i \in 1..Len(w) : v[i] = w[i]
  BY AppendProperties
<1>3. /\ c[0] = Len(w) + 1 /\ \A g \in Marks : g # 0 => c[g] = off[g]
      /\ e[0] = Append(d[0], l) /\ \A g \in Generations : g # 0 => e[g] = d[g]
  BY <1>0, <1>1 DEF Files
<1>4. c \in [Marks -> 0..Len(v)]
  BY <1>0, <1>1, <1>2
<1> HIDE DEF c, v, e
<1>5. ASSUME NEW g \in Marks, NEW h \in Marks, g <= h PROVE c[h] <= c[g]
  <2>1. CASE g = 0
    BY <1>0, <1>2, <1>3, <1>4, <2>1
  <2>2. CASE g # 0
    <3>1. h # 0
      BY <1>5, <2>2 DEF Marks
    <3>2. QED
      BY <1>1, <1>3, <1>5, <2>2, <3>1
  <2>3. QED
    BY <2>1, <2>2
<1>6. ASSUME NEW g \in Generations PROVE e[g] = SubSeq(v, c[g + 1] + 1, c[g])
  <2> DEFINE m == off[g + 1]
             n == off[g]
             p == SubSeq(w, m + 1, n)
  <2>1. m \in 0..Len(w) /\ n \in 0..Len(w) /\ m <= n /\ c[g + 1] = m /\ d[g] = p
    <3>1. g \in Marks /\ g + 1 \in Marks /\ g + 1 # 0 /\ g <= g + 1
      BY <1>0 DEF Generations
    <3>2. QED
      BY <1>1, <1>3, <3>1
  <2>2. /\ p \in Seq(SinkPieces) /\ Len(p) = n - m /\ \A i \in 1..(n - m) : p[i] = w[m + i]
    BY SMTT(30), <2>1, PieceProperties
  <2> HIDE DEF m, n, p
  <2>3. m \in Nat /\ n \in Nat /\ m <= n /\ n <= Len(w)
    BY <1>0, <2>1
  <2>4. CASE g # 0
    <3>1. c[g] = n /\ e[g] = p
      BY <1>0, <1>3, <2>1, <2>4 DEF n
    <3> DEFINE q == SubSeq(v, m + 1, n)
    <3>2. m \in 0..Len(v) /\ n \in 0..Len(v)
      BY <1>0, <1>2, <2>3
    <3>3. /\ q \in Seq(SinkPieces) /\ Len(q) = n - m /\ \A i \in 1..(n - m) : q[i] = v[m + i]
      BY <1>2, <2>3, <3>2, PieceProperties
    <3> HIDE DEF q
    <3>4. \A i \in 1..(n - m) : m + i \in 1..Len(w)
      BY <1>0, <2>3
    <3>5. \A i \in 1..Len(p) : p[i] = q[i]
      BY <1>2, <2>2, <3>3, <3>4
    <3>6. p = q
      BY <2>2, <3>3, <3>5, SeqEqual
    <3>7. QED
      BY <2>1, <3>1, <3>6 DEF q
  <2>5. CASE g = 0
    <3> DEFINE q == SubSeq(v, m + 1, Len(w) + 1)
               t == Append(p, l)
    <3>1. n = Len(w) /\ c[g] = Len(w) + 1 /\ e[g] = t
      BY <1>1, <1>3, <2>1, <2>5 DEF n
    <3>2. m \in 0..Len(v) /\ Len(w) + 1 \in 0..Len(v) /\ m <= Len(w) + 1
      BY <1>0, <1>2, <2>3
    <3>3. /\ q \in Seq(SinkPieces) /\ Len(q) = Len(w) + 1 - m
          /\ \A i \in 1..(Len(w) + 1 - m) : q[i] = v[m + i]
      BY <1>2, <3>2, PieceProperties
    <3>4. /\ t \in Seq(SinkPieces) /\ Len(t) = Len(p) + 1 /\ t[Len(p) + 1] = l
          /\ \A i \in 1..Len(p) : t[i] = p[i]
      BY <2>2, AppendProperties
    <3> HIDE DEF q, t
    <3>5. ASSUME NEW i \in 1..Len(t) PROVE t[i] = q[i]
      <4>1. Len(p) = Len(w) - m /\ i \in 1..(Len(w) + 1 - m) /\ i \in Nat
        BY <1>0, <2>2, <2>3, <3>1, <3>4
      <4>2. CASE i = Len(p) + 1
        <5>1. m + i = Len(w) + 1
          BY <1>0, <2>3, <4>1, <4>2
        <5>2. QED
          BY <1>2, <3>3, <3>4, <4>1, <4>2, <5>1
      <4>3. CASE i # Len(p) + 1
        <5>1. i \in 1..Len(p) /\ i \in 1..(n - m) /\ m + i \in 1..Len(w)
          BY <1>0, <2>3, <3>1, <4>1, <4>3
        <5>2. t[i] = w[m + i] /\ q[i] = v[m + i] /\ v[m + i] = w[m + i]
          BY <1>2, <2>2, <3>3, <3>4, <4>1, <5>1
        <5>3. QED
          BY <5>2
      <4>4. QED
        BY <4>2, <4>3
    <3>6. Len(t) = Len(q)
      BY <1>0, <2>2, <2>3, <3>1, <3>3, <3>4
    <3>7. t = q
      BY <3>3, <3>4, <3>5, <3>6, SeqEqual
    <3>8. QED
      BY <2>1, <3>1, <3>7 DEF q
  <2>6. QED
    BY <2>4, <2>5
<1>7. Cuts(c, e, v)
  BY <1>2, <1>3, <1>4, <1>5, <1>6 DEF Cuts
<1>8. Filled(off) => Filled(c)
  <2>1. \A g \in 1..RotationCount : g \in Marks /\ g + 1 \in Marks /\ g # 0 /\ g + 1 # 0
    BY <1>0 DEF Marks
  <2>2. \A g \in 1..RotationCount : c[g] = off[g] /\ c[g + 1] = off[g + 1]
    BY <1>3, <2>1
  <2>3. QED
    BY <2>2 DEF Filled
<1>9. c[1] < c[0]
  BY <1>0, <1>1, <1>3
<1>10. QED
  BY <1>7, <1>8, <1>9 DEF e, v

\* The disk of every step of the writer is one that rotation and writing can bring about.
LEMMA WriterKeepsFiles ==
  ASSUME JsonlAssumption, QueueInv, FilesAreConsecutive, JsonlWriter
  PROVE  FilesAreConsecutive' /\ disk' \in Files
<1>0. PICK off : /\ Cuts(off, disk, laid)
                 /\ failed = {} => Filled(off) /\ (laid # <<>> => off[1] < off[0])
  BY DEF FilesAreConsecutive
<1>1. /\ laid \in Seq(SinkPieces) /\ disk \in Files /\ queue \in Seq(Items)
      /\ 0 \in Generations /\ <<>> \in Seq(SinkPieces)
  BY JsonlAssumption, EmptySeq DEF QueueInv, JsonlTypes, Files, Generations
<1>2. ASSUME NEW k \in Generations PROVE Rotated(disk, k) \in Files
  <2>1. \A g \in Generations : g > k => g - 1 \in Generations
    BY JsonlAssumption, <1>2 DEF Generations
  <2>2. QED
    BY <1>1, <2>1 DEF Rotated, Files
<1>3. ASSUME NEW room \in Rooms
      PROVE  room \in Files /\ \E c : Cuts(c, room, laid) /\ (Filled(off) => Filled(c))
  <2>1. CASE room = Rotated(disk, 0) /\ Len(disk[0]) >= RotationLines
    BY <1>0, <1>1, <1>2, <2>1, RotationMovesCuts
  <2>2. CASE room = disk
    BY <1>0, <1>1, <2>2
  <2>3. QED
    BY <1>3, <2>1, <2>2 DEF Rooms
<1>4. ASSUME NEW how \in {"written", "torn", "whole"}, queue # <<>>, Head(queue) # Stop,
             Lay(Head(queue), how)
      PROVE  /\ disk' \in Files
             /\ \E c : Cuts(c, disk', laid') /\ (Filled(off) => Filled(c)) /\ c[1] < c[0]
  <2> DEFINE l == Piece(Head(queue), how)
  <2>1. l \in SinkPieces
    BY <1>1, <1>4, TakenFirst DEF Items, Piece, SinkPieces
  <2>2. laid' = Append(laid, l) /\ \E room \in Rooms : disk' = [room EXCEPT ![0] = Append(@, l)]
    BY <1>4 DEF Lay
  <2> HIDE DEF l
  <2>3. PICK room \in Rooms : disk' = [room EXCEPT ![0] = Append(@, l)]
    BY <2>2
  <2>4. PICK b : room \in Files /\ Cuts(b, room, laid) /\ (Filled(off) => Filled(b))
    BY <1>3
  <2>5. PICK c : /\ Cuts(c, disk', laid')
                 /\ (Filled(b) => Filled(c)) /\ c[1] < c[0]
    BY <1>1, <2>1, <2>2, <2>3, <2>4, LineMovesFirstCut
  <2>6. disk' \in Files
    <3>1. room[0] \in Seq(SinkPieces)
      BY <1>1, <2>4 DEF Files
    <3>2. Append(room[0], l) \in Seq(SinkPieces)
      BY <2>1, <3>1, AppendProperties
    <3>3. QED
      BY <1>1, <2>3, <2>4, <3>2 DEF Files
  <2>7. QED
    BY <2>4, <2>5, <2>6
<1>4b. CASE WriteLine
  <2>1. queue # <<>> /\ Head(queue) # Stop /\ Lay(Head(queue), "written") /\ failed' = failed
    BY <1>4b DEF WriteLine, Take
  <2>2. /\ disk' \in Files
        /\ \E c : Cuts(c, disk', laid') /\ (Filled(off) => Filled(c)) /\ c[1] < c[0]
    BY <1>4, <2>1
  <2>3. QED
    BY <1>0, <2>1, <2>2 DEF FilesAreConsecutive
<1>5. CASE WriteFails
  <2>1. /\ failed' # {} /\ queue # <<>> /\ Head(queue) # Stop
        /\ \/ disk' \in Botched /\ laid' = laid
           \/ \E how \in {"torn", "whole"} : Lay(Head(queue), how)
    BY <1>5 DEF WriteFails, Take
  <2>2. CASE disk' \in Botched /\ laid' = laid
    <3>1. \/ disk' = disk \/ disk' \in Rooms \/ \E k \in Generations : disk' = Rotated(disk, k)
      BY <2>2 DEF Botched
    <3>2. disk' \in Files /\ \E c : Cuts(c, disk', laid)
      <4>1. CASE disk' = disk
        BY <1>0, <1>1, <4>1
      <4>2. CASE disk' \in Rooms
        BY <1>3, <4>2
      <4>3. ASSUME NEW k \in Generations, disk' = Rotated(disk, k)
            PROVE  disk' \in Files /\ \E c : Cuts(c, disk', laid)
        BY <1>0, <1>1, <1>2, <4>3, RotationMovesCuts
      <4>4. QED
        BY <3>1, <4>1, <4>2, <4>3
    <3>3. QED
      BY <2>1, <2>2, <3>2 DEF FilesAreConsecutive
  <2>3. CASE \E how \in {"torn", "whole"} : Lay(Head(queue), how)
    <3>1. disk' \in Files /\ \E c : Cuts(c, disk', laid')
      BY <1>4, <2>1, <2>3
    <3>2. QED
      BY <2>1, <3>1 DEF FilesAreConsecutive
  <2>4. QED
    BY <2>1, <2>2, <2>3
<1>6. CASE WriterStops
  BY <1>0, <1>1, <1>6 DEF WriterStops, accounts, FilesAreConsecutive
<1>7. QED
  BY <1>4b, <1>5, <1>6 DEF JsonlWriter

-------------------------------------------------------------------------------
\* The invariant of the file sink.
SinkFilesInv ==
  attached \in {"jsonl", "memory", "telemetry"} /\ QueueInv /\ FilesAreConsecutive

\* The empty file.
LEMMA SinkFilesInit == JsonlAssumption /\ SinkInit => SinkFilesInv
<1> SUFFICES ASSUME JsonlAssumption, SinkInit PROVE SinkFilesInv
  OBVIOUS
<1> DEFINE off == [g \in Marks |-> 0]
<1>0. /\ RotationCount \in Nat \ {0} /\ Len(<<>>) = 0 /\ <<>> \in Seq(SinkPieces)
      /\ laid = <<>> /\ disk = [g \in Generations |-> <<>>] /\ failed = {}
  BY JsonlAssumption, EmptySeq DEF SinkInit, JsonlInit
<1>1. /\ 0 \in Marks
      /\ \A g \in Generations : g \in Marks /\ g + 1 \in Marks
      /\ \A g \in 1..RotationCount : g \in Marks
  BY <1>0 DEF Marks, Generations
<1>2. SubSeq(<<>>, 0 + 1, 0) = <<>>
  <2>1. Len(SubSeq(<<>>, 0 + 1, 0)) = 0 /\ SubSeq(<<>>, 0 + 1, 0) \in Seq(SinkPieces)
    BY <1>0, PieceProperties
  <2>2. QED
    BY <2>1, EmptySeq
<1>3. Cuts(off, disk, laid)
  BY <1>0, <1>1, <1>2 DEF Cuts
<1>4. Filled(off)
  BY <1>1 DEF Filled
<1> HIDE DEF off
<1>5. FilesAreConsecutive
  BY <1>0, <1>3, <1>4 DEF FilesAreConsecutive
<1>6. attached \in {"jsonl", "memory", "telemetry"}
  BY DEF SinkInit
<1>7. QED
  BY <1>5, <1>6, QueueInit DEF SinkFilesInv

\* Every step of the sinks keeps the files and the queue in order.
LEMMA SinkFilesNext == JsonlAssumption /\ SinkFilesInv /\ [SinkNext]_sinkVars => SinkFilesInv'
<1> SUFFICES ASSUME JsonlAssumption, SinkFilesInv, [SinkNext]_sinkVars PROVE SinkFilesInv'
  OBVIOUS
<1>0. QueueInv /\ FilesAreConsecutive /\ attached \in {"jsonl", "memory", "telemetry"}
  BY DEF SinkFilesInv
<1>c. UNCHANGED attached
  <2>1. CASE JsonlWriter /\ Others
    BY <2>1 DEF Others, streamVars
  <2>2. CASE SinkNext /\ ~(JsonlWriter /\ Others)
    BY <2>2 DEF SinkNext, DeliverEvent, ResumeEmit, GiveUpEmit, CloseJsonl, JsonlClosed,
       Writer, MarkEnd, CloseMemory, CloseTelemetry, Tick, Others, streamVars
  <2>3. CASE UNCHANGED sinkVars
    BY <2>3 DEF sinkVars, streamVars
  <2>4. QED
    BY <2>1, <2>2, <2>3
<1> USE <1>c
<1>a. ASSUME UNCHANGED <<laid, failed, disk>> PROVE FilesAreConsecutive'
  BY <1>0, <1>a DEF FilesAreConsecutive
<1>b. ASSUME UNCHANGED <<jsonlVars, at>> PROVE SinkFilesInv'
  BY <1>0, <1>a, <1>b DEF SinkFilesInv, QueueInv, JsonlTypes, MarkerFollowsClose, HandedIsKept,
     WriterIsStarted, Stored, jsonlVars
<1>1. ASSUME NEW r \in Runs, DeliverEvent(r) PROVE SinkFilesInv'
  <2>1. at' \in [Runs -> Nat] /\ <<r, at[r]>> \in Runs \X Nat
    BY <1>0, <1>1 DEF DeliverEvent, QueueInv, JsonlTypes
  <2>2. CASE attached = "jsonl"
    <3>1. JsonlOffer(r, <<r, at[r]>>)
      BY <1>1, <2>2 DEF DeliverEvent
    <3>2. UNCHANGED <<laid, failed, disk>>
      BY <3>1 DEF JsonlOffer
    <3>3. QED
      BY <1>0, <1>a, <2>1, <3>1, <3>2, OfferKeepsQueue DEF SinkFilesInv
  <2>3. CASE attached # "jsonl"
    <3>1. UNCHANGED jsonlVars
      <4>1. CASE attached = "memory"
        BY <1>1, <4>1 DEF DeliverEvent
      <4>2. CASE attached = "telemetry"
        BY <1>1, <4>2 DEF DeliverEvent
      <4>3. QED
        BY <1>0, <2>3, <4>1, <4>2
    <3>2. QED
      BY <1>0, <1>a, <2>1, <3>1 DEF SinkFilesInv, QueueInv, JsonlTypes, MarkerFollowsClose,
         HandedIsKept, WriterIsStarted, Stored, jsonlVars
  <2>4. QED
    BY <2>2, <2>3
<1>2. ASSUME NEW r \in Runs, ResumeEmit(r) \/ GiveUpEmit(r) PROVE SinkFilesInv'
  <2>1. UNCHANGED <<laid, failed, disk, at>>
    BY <1>2 DEF ResumeEmit, GiveUpEmit, JsonlResume, JsonlGiveUp, accounts, Others, streamVars
  <2>2. QED
    BY <1>0, <1>2, <1>a, <2>1, ResumeKeepsQueue, GiveUpKeepsQueue
       DEF ResumeEmit, GiveUpEmit, SinkFilesInv
<1>3. ASSUME \/ \E c \in JsonlClosers : CloseJsonl(c) \/ JsonlClosed(c)
             \/ MarkEnd
      PROVE  SinkFilesInv'
  <2>1. /\ \/ \E c \in JsonlClosers : JsonlClose(c) \/ JsonlCloseReturns(c)
           \/ PutStop \/ ResumeStop
        /\ UNCHANGED at
    BY <1>3 DEF CloseJsonl, JsonlClosed, MarkEnd, Others, streamVars
  <2>2. UNCHANGED <<laid, failed, disk>>
    BY <2>1 DEF JsonlClose, JsonlCloseReturns, PutStop, ResumeStop, accounts
  <2>3. QED
    BY <1>0, <1>a, <2>1, <2>2, CloseKeepsQueue DEF SinkFilesInv
<1>4. ASSUME Writer PROVE SinkFilesInv'
  <2>1. JsonlWriter /\ UNCHANGED at
    BY <1>4 DEF Writer, Others, streamVars
  <2>2. FilesAreConsecutive' /\ disk' \in [Generations -> Seq(SinkPieces)]
    BY <1>0, <2>1, WriterKeepsFiles DEF Files
  <2>3. QED
    BY <1>0, <2>1, <2>2, WriterKeepsQueue DEF SinkFilesInv
<1>5. CASE CloseMemory \/ CloseTelemetry \/ Tick \/ UNCHANGED sinkVars
  <2>1. UNCHANGED <<jsonlVars, at>>
    BY <1>5 DEF CloseMemory, CloseTelemetry, Tick, sinkVars, streamVars
  <2>2. QED
    BY <1>b, <2>1
<1>6. QED
  BY <1>1, <1>2, <1>3, <1>4, <1>5 DEF SinkNext

\* What is due is stored when the writer is done.
LEMMA QueueDrains == QueueInv => CloseDrains
<1> SUFFICES ASSUME QueueInv, NEW c \in JsonlClosers, jcloser[c] = "returned", NEW l \in due
             PROVE  l \in Written \cup failed
  BY DEF CloseDrains
<1>1. Stored(l)
  BY DEF QueueInv, WriterIsStarted, HandedIsKept
<1>2. Within(Piece(l, "written"), laid) => l \in Written
  <2>1. DOMAIN laid = 1..Len(laid)
    BY LenProperties DEF QueueInv, JsonlTypes
  <2>2. Within(Piece(l, "written"), laid) => Piece(l, "written") \in ToSet(laid)
    BY <2>1 DEF Within, ToSet
  <2>3. Piece(l, "written").line = l /\ Piece(l, "written").how = "written"
    BY DEF Piece
  <2>4. QED
    BY <2>2, <2>3 DEF Written
<1>3. QED
  BY <1>1, <1>2 DEF Stored

-------------------------------------------------------------------------------
\* Induction over the natural numbers, for a set.
LEMMA SinkInduction ==
  ASSUME NEW T, 0 \in T, \A n \in Nat : n \in T => n + 1 \in T
  PROVE  Nat \subseteq T
<1> DEFINE R == OpToRel(<, Nat)
           U == Nat \ T
<1>1. IsWellFoundedOn(R, Nat)
  BY NatLessThanWellFounded
<1>2. \A m, p \in Nat : m < p => <<m, p>> \in R
  BY DEF OpToRel
<1> HIDE DEF R
<1> SUFFICES ASSUME U # {} PROVE FALSE
  OBVIOUS
<1> HIDE DEF U
<1>3. PICK n \in U : \A m \in U : ~ (<<m, n>> \in R)
  <2>1. U \subseteq Nat
    BY DEF U
  <2>2. QED
    BY <1>1, <2>1, WFMin
<1>4. n \in Nat /\ n # 0
  BY <1>3 DEF U
<1>5. n - 1 \in Nat /\ n - 1 < n /\ (n - 1) + 1 = n
  BY <1>4
<1>6. n - 1 \notin U
  BY <1>2, <1>3, <1>4, <1>5
<1>7. QED
  BY <1>3, <1>5, <1>6 DEF U

FlatExists(n, s) == \E f : f = [i \in 1..n |-> IF i = 1 THEN s[i] ELSE f[i - 1] \o s[i]]

\* The function that FlattenSeq is defined by exists.
LEMMA FlatsExist == ASSUME NEW s PROVE \A n \in Nat : FlatExists(n, s)
<1> DEFINE T == {n \in Nat : FlatExists(n, s)}
<1>1. 0 \in T
  <2>1. [i \in 1..0 |-> 0] = [i \in 1..0 |-> IF i = 1 THEN s[i]
                                              ELSE [k \in 1..0 |-> 0][i - 1] \o s[i]]
    OBVIOUS
  <2>2. QED
    BY <2>1 DEF FlatExists
<1>2. ASSUME NEW n \in Nat, n \in T PROVE n + 1 \in T
  <2>1. PICK f : f = [i \in 1..n |-> IF i = 1 THEN s[i] ELSE f[i - 1] \o s[i]]
    BY <1>2 DEF FlatExists
  <2>2. \A i \in 1..n : f[i] = IF i = 1 THEN s[i] ELSE f[i - 1] \o s[i]
    BY <2>1
  <2> DEFINE g == [i \in 1..(n + 1) |-> IF i = n + 1 THEN IF i = 1 THEN s[i] ELSE f[n] \o s[i]
                                        ELSE f[i]]
  <2>3. \A i \in 1..(n + 1) : g[i] = IF i = 1 THEN s[i] ELSE g[i - 1] \o s[i]
    BY <2>2
  <2>4. g = [i \in 1..(n + 1) |-> IF i = 1 THEN s[i] ELSE g[i - 1] \o s[i]]
    BY <2>3
  <2> HIDE DEF g
  <2>5. FlatExists(n + 1, s)
    BY <2>4 DEF FlatExists
  <2>6. QED
    BY <2>5
<1> HIDE DEF T
<1>3. Nat \subseteq T
  BY <1>1, <1>2, SinkInduction
<1>4. QED
  BY <1>3 DEF T

\* FlattenSeq joins the pieces one after the other.
LEMMA FlattenJoins ==
  ASSUME NEW s, Len(s) \in Nat \ {0}
  PROVE  \E f : /\ FlattenSeq(s) = f[Len(s)] /\ f[1] = s[1]
                /\ \A i \in 2..Len(s) : f[i] = f[i - 1] \o s[i]
<1> DEFINE G(f) == f = [i \in 1..Len(s) |-> IF i = 1 THEN s[i] ELSE f[i - 1] \o s[i]]
           h == CHOOSE f : G(f)
<1>1. \E f : G(f)
  BY FlatsExist DEF FlatExists
<1>2. G(h)
  BY <1>1
<1>3. FlattenSeq(s) = h[Len(s)]
  BY DEF FlattenSeq
<1> HIDE DEF h
<1>4. \A i \in 1..Len(s) : h[i] = IF i = 1 THEN s[i] ELSE h[i - 1] \o s[i]
  BY <1>2
<1>5. h[1] = s[1] /\ \A i \in 2..Len(s) : h[i] = h[i - 1] \o s[i]
  <2> DEFINE n == Len(s)
  <2>1. n \in Nat \ {0} /\ \A i \in 1..n : h[i] = IF i = 1 THEN s[i] ELSE h[i - 1] \o s[i]
    BY <1>4
  <2> HIDE DEF n
  <2>2. 1 \in 1..n /\ \A i \in 2..n : i \in 1..n /\ i # 1
    BY <2>1
  <2>3. h[1] = s[1]
    BY <2>1, <2>2
  <2>4. ASSUME NEW i \in 2..n PROVE h[i] = h[i - 1] \o s[i]
    <3>1. i \in 1..n /\ i # 1
      BY <2>2
    <3>2. QED
      BY <2>1, <3>1, Zenon
  <2>5. QED
    BY <2>3, <2>4 DEF n
<1>6. QED
  BY <1>3, <1>5

\* Consecutive pieces, from the oldest, are the tail of what was put into them.
LEMMA FilesAreTail ==
  ASSUME JsonlAssumption, NEW w \in Seq(SinkPieces), NEW d \in Files, NEW off, Cuts(off, d, w)
  PROVE  Lines(d) = SubSeq(w, off[RotationCount + 1] + 1, Len(w))
<1> DEFINE R == RotationCount
           s == [i \in 1 .. R + 1 |-> d[R + 1 - i]]
<1>0. R \in Nat \ {0} /\ Len(w) \in Nat
  BY LenProperties, JsonlAssumption
<1>1. Len(s) = R + 1 /\ \A i \in 1..(R + 1) : s[i] = d[R + 1 - i]
  BY <1>0
<1>2. Lines(d) = FlattenSeq(s)
  BY DEF Lines
<1> HIDE DEF s, R
<1>3. PICK f : /\ FlattenSeq(s) = f[R + 1] /\ f[1] = s[1]
               /\ \A i \in 2..(R + 1) : f[i] = f[i - 1] \o s[i]
  <2>1. Len(s) \in Nat \ {0}
    BY <1>0, <1>1
  <2>2. \E f : /\ FlattenSeq(s) = f[Len(s)] /\ f[1] = s[1]
                /\ \A i \in 2..Len(s) : f[i] = f[i - 1] \o s[i]
    BY ONLY <2>1, FlattenJoins
  <2>3. Len(s) = R + 1
    BY <1>1
  <2>4. QED
    BY ONLY <2>2, <2>3
<1>4. /\ off \in [Marks -> 0..Len(w)] /\ off[0] = Len(w)
      /\ \A g, h \in Marks : g <= h => off[h] <= off[g]
      /\ \A g \in Generations : d[g] = SubSeq(w, off[g + 1] + 1, off[g])
  BY DEF Cuts
<1> DEFINE o == off[R + 1]
           T == {n \in Nat : n + 1 <= R + 1 => f[n + 1] = SubSeq(w, o + 1, off[R - n])}
<1>5. R + 1 \in Marks /\ \A n \in Nat : n <= R => R - n \in Marks /\ R - n \in Generations
                                                  /\ (R - n) + 1 \in Marks
  BY <1>0 DEF R, Marks, Generations
<1>6. 0 \in T
  <2>1. s[1] = d[R + 1 - 1] /\ R + 1 - 1 = R /\ R - 0 = R /\ 0 + 1 = 1
    BY <1>0, <1>1
  <2>2. R \in Generations
    BY <1>0, <1>5, <2>1
  <2>3. d[R] = SubSeq(w, o + 1, off[R])
    BY <1>4, <2>2
  <2>4. QED
    BY <1>3, <2>1, <2>3
<1>7. ASSUME NEW n \in Nat, n \in T PROVE n + 1 \in T
  <2> SUFFICES ASSUME (n + 1) + 1 <= R + 1
               PROVE  f[(n + 1) + 1] = SubSeq(w, o + 1, off[R - (n + 1)])
    OBVIOUS
  <2> DEFINE k == off[R - n]
             e == off[R - (n + 1)]
  <2>1. f[n + 1] = SubSeq(w, o + 1, k)
    BY <1>0, <1>7
  <2>2. (n + 1) + 1 \in 2..(R + 1) /\ ((n + 1) + 1) - 1 = n + 1
        /\ R + 1 - ((n + 1) + 1) = R - (n + 1) /\ (R - (n + 1)) + 1 = R - n
    BY <1>0
  <2>3. R - n \in Marks /\ R - (n + 1) \in Marks /\ R - (n + 1) \in Generations
    BY <1>0, <1>5, <2>2
  <2>4. f[(n + 1) + 1] = f[n + 1] \o s[(n + 1) + 1]
    BY <1>3, <2>2
  <2>5. (n + 1) + 1 \in 1..(R + 1)
    BY <1>0
  <2>6. s[(n + 1) + 1] = d[R - (n + 1)]
    BY <1>1, <2>2, <2>5
  <2>7. d[R - (n + 1)] = SubSeq(w, k + 1, e)
    BY <1>4, <2>2, <2>3
  <2>8. o \in 0..Len(w) /\ k \in 0..Len(w) /\ e \in 0..Len(w)
    BY <1>4, <1>5, <2>3
  <2>9. o <= k /\ k <= e
    <3>1. R - n <= R + 1 /\ R - (n + 1) <= R - n
      BY <1>0
    <3>2. QED
      BY <1>4, <1>5, <2>3, <3>1
  <2> HIDE DEF o, k, e
  <2>10. o + 1 \in 1..(Len(w) + 1) /\ k \in (o + 1) - 1..Len(w) /\ e \in k..Len(w)
    BY <1>0, <2>8, <2>9
  <2>11. SubSeq(w, o + 1, k) \o SubSeq(w, k + 1, e) = SubSeq(w, o + 1, e)
    BY <2>10, ConcatAdjacentSubSeq
  <2>12. QED
    BY <2>1, <2>4, <2>6, <2>7, <2>11 DEF e
<1> HIDE DEF T
<1>8. Nat \subseteq T
  BY <1>6, <1>7, SinkInduction
<1>9. f[R + 1] = SubSeq(w, o + 1, off[R - R])
  BY <1>0, <1>8 DEF T
<1>10. R - R = 0
  BY <1>0
<1>11. QED
  BY <1>2, <1>3, <1>4, <1>9, <1>10 DEF R

\* Full generations add up.
LEMMA FilledAddsUp ==
  ASSUME JsonlAssumption, NEW w \in Seq(SinkPieces), NEW d \in Files, NEW off, Cuts(off, d, w),
         Filled(off), off[RotationCount + 1] # 0
  PROVE  off[1] - off[RotationCount + 1] >= RotationCount * RotationLines
<1> DEFINE T == {n \in Nat : n <= RotationCount => off[1] - off[n + 1] >= n * RotationLines}
<1>0. /\ RotationCount \in Nat \ {0} /\ RotationLines \in Nat \ {0} /\ Len(w) \in Nat
  BY LenProperties, JsonlAssumption
<1>1. /\ off \in [Marks -> 0..Len(w)]
      /\ \A g, h \in Marks : g <= h => off[h] <= off[g]
  BY DEF Cuts
<1>2. \A g \in 1..(RotationCount + 1) : g \in Marks /\ off[g] \in Nat
  BY <1>0, <1>1 DEF Marks
<1>3. 0 \in T
  <2>1. 0 + 1 \in 1..(RotationCount + 1) /\ 0 + 1 = 1
    BY <1>0
  <2>2. off[1] - off[1] = 0 /\ 0 * RotationLines = 0
    BY <1>0, <1>2, <2>1
  <2>3. QED
    BY <2>1, <2>2
<1>4. ASSUME NEW n \in Nat, n \in T PROVE n + 1 \in T
  <2> SUFFICES ASSUME n + 1 <= RotationCount
               PROVE  off[1] - off[(n + 1) + 1] >= (n + 1) * RotationLines
    OBVIOUS
  <2>1. off[1] - off[n + 1] >= n * RotationLines
    BY <1>0, <1>4
  <2>2. /\ 1 \in 1..(RotationCount + 1) /\ n + 1 \in 1..RotationCount
        /\ n + 1 \in 1..(RotationCount + 1) /\ (n + 1) + 1 \in 1..(RotationCount + 1)
        /\ RotationCount + 1 \in 1..(RotationCount + 1) /\ n + 1 <= RotationCount + 1
    BY <1>0
  <2>3. off[n + 1] # 0
    <3>1. off[RotationCount + 1] <= off[n + 1]
      BY <1>1, <1>2, <2>2
    <3>2. QED
      BY <1>2, <2>2, <3>1
  <2>4. off[n + 1] - off[(n + 1) + 1] >= RotationLines
    BY <2>2, <2>3 DEF Filled
  <2>5. (n + 1) * RotationLines = n * RotationLines + RotationLines /\ n * RotationLines \in Nat
    BY <1>0
  <2>6. off[1] \in Nat /\ off[n + 1] \in Nat /\ off[(n + 1) + 1] \in Nat
    BY <1>2, <2>2
  <2>7. QED
    BY <1>0, <2>1, <2>4, <2>5, <2>6
<1> HIDE DEF T
<1>5. Nat \subseteq T
  BY <1>3, <1>4, SinkInduction
<1>6. QED
  BY <1>0, <1>5 DEF T

\* What consecutive pieces hold is the tail, and all of it until the generations are full.
LEMMA ConsecutiveFilesHoldTail ==
  ASSUME JsonlAssumption, QueueInv, FilesAreConsecutive PROVE FilesHoldTheTail
<1>0. /\ laid \in Seq(SinkPieces) /\ disk \in Files /\ Len(laid) \in Nat
      /\ RotationCount \in Nat \ {0} /\ RotationLines \in Nat \ {0}
  BY LenProperties, JsonlAssumption DEF QueueInv, JsonlTypes, Files
<1>1. PICK off : /\ Cuts(off, disk, laid)
                 /\ failed = {} => Filled(off) /\ (laid # <<>> => off[1] < off[0])
  BY DEF FilesAreConsecutive
<1> DEFINE m == off[RotationCount + 1]
           kept == Lines(disk)
<1>2. kept = SubSeq(laid, m + 1, Len(laid))
  BY <1>0, <1>1, FilesAreTail
<1>3. m \in 0..Len(laid) /\ off[0] = Len(laid) /\ off[1] \in 0..Len(laid)
  BY <1>0, <1>1 DEF Cuts, Marks
<1> HIDE DEF kept, m
<1>4. Len(kept) = Len(laid) - m
  <2>1. Len(laid) \in 0..Len(laid) /\ m <= Len(laid)
    BY <1>0, <1>3
  <2>2. QED
    BY <1>0, <1>2, <1>3, <2>1, PieceProperties
<1>5. Len(kept) <= Len(laid) /\ Len(laid) - Len(kept) + 1 = m + 1
  BY <1>0, <1>3, <1>4
<1>6. ASSUME failed = {} PROVE kept = laid \/ Len(kept) > RotationCount * RotationLines
  <2>1. CASE m = 0
    <3>1. kept = SubSeq(laid, 1, Len(laid))
      BY <1>2, <2>1
    <3>2. QED
      BY <1>0, <3>1, SubSeqFull
  <2>2. CASE m # 0
    <3>1. off[1] - m >= RotationCount * RotationLines
      BY <1>0, <1>1, <1>6, <2>2, FilledAddsUp DEF m
    <3>2. laid # <<>>
      BY <1>0, <1>3, <2>2
    <3>3. off[1] < Len(laid)
      BY <1>1, <1>3, <1>6, <3>2
    <3>4. RotationCount * RotationLines \in Nat
      BY <1>0
    <3>5. QED
      BY <1>0, <1>3, <1>4, <3>1, <3>3, <3>4
  <2>3. QED
    BY <2>1, <2>2
<1>7. QED
  BY <1>2, <1>5, <1>6 DEF FilesHoldTheTail, kept

\* When the file sink is closed, everything handed over before is laid or counted as failed,
\* and at any time its files hold the last lines laid, in order and without a gap, however
\* rotations fail half-way (trace_sinks/jsonl.py).
THEOREM FilesKeepWhatIsDue == SinkSpec => []FilesHoldWhatIsDue
<1>1. SinkInit => SinkFilesInv
  BY SinkFilesInit, JsonlAssumption
<1>2. SinkFilesInv /\ [SinkNext]_sinkVars => SinkFilesInv'
  BY SinkFilesNext, JsonlAssumption
<1>3. SinkFilesInv => FilesHoldWhatIsDue
  BY QueueDrains, ConsecutiveFilesHoldTail, JsonlAssumption DEF SinkFilesInv, FilesHoldWhatIsDue
<1>4. QED
  BY <1>1, <1>2, <1>3, PTL DEF SinkSpec
-----------------------------------------------------------------------------
\* A set of numbers that is not empty has a least one.
LEMMA SinkLeast ==
  ASSUME NEW U \in SUBSET Nat, U # {}
  PROVE  \E n \in U : \A m \in U : n <= m
<1> DEFINE R == OpToRel(<, Nat)
<1>1. IsWellFoundedOn(R, Nat)
  BY NatLessThanWellFounded
<1>2. \A m, p \in Nat : m < p => <<m, p>> \in R
  BY DEF OpToRel
<1> HIDE DEF R
<1>3. PICK n \in U : \A m \in U : ~ (<<m, n>> \in R)
  BY <1>1, WFMin
<1>4. ASSUME NEW m \in U PROVE n <= m
  <2>1. m \in Nat /\ n \in Nat
    OBVIOUS
  <2>2. ~(m < n)
    BY <1>2, <1>3, <2>1
  <2>3. QED
    BY <2>1, <2>2
<1>5. QED
  BY <1>4

\* What the memory and the telemetry sink keep of their lists.
KeptExists(n, s, S) ==
  \E f : f = [i \in 0..n |-> IF i = 0 THEN <<>>
                            ELSE IF s[i] \in S THEN Append(f[i - 1], s[i]) ELSE f[i - 1]]

\* The function that Keeping is defined by exists.
LEMMA KeptExist == ASSUME NEW s, NEW S PROVE \A n \in Nat : KeptExists(n, s, S)
<1> DEFINE T == {n \in Nat : KeptExists(n, s, S)}
<1>1. 0 \in T
  <2> DEFINE g == [i \in 0..0 |-> <<>>]
  <2>1. g = [i \in 0..0 |-> IF i = 0 THEN <<>>
                            ELSE IF s[i] \in S THEN Append(g[i - 1], s[i]) ELSE g[i - 1]]
    OBVIOUS
  <2> HIDE DEF g
  <2>2. KeptExists(0, s, S)
    BY <2>1 DEF KeptExists
  <2>3. QED
    BY <2>2
<1>2. ASSUME NEW n \in Nat, n \in T PROVE n + 1 \in T
  <2>1. PICK f : f = [i \in 0..n |-> IF i = 0 THEN <<>>
                                     ELSE IF s[i] \in S THEN Append(f[i - 1], s[i]) ELSE f[i - 1]]
    BY <1>2 DEF KeptExists
  <2>2. \A i \in 0..n : f[i] = IF i = 0 THEN <<>>
                               ELSE IF s[i] \in S THEN Append(f[i - 1], s[i]) ELSE f[i - 1]
    BY <2>1
  <2> DEFINE g == [i \in 0..(n + 1) |->
                     IF i = n + 1 THEN IF s[i] \in S THEN Append(f[n], s[i]) ELSE f[n]
                     ELSE f[i]]
  <2>3. \A i \in 0..(n + 1) : g[i] = IF i = 0 THEN <<>>
                                     ELSE IF s[i] \in S THEN Append(g[i - 1], s[i]) ELSE g[i - 1]
    <3> TAKE i \in 0..(n + 1)
    <3>1. CASE i = n + 1
      <4>1. i # 0 /\ i - 1 = n /\ n \in 0..(n + 1) /\ n # n + 1
        BY <3>1
      <4>2. g[i - 1] = f[n]
        BY <4>1
      <4>3. g[i] = IF s[i] \in S THEN Append(f[n], s[i]) ELSE f[n]
        BY <3>1
      <4> HIDE DEF g
      <4>4. QED
        BY <4>1, <4>2, <4>3
    <3>2. CASE i # n + 1
      <4>1. i \in 0..n /\ g[i] = f[i]
        BY <3>2
      <4>2. i # 0 => i - 1 \in 0..(n + 1) /\ i - 1 # n + 1 /\ g[i - 1] = f[i - 1]
        BY <3>2
      <4> HIDE DEF g
      <4>3. QED
        BY <2>2, <4>1, <4>2
    <3>3. QED
      BY <3>1, <3>2
  <2>4. g = [i \in 0..(n + 1) |-> IF i = 0 THEN <<>>
                                  ELSE IF s[i] \in S THEN Append(g[i - 1], s[i]) ELSE g[i - 1]]
    BY <2>3
  <2> HIDE DEF g
  <2>5. KeptExists(n + 1, s, S)
    BY <2>4 DEF KeptExists
  <2>6. QED
    BY <2>5
<1> HIDE DEF T
<1>3. Nat \subseteq T
  BY <1>1, <1>2, SinkInduction
<1>4. QED
  BY <1>3 DEF T

\* Keeping takes one item after the other.
KeptBy(f, s, S) ==
  /\ f[0] = <<>>
  /\ \A i \in 1..Len(s) : f[i] = IF s[i] \in S THEN Append(f[i - 1], s[i]) ELSE f[i - 1]

\* Keeping is a function of this kind at the end of the list.
LEMMA KeepingSteps ==
  ASSUME NEW s, Len(s) \in Nat, NEW S
  PROVE  \E f : Keeping(s, S) = f[Len(s)] /\ KeptBy(f, s, S)
<1> DEFINE G(f) == f = [i \in 0..Len(s) |-> IF i = 0 THEN <<>>
                                            ELSE IF s[i] \in S THEN Append(f[i - 1], s[i])
                                                 ELSE f[i - 1]]
           h == CHOOSE f : G(f)
<1>0. KeptExists(Len(s), s, S)
  BY KeptExist
<1>1. \E f : G(f)
  BY <1>0 DEF KeptExists
<1>2. G(h)
  BY <1>1
<1>3. Keeping(s, S) = h[Len(s)]
  BY DEF Keeping
<1> HIDE DEF h
<1>4. \A i \in 0..Len(s) : h[i] = IF i = 0 THEN <<>>
                                  ELSE IF s[i] \in S THEN Append(h[i - 1], s[i]) ELSE h[i - 1]
  BY <1>2
<1>5. h[0] = <<>>
  <2>1. 0 \in 0..Len(s)
    OBVIOUS
  <2>2. QED
    BY <1>4, <2>1
<1>6. \A i \in 1..Len(s) : i \in 0..Len(s) /\ i # 0
  OBVIOUS
<1>7. KeptBy(h, s, S)
  BY <1>4, <1>5, <1>6 DEF KeptBy
<1>8. QED
  BY <1>3, <1>7

\* The entries of a list, and that each has a run of its own.
Items_(s) == {s[i] : i \in 1..Len(s)}
OwnRuns(s) == \A i, j \in 1..Len(s) : s[i].run = s[j].run => i = j

\* What has been kept of the first n items.
KeptOf(t, s, S, n, T) ==
  /\ t \in Seq(T) /\ \A x : x \in Items_(t) <=> x \in S /\ \E i \in 1..n : s[i] = x
  /\ OwnRuns(s) => OwnRuns(t)

\* What is kept are the items of the set, and none of them twice.
LEMMA KeepingFacts ==
  ASSUME NEW T, NEW s \in Seq(T), NEW S
  PROVE  KeptOf(Keeping(s, S), s, S, Len(s), T)
<1>1. Len(s) \in Nat
  BY LenProperties
<1>2. PICK f : Keeping(s, S) = f[Len(s)] /\ KeptBy(f, s, S)
  BY <1>1, KeepingSteps
<1> DEFINE P == {n \in Nat : n <= Len(s) => KeptOf(f[n], s, S, n, T)}
<1>3. 0 \in P
  <2>1. f[0] = <<>> /\ Len(f[0]) = 0 /\ f[0] \in Seq(T)
    BY <1>2, EmptySeq DEF KeptBy
  <2>2. PICK t : t = f[0]
    OBVIOUS
  <2>3. t \in Seq(T) /\ 1..Len(t) = {} /\ 1..0 = {}
    BY <2>1, <2>2
  <2>4. Items_(t) = {} /\ OwnRuns(t)
    BY <2>3 DEF Items_, OwnRuns
  <2>5. KeptOf(t, s, S, 0, T)
    BY <2>3, <2>4 DEF KeptOf
  <2>6. QED
    BY <2>2, <2>5
<1>4. ASSUME NEW n \in Nat, n \in P PROVE n + 1 \in P
  <2> SUFFICES ASSUME n + 1 <= Len(s) PROVE KeptOf(f[n + 1], s, S, n + 1, T)
    OBVIOUS
  <2>1. PICK t : t = f[n]
    OBVIOUS
  <2>2. KeptOf(t, s, S, n, T)
    BY <1>1, <1>4, <2>1
  <2>3. PICK m \in 1..Len(s) : m = n + 1
    BY <1>1
  <2>4. f[m] = IF s[m] \in S THEN Append(t, s[m]) ELSE t
    <3>1. m - 1 = n
      BY <2>3
    <3>2. QED
      BY <1>2, <2>1, <3>1 DEF KeptBy
  <2>5. s[m] \in T
    BY ElementOfSeq
  <2>6. \A i \in 1..m : i \in 1..n \/ i = m
    BY <2>3
  <2>7. 1..n \subseteq 1..m /\ m \in 1..m
    BY <2>3
  <2>8. CASE s[m] \notin S
    <3>1. f[m] = t
      BY <2>4, <2>8
    <3>2. \A x : x \in Items_(t) <=> x \in S /\ \E i \in 1..m : s[i] = x
      BY <2>2, <2>6, <2>7, <2>8 DEF KeptOf
    <3>3. KeptOf(t, s, S, m, T)
      BY <2>2, <3>2 DEF KeptOf
    <3>4. QED
      BY <2>3, <3>1, <3>3
  <2>9. CASE s[m] \in S
    <3>1. PICK u : u = Append(t, s[m])
      OBVIOUS
    <3>2. t \in Seq(T) /\ Len(t) \in Nat
      BY <2>2, LenProperties DEF KeptOf
    <3>3. PICK l \in Nat : l = Len(t)
      BY <3>2
    <3>4. /\ u \in Seq(T) /\ Len(u) = l + 1 /\ u[l + 1] = s[m]
          /\ \A i \in 1..l : u[i] = t[i]
      BY <2>5, <3>1, <3>2, <3>3, AppendProperties
    <3>5. \A i \in 1..(l + 1) : i \in 1..l \/ i = l + 1
      OBVIOUS
    <3>6. 1..l \subseteq 1..(l + 1) /\ l + 1 \in 1..(l + 1)
      OBVIOUS
    <3>7. \A x : x \in Items_(u) <=> x \in Items_(t) \/ x = s[m]
      BY <3>3, <3>4, <3>5, <3>6 DEF Items_
    <3>8. \A x : x \in Items_(u) <=> x \in S /\ \E i \in 1..m : s[i] = x
      BY <2>2, <2>6, <2>7, <2>9, <3>7 DEF KeptOf
    <3>9. ASSUME OwnRuns(s) PROVE OwnRuns(u)
      <4>1. ASSUME NEW i \in 1..l PROVE t[i].run # s[m].run
        <5>1. t[i] \in Items_(t)
          BY <3>3 DEF Items_
        <5>2. PICK k \in 1..n : s[k] = t[i]
          BY <2>2, <5>1 DEF KeptOf
        <5>3. k \in 1..Len(s) /\ k # m
          BY <1>1, <2>3
        <5>4. QED
          BY <3>9, <5>2, <5>3 DEF OwnRuns
      <4>2. ASSUME NEW i \in 1..(l + 1), NEW j \in 1..(l + 1), u[i].run = u[j].run PROVE i = j
        <5>1. CASE i \in 1..l /\ j \in 1..l
          BY <2>2, <3>3, <3>4, <3>9, <4>2, <5>1 DEF KeptOf, OwnRuns
        <5>2. CASE i \in 1..l /\ j = l + 1
          BY <3>4, <4>1, <4>2, <5>2
        <5>3. CASE i = l + 1 /\ j \in 1..l
          BY <3>4, <4>1, <4>2, <5>3
        <5>4. QED
          BY <3>5, <5>1, <5>2, <5>3
      <4>3. QED
        BY <3>4, <4>2 DEF OwnRuns
    <3>10. KeptOf(u, s, S, m, T)
      BY <3>4, <3>8, <3>9 DEF KeptOf
    <3>11. QED
      BY <2>3, <2>4, <2>9, <3>1, <3>10
  <2>10. QED
    BY <2>8, <2>9
<1> HIDE DEF P
<1>5. Nat \subseteq P
  BY <1>3, <1>4, SinkInduction
<1>6. Len(s) \in P
  BY <1>1, <1>5
<1>7. QED
  BY <1>1, <1>2, <1>6 DEF P

-----------------------------------------------------------------------------
\* The telemetry sink's traces under way, and the spans that are open.
Invocations == Nat \ {0}
TraceStates == [run : Runs, last : Nat, seen : Nat, open : Seq(Invocations),
                done : Seq(Invocations)]
OpenSpans(ss) == {s \in DOMAIN ss : ss[s] = "open"}
NoneTwice(ss) == \A s \in DOMAIN ss : ss[s] # "twice"
SpansOf(L) == UNION {Incomplete(t) : t \in L}

\* Each run has one trace at most, and open are the spans of the traces.
SpansPaired(L, O) == O = SpansOf(L) /\ \A t, u \in L : t.run = u.run => t = u

\* The traces and the spans agree.
Consistent(ts, ss) ==
  ts \in Seq(TraceStates) /\ NoneTwice(ss) /\ SpansPaired(ToSet(ts), OpenSpans(ss))

\* What a sequence consists of.
LEMMA ToSetItems ==
  ASSUME NEW T, NEW s \in Seq(T)
  PROVE  ToSet(s) = Items_(s) /\ ToSet(s) \subseteq T
<1>1. DOMAIN s = 1..Len(s) /\ \A i \in 1..Len(s) : s[i] \in T
  BY LenProperties, ElementOfSeq
<1>2. QED
  BY <1>1 DEF ToSet, Items_

\* One more item, and one that leaves.
LEMMA SetOfAppend ==
  ASSUME NEW T, NEW s \in Seq(T), NEW x \in T
  PROVE  Append(s, x) \in Seq(T) /\ ToSet(Append(s, x)) = ToSet(s) \cup {x}
<1>1. PICK u, l : u = Append(s, x) /\ l = Len(s)
  OBVIOUS
<1>2. /\ u \in Seq(T) /\ Len(u) = l + 1 /\ u[l + 1] = x /\ l \in Nat
      /\ \A i \in 1..l : u[i] = s[i]
  BY <1>1, AppendProperties, LenProperties
<1>3. (\A i \in 1..(l + 1) : i \in 1..l \/ i = l + 1) /\ 1..l \subseteq 1..(l + 1)
      /\ l + 1 \in 1..(l + 1)
  BY <1>2
<1>4. Items_(u) = Items_(s) \cup {x}
  BY <1>1, <1>2, <1>3 DEF Items_
<1>5. QED
  BY <1>1, <1>2, <1>4, ToSetItems

\* What leaves a list at its head was in it.
LEMMA SetOfTail ==
  ASSUME NEW T, NEW s \in Seq(T), Len(s) # 0
  PROVE  Tail(s) \in Seq(T) /\ Head(s) \in ToSet(s) /\ ToSet(Tail(s)) \subseteq ToSet(s)
<1>1. /\ Head(s) \in T /\ Head(s) = s[1] /\ Tail(s) \in Seq(T) /\ Len(s) \in Nat
      /\ Len(Tail(s)) = Len(s) - 1 /\ \A i \in 1..Len(Tail(s)) : Tail(s)[i] = s[i + 1]
  BY HeadTailProperties, LenProperties, ElementOfSeq, EmptySeq
<1>2. PICK u, l : u = Tail(s) /\ l = Len(s)
  OBVIOUS
<1>3. u \in Seq(T) /\ l \in Nat /\ Len(u) = l - 1 /\ \A i \in 1..Len(u) : u[i] = s[i + 1]
  BY <1>1, <1>2
<1>4. \A i \in 1..(l - 1) : i + 1 \in 1..l
  BY <1>3
<1>5. Items_(u) \subseteq Items_(s)
  BY <1>2, <1>3, <1>4 DEF Items_
<1>6. 1 \in 1..l
  BY <1>2, <1>3
<1>7. s[1] \in Items_(s)
  BY <1>2, <1>6 DEF Items_
<1>8. ToSet(u) = Items_(u) /\ ToSet(s) = Items_(s)
  BY <1>3, ToSetItems
<1>9. QED
  BY <1>1, <1>2, <1>5, <1>7, <1>8

\* What is kept of a list, as a set.
LEMMA SetOfKept ==
  ASSUME NEW T, NEW s \in Seq(T), NEW S
  PROVE  Keeping(s, S) \in Seq(T) /\ ToSet(Keeping(s, S)) = ToSet(s) \cap S
<1>1. PICK t : t = Keeping(s, S)
  OBVIOUS
<1>2. /\ t \in Seq(T)
      /\ \A x : x \in Items_(t) <=> x \in S /\ \E i \in 1..Len(s) : s[i] = x
  BY <1>1, KeepingFacts DEF KeptOf
<1>3. Items_(t) = Items_(s) \cap S
  BY <1>2 DEF Items_
<1>4. QED
  BY <1>1, <1>2, <1>3, ToSetItems

\* Open spans that are ended are ended once.
LEMMA EndFacts ==
  ASSUME NEW ss, NoneTwice(ss), NEW ids, ids \subseteq OpenSpans(ss), NEW how,
         how \in {"incomplete", "finished"}
  PROVE  NoneTwice(End(ss, ids, how)) /\ OpenSpans(End(ss, ids, how)) = OpenSpans(ss) \ ids
<1> DEFINE now2 == End(ss, ids, how)
<1>1. DOMAIN now2 = DOMAIN ss
  BY DEF End
<1>2. \A s \in DOMAIN ss : s \in ids => now2[s] = how
  BY DEF End, OpenSpans
<1>3. \A s \in DOMAIN ss : s \notin ids => now2[s] = ss[s]
  BY DEF End
<1>4. how # "twice" /\ how # "open"
  OBVIOUS
<1> HIDE DEF now2
<1>5. NoneTwice(now2) /\ OpenSpans(now2) = OpenSpans(ss) \ ids
  BY <1>1, <1>2, <1>3, <1>4 DEF NoneTwice, OpenSpans
<1>6. QED
  BY <1>5 DEF now2

\* A span that is started is open.
LEMMA StartFacts ==
  ASSUME NEW ss, NoneTwice(ss), NEW id
  PROVE  NoneTwice(Start(ss, id)) /\ OpenSpans(Start(ss, id)) = OpenSpans(ss) \cup {id}
<1> DEFINE now2 == Start(ss, id)
<1>1. DOMAIN now2 = DOMAIN ss \cup {id} /\ now2[id] = "open"
  BY DEF Start
<1>2. \A s \in DOMAIN ss : s # id => now2[s] = ss[s]
  BY DEF Start
<1> HIDE DEF now2
<1>3. NoneTwice(now2) /\ OpenSpans(now2) = OpenSpans(ss) \cup {id}
  BY <1>1, <1>2 DEF NoneTwice, OpenSpans
<1>4. QED
  BY <1>3 DEF now2

\* A span belongs to one run.
LEMMA SpansApart ==
  ASSUME NEW t, NEW u, t.run # u.run
  PROVE  Incomplete(t) \cap Incomplete(u) = {}
<1>1. \A a, b, i, j : Span(a, i) = Span(b, j) => a = b /\ i = j
  BY DEF Span
<1>2. QED
  BY <1>1 DEF Incomplete

\* Traces that go take their spans with them.
LEMMA RemoveTraces ==
  ASSUME NEW L, NEW O, SpansPaired(L, O), NEW gone, gone \subseteq L
  PROVE  SpansPaired(L \ gone, O \ SpansOf(gone)) /\ SpansOf(gone) \subseteq O
<1>1. \A t \in L \ gone, u \in gone : Incomplete(t) \cap Incomplete(u) = {}
  BY SpansApart DEF SpansPaired
<1>2. SpansOf(L) \ SpansOf(gone) = SpansOf(L \ gone)
  BY <1>1 DEF SpansOf
<1>3. QED
  BY <1>2 DEF SpansPaired, SpansOf

\* A trace that comes brings its own.
LEMMA AddTrace ==
  ASSUME NEW L, NEW O, SpansPaired(L, O), NEW t, \A u \in L : u.run # t.run
  PROVE  SpansPaired(L \cup {t}, O \cup Incomplete(t))
<1>1. SpansOf(L \cup {t}) = SpansOf(L) \cup Incomplete(t)
  BY DEF SpansOf
<1>2. QED
  BY <1>1 DEF SpansPaired

\* One trace takes the place of another of its run.
LEMMA ReplaceTrace ==
  ASSUME NEW L, NEW O, SpansPaired(L, O), NEW t \in L, NEW u, u.run = t.run
  PROVE  SpansPaired((L \ {t}) \cup {u}, (O \ Incomplete(t)) \cup Incomplete(u))
<1>1. SpansOf({t}) = Incomplete(t)
  BY DEF SpansOf
<1>2. PICK M, P : M = L \ {t} /\ P = O \ Incomplete(t)
  OBVIOUS
<1>3. SpansPaired(M, P)
  <2>1. {t} \subseteq L
    OBVIOUS
  <2>2. SpansPaired(L \ {t}, O \ SpansOf({t}))
    BY <2>1, RemoveTraces
  <2>3. QED
    BY <1>1, <1>2, <2>2
<1>4. \A v \in M : v.run # u.run
  BY <1>2 DEF SpansPaired
<1>5. SpansPaired(M \cup {u}, P \cup Incomplete(u))
  BY <1>3, <1>4, AddTrace
<1>6. QED
  BY <1>2, <1>5

\* Put replaces the trace of a run.
LEMMA SetOfPut ==
  ASSUME NEW ts \in Seq(TraceStates), NEW t \in ToSet(ts), NEW u \in TraceStates, u.run = t.run,
         \A v, w \in ToSet(ts) : v.run = w.run => v = w
  PROVE  Put(ts, u) \in Seq(TraceStates) /\ ToSet(Put(ts, u)) = (ToSet(ts) \ {t}) \cup {u}
<1>1. PICK now2, l : now2 = Put(ts, u) /\ l = Len(ts)
  OBVIOUS
<1>2. l \in Nat /\ DOMAIN ts = 1..l /\ \A i \in 1..l : ts[i] \in TraceStates
  BY <1>1, LenProperties, ElementOfSeq
<1>3. now2 = [i \in 1..l |-> IF ts[i].run = u.run THEN u ELSE ts[i]]
  BY <1>1, <1>2 DEF Put
<1>4. now2 \in [1..l -> TraceStates]
  BY <1>2, <1>3
<1>5. now2 \in Seq(TraceStates) /\ Len(now2) = l
  BY <1>2, <1>4, IsASeq, LenProperties
<1>6. \A i \in 1..l : now2[i] = IF ts[i].run = u.run THEN u ELSE ts[i]
  BY <1>3
<1>7. ToSet(ts) = {ts[i] : i \in 1..l}
  BY <1>2 DEF ToSet
<1>8. \A i \in 1..l : now2[i] = IF ts[i] = t THEN u ELSE ts[i]
  BY <1>6, <1>7
<1>9. \E i \in 1..l : ts[i] = t
  BY <1>7
<1>10. {now2[i] : i \in 1..l} = (ToSet(ts) \ {t}) \cup {u}
  BY <1>7, <1>8, <1>9
<1>11. ToSet(now2) = {now2[i] : i \in 1..l}
  BY <1>5, ToSetItems DEF Items_
<1>12. QED
  BY <1>1, <1>5, <1>10, <1>11

\* A trace changes, and the spans with it.
LEMMA PutConsistent ==
  ASSUME NEW ts, NEW ss, Consistent(ts, ss), NEW t \in ToSet(ts), NEW u \in TraceStates,
         u.run = t.run, NEW ss2, NoneTwice(ss2),
         OpenSpans(ss2) = (OpenSpans(ss) \ Incomplete(t)) \cup Incomplete(u)
  PROVE  Consistent(Put(ts, u), ss2)
<1>1. Put(ts, u) \in Seq(TraceStates) /\ ToSet(Put(ts, u)) = (ToSet(ts) \ {t}) \cup {u}
  BY SetOfPut DEF Consistent, SpansPaired
<1>2. PICK L, O : L = ToSet(ts) /\ O = OpenSpans(ss)
  OBVIOUS
<1>3. SpansPaired(L, O)
  BY <1>2 DEF Consistent
<1>4. SpansPaired((L \ {t}) \cup {u}, (O \ Incomplete(t)) \cup Incomplete(u))
  BY <1>2, <1>3, ReplaceTrace
<1>5. QED
  BY <1>1, <1>2, <1>4 DEF Consistent

\* Traces are closed as incomplete.
LEMMA CloseConsistent ==
  ASSUME NEW ts, NEW ss, Consistent(ts, ss), NEW gone, gone \subseteq ToSet(ts)
  PROVE  Consistent(Keeping(ts, ToSet(ts) \ gone), CloseAll(ss, gone))
<1>1. PICK L, O, ids : L = ToSet(ts) /\ O = OpenSpans(ss) /\ ids = SpansOf(gone)
  OBVIOUS
<1>2. SpansPaired(L, O) /\ NoneTwice(ss) /\ ts \in Seq(TraceStates)
  BY <1>1 DEF Consistent
<1>3. SpansPaired(L \ gone, O \ ids) /\ ids \subseteq O
  BY <1>1, <1>2, RemoveTraces
<1>4. CloseAll(ss, gone) = End(ss, ids, "incomplete")
  BY <1>1 DEF CloseAll, SpansOf
<1>5. NoneTwice(End(ss, ids, "incomplete")) /\ OpenSpans(End(ss, ids, "incomplete")) = O \ ids
  BY <1>1, <1>2, <1>3, EndFacts
<1>6. /\ Keeping(ts, ToSet(ts) \ gone) \in Seq(TraceStates)
      /\ ToSet(Keeping(ts, ToSet(ts) \ gone)) = L \ gone
  BY <1>1, <1>2, SetOfKept
<1>7. QED
  BY <1>3, <1>4, <1>5, <1>6 DEF Consistent

-----------------------------------------------------------------------------
\* The limits leave room: the trace that makes room is one of them.
LEMMA RoomIsATrace ==
  ASSUME TelemetryAssumption, NEW ts \in Seq(TraceStates)
  PROVE  TraceRoom(ts) \subseteq ToSet(ts)
<1>1. CASE Len(ts) < MaxActiveTraces
  BY <1>1 DEF TraceRoom
<1>2. CASE ~(Len(ts) < MaxActiveTraces)
  <2>1. PICK l \in Nat : l = Len(ts)
    BY LenProperties
  <2>2. DOMAIN ts = 1..l /\ \A i \in 1..l : ts[i] \in TraceStates
    BY <2>1, LenProperties, ElementOfSeq
  <2>3. 1 \in 1..l
    BY <1>2, <2>1 DEF TelemetryAssumption
  <2> DEFINE seen(i) == ts[i].seen
             U == {ts[i].seen : i \in 1..l}
  <2>4. \A i \in 1..l : ts[i].seen \in Nat
    BY <2>2 DEF TraceStates
  <2>5. PICK m \in U : \A n \in U : m <= n
    <3>1. U \in SUBSET Nat /\ U # {}
      BY <2>3, <2>4
    <3> HIDE DEF U
    <3>2. QED
      BY <3>1, SinkLeast
  <2>6. PICK V : V = {i \in 1..l : ts[i].seen = m}
    OBVIOUS
  <2>7. V \in SUBSET Nat /\ V # {}
    BY <2>5, <2>6
  <2>8. PICK k \in V : \A j \in V : k <= j
    BY <2>7, SinkLeast
  <2>9. k \in 1..l /\ ts[k].seen = m /\ m \in Nat
    BY <2>4, <2>6, <2>8
  <2>10. \A j \in 1..l : ts[k].seen < ts[j].seen \/ (ts[k].seen = ts[j].seen /\ k <= j)
    <3> TAKE j \in 1..l
    <3>1. CASE ts[j].seen = m
      BY <2>6, <2>8, <2>9, <3>1
    <3>2. CASE ts[j].seen # m
      <4>1. m <= ts[j].seen
        BY <2>5
      <4>2. m < ts[j].seen
        BY <2>4, <2>9, <3>2, <4>1
      <4>3. QED
        BY <2>9, <4>2
    <3>3. QED
      BY <3>1, <3>2
  <2> DEFINE P(i) == \A j \in DOMAIN ts :
                       ts[i].seen < ts[j].seen \/ (ts[i].seen = ts[j].seen /\ i <= j)
             first == CHOOSE i \in DOMAIN ts : P(i)
  <2>11. \E i \in DOMAIN ts : P(i)
    BY <2>2, <2>9, <2>10
  <2>12. first \in DOMAIN ts
    BY <2>11
  <2>13. TraceRoom(ts) = {ts[first]}
    BY <1>2 DEF TraceRoom
  <2> HIDE DEF first
  <2>14. QED
    BY <2>12, <2>13 DEF ToSet
<1>3. QED
  BY <1>1, <1>2

\* A run that is not under way gets a trace and its span.
LEMMA StartRunConsistent ==
  ASSUME TelemetryAssumption, NEW ts, NEW ss, Consistent(ts, ss), NEW run \in Runs,
         NEW seq \in Nat, NEW clock \in Nat, ~Known(ts, run), StartRun(run, seq, clock, ts, ss)
  PROVE  Consistent(traces', spans')
<1>1. PICK gone : gone = TraceRoom(ts)
  OBVIOUS
<1>2. ts \in Seq(TraceStates)
  BY DEF Consistent
<1>3. gone \subseteq ToSet(ts)
  BY <1>1, <1>2, RoomIsATrace
<1>4. PICK rest, closed : /\ rest = Keeping(ts, ToSet(ts) \ gone)
                          /\ closed = CloseAll(ss, gone)
  OBVIOUS
<1>5. Consistent(rest, closed) /\ ToSet(rest) \subseteq ToSet(ts)
  BY <1>2, <1>3, <1>4, CloseConsistent, SetOfKept
<1>6. PICK t : t = [run |-> run, last |-> seq, seen |-> clock, open |-> <<>>, done |-> <<>>]
  OBVIOUS
<1>7. t \in TraceStates /\ t.run = run
  <2>1. <<>> \in Seq(Invocations)
    BY EmptySeq
  <2>2. QED
    BY <1>6, <2>1 DEF TraceStates
<1>8. Incomplete(t) = {Span(run, 0)}
  <2>1. t.run = run /\ ToSet(t.open) = {}
    BY <1>6 DEF ToSet
  <2>2. QED
    BY <2>1 DEF Incomplete
<1>9. \A u \in ToSet(rest) : u.run # run
  BY <1>5 DEF Known, ToSet
<1>10. PICK L, O : L = ToSet(rest) /\ O = OpenSpans(closed)
  OBVIOUS
<1>11. SpansPaired(L, O) /\ NoneTwice(closed) /\ rest \in Seq(TraceStates)
  BY <1>5, <1>10 DEF Consistent
<1>12. SpansPaired(L \cup {t}, O \cup Incomplete(t))
  BY <1>7, <1>9, <1>10, <1>11, AddTrace
<1>13. traces' = Append(rest, t) /\ spans' = Start(closed, Span(run, 0))
  BY <1>1, <1>4, <1>6 DEF StartRun
<1>14. NoneTwice(spans') /\ OpenSpans(spans') = O \cup Incomplete(t)
  BY <1>8, <1>10, <1>11, <1>13, StartFacts
<1>15. traces' \in Seq(TraceStates) /\ ToSet(traces') = L \cup {t}
  BY <1>7, <1>10, <1>11, <1>13, SetOfAppend
<1>16. QED
  BY <1>12, <1>14, <1>15 DEF Consistent

\* A trace that has heard of another event.
Heard(t, s) ==
  /\ t \in TraceStates /\ s \in TraceStates
  /\ s.run = t.run /\ s.open = t.open

\* Hearing of an event changes none of the spans that are open.
LEMMA HeardSpans ==
  ASSUME NEW t, NEW s, Heard(t, s) PROVE Incomplete(s) = Incomplete(t)
BY DEF Heard, Incomplete

\* The spans of a trace are open, each invocation's and the run's own.
LEMMA SpansAreOpen ==
  ASSUME NEW ts, NEW ss, Consistent(ts, ss), NEW t \in ToSet(ts)
  PROVE  Incomplete(t) \subseteq OpenSpans(ss)
BY DEF Consistent, SpansPaired, SpansOf

\* Nothing is opened or ended.
LEMMA HeardConsistent ==
  ASSUME NEW ts, NEW ss, Consistent(ts, ss), NEW t \in ToSet(ts), NEW s, Heard(t, s)
  PROVE  Consistent(Put(ts, s), ss)
<1>1. Incomplete(t) \subseteq OpenSpans(ss) /\ Incomplete(s) = Incomplete(t)
  BY SpansAreOpen, HeardSpans
<1>2. PICK O, I, J : O = OpenSpans(ss) /\ I = Incomplete(t) /\ J = Incomplete(s)
  OBVIOUS
<1>3. O = (O \ I) \cup J
  BY <1>1, <1>2
<1>4. s \in TraceStates /\ s.run = t.run /\ NoneTwice(ss)
  BY DEF Heard, Consistent
<1>5. QED
  BY <1>2, <1>3, <1>4, PutConsistent

\* The run ends: its operations are incomplete, itself is finished.
LEMMA FinishRunConsistent ==
  ASSUME NEW ts, NEW ss, Consistent(ts, ss), NEW t \in ToSet(ts), NEW s, Heard(t, s),
         FinishRun(t.run, s, ts, ss)
  PROVE  Consistent(traces', spans')
<1>1. PICK run, ops, root : /\ run = t.run /\ root = {Span(run, 0)}
                           /\ ops = {Span(run, i) : i \in ToSet(t.open)}
  OBVIOUS
<1>2. Incomplete(t) = ops \cup root
  BY <1>1 DEF Incomplete
<1>3. ops \cap root = {}
  <2>1. \A i : i \in ToSet(t.open) => i # 0
    BY ToSetItems DEF Heard, TraceStates, Invocations
  <2>2. \A i : Span(run, i) = Span(run, 0) => i = 0
    BY DEF Span
  <2>3. QED
    BY <1>1, <2>1, <2>2
<1>4. PICK L, O : L = ToSet(ts) /\ O = OpenSpans(ss)
  OBVIOUS
<1>5. SpansPaired(L, O) /\ NoneTwice(ss) /\ ts \in Seq(TraceStates) /\ ops \cup root \subseteq O
  BY <1>2, <1>4, SpansAreOpen DEF Consistent
<1>6. PICK half : half = End(ss, ops, "incomplete")
  OBVIOUS
<1>7. NoneTwice(half) /\ OpenSpans(half) = O \ ops
  BY <1>4, <1>5, <1>6, EndFacts
<1>8. spans' = End(half, root, "finished")
  BY <1>1, <1>6 DEF FinishRun, Heard
<1>9. root \subseteq OpenSpans(half)
  BY <1>3, <1>5, <1>7
<1>10. NoneTwice(spans') /\ OpenSpans(spans') = (O \ ops) \ root
  BY <1>7, <1>8, <1>9, EndFacts
<1>11. {t} \subseteq L /\ SpansOf({t}) = ops \cup root
  BY <1>2, <1>4 DEF SpansOf
<1>12. SpansPaired(L \ {t}, O \ (ops \cup root))
  BY <1>5, <1>11, RemoveTraces
<1>13. /\ traces' \in Seq(TraceStates)
       /\ ToSet(traces') = ToSet(ts) \cap {v \in ToSet(ts) : v.run # run}
  BY <1>1, <1>5, SetOfKept DEF FinishRun
<1>14. ToSet(traces') = L \ {t}
  BY <1>1, <1>4, <1>5, <1>13 DEF SpansPaired
<1>15. (O \ ops) \ root = O \ (ops \cup root)
  OBVIOUS
<1>16. QED
  BY <1>10, <1>12, <1>13, <1>14, <1>15 DEF Consistent

\* What is remembered of completed operations is no matter of the spans.
LEMMA RememberHeard ==
  ASSUME TelemetryAssumption, NEW s \in TraceStates, NEW inv \in Invocations
  PROVE  /\ Remember(s, inv) \in TraceStates /\ Remember(s, inv).run = s.run
         /\ Remember(s, inv).open = s.open
<1>1. s.done \in Seq(Invocations)
  BY DEF TraceStates
<1>2. PICK d : d = IF Len(s.done) >= MaxSpans THEN Tail(s.done) ELSE s.done
  OBVIOUS
<1>3. d \in Seq(Invocations)
  <2>1. Len(s.done) >= MaxSpans => Len(s.done) # 0
    BY DEF TelemetryAssumption
  <2>2. QED
    BY <1>1, <1>2, <2>1, SetOfTail
<1>4. Append(d, inv) \in Seq(Invocations)
  BY <1>3, AppendProperties
<1>5. Remember(s, inv) = [s EXCEPT !.done = Append(d, inv)]
  BY <1>2 DEF Remember
<1>6. QED
  BY <1>4, <1>5 DEF TraceStates

\* An operation that ends takes its span with it.
LEMMA FinishOperationConsistent ==
  ASSUME TelemetryAssumption, NEW ts, NEW ss, Consistent(ts, ss), NEW t \in ToSet(ts), NEW s,
         Heard(t, s), NEW inv, FinishOperation(t.run, inv, s, ts, ss)
  PROVE  Consistent(traces', spans')
<1>1. CASE inv \notin ToSet(s.open)
  <2>1. traces' = Put(ts, s) /\ spans' = ss
    BY <1>1 DEF FinishOperation
  <2>2. QED
    BY <2>1, HeardConsistent
<1>2. CASE inv \in ToSet(s.open)
  <2>1. s.open \in Seq(Invocations) /\ inv \in Invocations /\ inv # 0 /\ s \in TraceStates
    <3>1. s.open \in Seq(Invocations)
      BY DEF Heard, TraceStates
    <3>2. QED
      BY <1>2, <3>1, ToSetItems DEF Invocations, Heard
  <2>2. PICK left : left = Keeping(s.open, ToSet(s.open) \ {inv})
    OBVIOUS
  <2>3. left \in Seq(Invocations) /\ ToSet(left) = ToSet(s.open) \ {inv}
    BY <2>1, <2>2, SetOfKept
  <2>4. PICK v : v = [s EXCEPT !.open = left]
    OBVIOUS
  <2>5. v \in TraceStates /\ v.run = t.run /\ v.open = left
    BY <2>1, <2>3, <2>4 DEF TraceStates, Heard
  <2>6. PICK u : u = Remember(v, inv)
    OBVIOUS
  <2>7. u \in TraceStates /\ u.run = t.run /\ u.open = left
    BY <2>1, <2>5, <2>6, RememberHeard
  <2>8. traces' = Put(ts, u) /\ spans' = End(ss, {Span(t.run, inv)}, "finished")
    BY <1>2, <2>2, <2>4, <2>6 DEF FinishOperation
  <2>9. {Span(t.run, inv)} \subseteq Incomplete(t)
    BY <1>2 DEF Incomplete, Heard
  <2>10. NoneTwice(spans') /\ OpenSpans(spans') = OpenSpans(ss) \ {Span(t.run, inv)}
    BY <2>8, <2>9, EndFacts, SpansAreOpen DEF Consistent
  <2>11. Incomplete(u) = Incomplete(t) \ {Span(t.run, inv)}
    <3>1. \A i : Span(t.run, i) = Span(t.run, inv) => i = inv
      BY DEF Span
    <3>2. ToSet(u.open) = ToSet(t.open) \ {inv} /\ u.run = t.run
      BY <2>3, <2>7 DEF Heard
    <3>3. QED
      BY <2>1, <3>1, <3>2 DEF Incomplete
  <2>12. PICK O, I, J : O = OpenSpans(ss) /\ I = Incomplete(t) /\ J = Incomplete(u)
    OBVIOUS
  <2>13. OpenSpans(spans') = (O \ I) \cup J
    BY <2>9, <2>10, <2>11, <2>12, SpansAreOpen
  <2>14. QED
    BY <2>7, <2>8, <2>10, <2>12, <2>13, PutConsistent
<1>3. QED
  BY <1>1, <1>2

\* The room for a new span is made by the oldest.
LEMMA SpanRoomFacts ==
  ASSUME TelemetryAssumption, NEW s \in TraceStates
  PROVE  /\ SpanRoom(s) \in TraceStates /\ SpanRoom(s).run = s.run
         /\ ToSet(SpanRoom(s).open) \subseteq ToSet(s.open)
<1>1. CASE Len(s.open) >= MaxSpans
  <2>1. s.open \in Seq(Invocations) /\ Len(s.open) # 0
    BY <1>1 DEF TraceStates, TelemetryAssumption
  <2>2. PICK h, r : h = Head(s.open) /\ r = Tail(s.open)
    OBVIOUS
  <2>3. h \in Invocations /\ r \in Seq(Invocations) /\ ToSet(r) \subseteq ToSet(s.open)
    BY <2>1, <2>2, SetOfTail, ToSetItems
  <2>4. PICK v : v = [s EXCEPT !.open = r]
    OBVIOUS
  <2>5. v \in TraceStates /\ v.run = s.run /\ v.open = r
    BY <2>3, <2>4 DEF TraceStates
  <2>6. SpanRoom(s) = Remember(v, h)
    BY <1>1, <2>2, <2>4 DEF SpanRoom
  <2>7. QED
    BY <2>3, <2>5, <2>6, RememberHeard
<1>2. CASE ~(Len(s.open) >= MaxSpans)
  BY <1>2 DEF SpanRoom
<1>3. QED
  BY <1>1, <1>2

\* An operation that starts may end the oldest one's span.
LEMMA StartOperationConsistent ==
  ASSUME TelemetryAssumption, NEW ts, NEW ss, Consistent(ts, ss), NEW t \in ToSet(ts), NEW s,
         Heard(t, s), NEW e, e.inv \in Invocations, StartOperation(t.run, e, s, ts, ss)
  PROVE  Consistent(traces', spans')
<1>1. CASE e.inv \in ToSet(s.open) \cup ToSet(s.done)
  <2>1. traces' = Put(ts, s) /\ spans' = ss
    BY <1>1 DEF StartOperation
  <2>2. QED
    BY <2>1, HeardConsistent
<1>2. CASE e.inv \notin ToSet(s.open) \cup ToSet(s.done)
  <2>1. PICK room, inv : room = SpanRoom(s) /\ inv = e.inv
    OBVIOUS
  <2>2. room \in TraceStates /\ room.run = t.run /\ ToSet(room.open) \subseteq ToSet(t.open)
    BY <2>1, SpanRoomFacts DEF Heard
  <2>3. PICK gone : gone = {Span(t.run, i) : i \in ToSet(s.open) \ ToSet(room.open)}
    OBVIOUS
  <2>4. PICK more : more = Append(room.open, inv)
    OBVIOUS
  <2>5. more \in Seq(Invocations) /\ ToSet(more) = ToSet(room.open) \cup {inv}
    BY <2>1, <2>2, <2>4, SetOfAppend DEF TraceStates
  <2>6. PICK u : u = [room EXCEPT !.open = more]
    OBVIOUS
  <2>7. u \in TraceStates /\ u.run = t.run /\ u.open = more
    BY <2>2, <2>5, <2>6 DEF TraceStates
  <2>8. PICK half : half = End(ss, gone, "incomplete")
    OBVIOUS
  <2>9. traces' = Put(ts, u) /\ spans' = Start(half, Span(t.run, inv))
    BY <1>2, <2>1, <2>3, <2>4, <2>6, <2>8 DEF StartOperation
  <2>10. gone \subseteq Incomplete(t) /\ Incomplete(t) \subseteq OpenSpans(ss)
    BY <2>3, SpansAreOpen DEF Incomplete, Heard
  <2>11. NoneTwice(half) /\ OpenSpans(half) = OpenSpans(ss) \ gone
    BY <2>8, <2>10, EndFacts DEF Consistent
  <2>12. NoneTwice(spans') /\ OpenSpans(spans') = OpenSpans(half) \cup {Span(t.run, inv)}
    BY <2>9, <2>11, StartFacts
  <2>13. Incomplete(u) = (Incomplete(t) \ gone) \cup {Span(t.run, inv)}
    <3>1. \A i, j : Span(t.run, i) = Span(t.run, j) => i = j
      BY DEF Span
    <3>2. t.open \in Seq(Invocations) /\ s.open = t.open
      BY DEF Heard, TraceStates
    <3>3. 0 \notin ToSet(t.open)
      BY <3>2, ToSetItems DEF Invocations
    <3>4. PICK A, B : A = ToSet(t.open) /\ B = ToSet(room.open)
      OBVIOUS
    <3>5. /\ Incomplete(u) = {Span(t.run, i) : i \in (B \cup {inv}) \cup {0}}
          /\ Incomplete(t) = {Span(t.run, i) : i \in A \cup {0}}
          /\ gone = {Span(t.run, i) : i \in A \ B} /\ B \subseteq A /\ 0 \notin A
      BY <2>2, <2>3, <2>5, <2>7, <3>2, <3>3, <3>4 DEF Incomplete
    <3>6. {Span(t.run, i) : i \in A \cup {0}} \ {Span(t.run, i) : i \in A \ B}
            = {Span(t.run, i) : i \in B \cup {0}}
      BY <3>1, <3>5
    <3>7. QED
      BY <3>5, <3>6
  <2>14. PICK O, I, J : O = OpenSpans(ss) /\ I = Incomplete(t) /\ J = Incomplete(u)
    OBVIOUS
  <2>15. OpenSpans(spans') = (O \ I) \cup J
    BY <2>10, <2>11, <2>12, <2>13, <2>14
  <2>16. QED
    BY <2>7, <2>9, <2>12, <2>14, <2>15, PutConsistent
<1>3. QED
  BY <1>1, <1>2

\* The events of a run, as the builder delivers them.
Delivered == {e \in [kind : EventKinds, inv : Nat, parent : Nat] : e.kind = "started" => e.inv # 0}

\* Every event leaves the traces and the spans in agreement.
LEMMA OfferConsistent ==
  ASSUME TelemetryAssumption, Consistent(traces, spans), NEW run \in Runs, NEW seq \in Nat,
         NEW e \in Delivered, NEW clock \in Nat, TelemetryOffer(run, seq, e, clock)
  PROVE  Consistent(traces', spans')
<1>1. CASE shutt
  <2>1. UNCHANGED <<traces, spans>>
    BY <1>1 DEF TelemetryOffer
  <2>2. QED
    BY <2>1 DEF Consistent
<1>2. CASE ~shutt
  <2>1. PICK gone : gone = Stale(clock)
    OBVIOUS
  <2>2. gone \subseteq ToSet(traces)
    BY <2>1 DEF Stale
  <2>3. PICK ts, ss : /\ ts = Keeping(traces, ToSet(traces) \ gone)
                      /\ ss = CloseAll(spans, gone)
    OBVIOUS
  <2>4. Consistent(ts, ss)
    BY <2>2, <2>3, CloseConsistent
  <2>5. PICK t : t = State(ts, run)
    OBVIOUS
  <2>6. PICK s : s = [run |-> run, last |-> seq, seen |-> clock, open |-> t.open, done |-> t.done]
    OBVIOUS
  <2>7. CASE ~Known(ts, run) /\ e.kind = "run_started"
    <3>1. StartRun(run, seq, clock, ts, ss)
      BY <1>2, <2>1, <2>3, <2>7 DEF TelemetryOffer
    <3>2. QED
      BY <2>4, <2>7, <3>1, StartRunConsistent
  <2>8. CASE ~Known(ts, run) /\ e.kind # "run_started"
    <3>1. traces' = ts /\ spans' = ss
      BY <1>2, <2>1, <2>3, <2>8 DEF TelemetryOffer
    <3>2. QED
      BY <2>4, <3>1 DEF Consistent
  <2>9. CASE Known(ts, run) /\ seq <= t.last
    <3>1. traces' = ts /\ spans' = ss
      BY <1>2, <2>1, <2>3, <2>5, <2>9 DEF TelemetryOffer
    <3>2. QED
      BY <2>4, <3>1 DEF Consistent
  <2>10. CASE Known(ts, run) /\ ~(seq <= t.last)
    <3>1. t \in ToSet(ts) /\ t.run = run
      <4>1. \E u \in ToSet(ts) : u.run = run
        BY <2>10 DEF Known, ToSet
      <4>2. QED
        BY <2>5, <4>1 DEF State
    <3>2. t \in TraceStates
      BY <2>4, <3>1, ToSetItems DEF Consistent
    <3>3. s \in TraceStates /\ s.run = t.run /\ s.open = t.open
      BY <2>6, <3>1, <3>2 DEF TraceStates
    <3>4. Heard(t, s)
      BY <3>2, <3>3 DEF Heard
    <3>5. \/ e.kind = "run_finished" /\ FinishRun(run, s, ts, ss)
          \/ e.kind = "started" /\ StartOperation(run, e, s, ts, ss)
          \/ e.kind = "finished" /\ FinishOperation(run, e.inv, s, ts, ss)
          \/ e.kind = "point" /\ Point(run, e, s, ts, ss)
          \/ e.kind = "run_started"
      <4>1. e.kind \in EventKinds
        BY DEF Delivered
      <4>2. PICK k : k = e.kind
        OBVIOUS
      <4>3. CASE k = "run_finished"
        BY <1>2, <2>1, <2>3, <2>5, <2>6, <2>10, <4>2, <4>3 DEF TelemetryOffer
      <4>4. CASE k = "started"
        BY <1>2, <2>1, <2>3, <2>5, <2>6, <2>10, <4>2, <4>4 DEF TelemetryOffer
      <4>5. CASE k = "finished"
        BY <1>2, <2>1, <2>3, <2>5, <2>6, <2>10, <4>2, <4>5 DEF TelemetryOffer
      <4>6. CASE k = "point"
        BY <1>2, <2>1, <2>3, <2>5, <2>6, <2>10, <4>2, <4>6 DEF TelemetryOffer
      <4>7. QED
        BY <4>1, <4>2, <4>3, <4>4, <4>5, <4>6 DEF EventKinds
    <3>6. CASE e.kind = "run_finished" /\ FinishRun(run, s, ts, ss)
      BY <2>4, <3>1, <3>4, <3>6, FinishRunConsistent
    <3>7. CASE e.kind = "started" /\ StartOperation(run, e, s, ts, ss)
      <4>1. e.inv \in Invocations
        BY <3>7 DEF Delivered, Invocations
      <4>2. QED
        BY <2>4, <3>1, <3>4, <3>7, <4>1, StartOperationConsistent
    <3>8. CASE e.kind = "finished" /\ FinishOperation(run, e.inv, s, ts, ss)
      BY <2>4, <3>1, <3>4, <3>8, FinishOperationConsistent
    <3>9. CASE e.kind = "point" /\ Point(run, e, s, ts, ss)
      <4>1. traces' = Put(ts, s) /\ spans' = ss
        BY <3>9 DEF Point
      <4>2. QED
        BY <2>4, <3>1, <3>4, <4>1, HeardConsistent
    <3>10. CASE e.kind = "run_started"
      <4>1. traces' = Put(ts, s) /\ spans' = ss
        BY <1>2, <2>1, <2>3, <2>5, <2>6, <2>10, <3>10 DEF TelemetryOffer
      <4>2. QED
        BY <2>4, <3>1, <3>4, <4>1, HeardConsistent
    <3>11. QED
      BY <3>5, <3>6, <3>7, <3>8, <3>9, <3>10
  <2>11. QED
    BY <2>7, <2>8, <2>9, <2>10
<1>3. QED
  BY <1>1, <1>2

\* Closing ends what every trace has open.
LEMMA TelemetryCloseConsistent ==
  ASSUME Consistent(traces, spans), TelemetryClose
  PROVE  Consistent(traces', spans')
<1>1. PICK L, O : L = ToSet(traces) /\ O = OpenSpans(spans)
  OBVIOUS
<1>2. SpansPaired(L, O) /\ NoneTwice(spans) /\ L \subseteq L
  BY <1>1 DEF Consistent
<1>3. SpansOf(L) = O
  BY <1>2 DEF SpansPaired
<1>4. spans' = End(spans, O, "incomplete") /\ traces' = <<>>
  BY <1>1, <1>3 DEF TelemetryClose, CloseAll, SpansOf
<1>5. NoneTwice(spans') /\ OpenSpans(spans') = O \ O
  BY <1>1, <1>2, <1>4, EndFacts
<1>6. traces' \in Seq(TraceStates) /\ ToSet(traces') = {}
  BY <1>4, EmptySeq DEF ToSet
<1>7. SpansPaired({}, {})
  BY DEF SpansPaired, SpansOf
<1>8. QED
  BY <1>5, <1>6, <1>7 DEF Consistent

\* Nothing is open at first.
LEMMA ConsistentAtFirst == ASSUME TelemetryInit PROVE Consistent(traces, spans)
<1>1. traces = <<>> /\ spans = <<>>
  BY DEF TelemetryInit
<1>2. traces \in Seq(TraceStates) /\ ToSet(traces) = {}
  BY <1>1, EmptySeq DEF ToSet
<1>3. DOMAIN spans = {}
  BY <1>1
<1>4. NoneTwice(spans) /\ OpenSpans(spans) = {}
  BY <1>3 DEF NoneTwice, OpenSpans
<1>5. SpansPaired({}, {})
  BY DEF SpansPaired, SpansOf
<1>6. QED
  BY <1>2, <1>4, <1>5 DEF Consistent

\* Traces and spans that agree are ended once.
LEMMA ConsistentEndsOnce == ASSUME Consistent(traces, spans) PROVE SpansEndOnce
<1>1. traces \in Seq(TraceStates) /\ NoneTwice(spans)
  BY DEF Consistent
<1>2. ToSet(traces) = {traces[i] : i \in DOMAIN traces}
  BY DEF ToSet
<1>3. OpenSpans(spans) = UNION {Incomplete(traces[i]) : i \in DOMAIN traces}
  BY <1>2 DEF Consistent, SpansPaired, SpansOf
<1>4. QED
  BY <1>1, <1>3 DEF SpansEndOnce, OpenSpans, NoneTwice, Incomplete

-----------------------------------------------------------------------------
\* The memory sink counts the events of the runs it holds.
CountExists(n, s) ==
  \E f : f = [i \in 0..n |-> IF i = 0 THEN 0 ELSE f[i - 1] + Len(s[i].events)]

\* The function that EventsOf is defined by exists.
LEMMA CountsExist == ASSUME NEW s PROVE \A n \in Nat : CountExists(n, s)
<1> DEFINE T == {n \in Nat : CountExists(n, s)}
<1>1. 0 \in T
  <2> DEFINE g == [i \in 0..0 |-> 0]
  <2>1. g = [i \in 0..0 |-> IF i = 0 THEN 0 ELSE g[i - 1] + Len(s[i].events)]
    OBVIOUS
  <2> HIDE DEF g
  <2>2. CountExists(0, s)
    BY <2>1 DEF CountExists
  <2>3. QED
    BY <2>2
<1>2. ASSUME NEW n \in Nat, n \in T PROVE n + 1 \in T
  <2>1. PICK f : f = [i \in 0..n |-> IF i = 0 THEN 0 ELSE f[i - 1] + Len(s[i].events)]
    BY <1>2 DEF CountExists
  <2>2. \A i \in 0..n : f[i] = IF i = 0 THEN 0 ELSE f[i - 1] + Len(s[i].events)
    BY <2>1
  <2> DEFINE g == [i \in 0..(n + 1) |-> IF i = n + 1 THEN f[n] + Len(s[i].events) ELSE f[i]]
  <2>3. \A i \in 0..(n + 1) : g[i] = IF i = 0 THEN 0 ELSE g[i - 1] + Len(s[i].events)
    <3> TAKE i \in 0..(n + 1)
    <3>1. CASE i = n + 1
      <4>1. i # 0 /\ i - 1 = n /\ n \in 0..(n + 1) /\ n # n + 1
        BY <3>1
      <4>2. g[i - 1] = f[n]
        BY <4>1
      <4>3. g[i] = f[n] + Len(s[i].events)
        BY <3>1
      <4> HIDE DEF g
      <4>4. QED
        BY <4>1, <4>2, <4>3
    <3>2. CASE i # n + 1
      <4>1. i \in 0..n /\ g[i] = f[i]
        BY <3>2
      <4>2. i # 0 => i - 1 \in 0..(n + 1) /\ i - 1 # n + 1 /\ g[i - 1] = f[i - 1]
        BY <3>2
      <4> HIDE DEF g
      <4>3. QED
        BY <2>2, <4>1, <4>2
    <3>3. QED
      BY <3>1, <3>2
  <2>4. g = [i \in 0..(n + 1) |-> IF i = 0 THEN 0 ELSE g[i - 1] + Len(s[i].events)]
    BY <2>3
  <2> HIDE DEF g
  <2>5. CountExists(n + 1, s)
    BY <2>4 DEF CountExists
  <2>6. QED
    BY <2>5
<1> HIDE DEF T
<1>3. Nat \subseteq T
  BY <1>1, <1>2, SinkInduction
<1>4. QED
  BY <1>3 DEF T

\* The events are counted record by record.
CountedBy(f, s) ==
  f[0] = 0 /\ \A i \in 1..Len(s) : f[i] = f[i - 1] + Len(s[i].events)

\* EventsOf counts this way.
LEMMA EventSteps ==
  ASSUME NEW s, Len(s) \in Nat
  PROVE  CountedBy(EventsOf(s), s)
<1> DEFINE G(f) == f = [i \in 0..Len(s) |-> IF i = 0 THEN 0 ELSE f[i - 1] + Len(s[i].events)]
           h == CHOOSE f : G(f)
<1>0. CountExists(Len(s), s)
  BY CountsExist
<1>1. \E f : G(f)
  BY <1>0 DEF CountExists
<1>2. G(h)
  BY <1>1
<1>3. EventsOf(s) = h
  BY DEF EventsOf
<1> HIDE DEF h
<1>4. \A i \in 0..Len(s) : h[i] = IF i = 0 THEN 0 ELSE h[i - 1] + Len(s[i].events)
  BY <1>2
<1>5. h[0] = 0
  <2>1. 0 \in 0..Len(s)
    OBVIOUS
  <2>2. QED
    BY <1>4, <2>1
<1>6. \A i \in 1..Len(s) : i \in 0..Len(s) /\ i # 0
  OBVIOUS
<1>7. CountedBy(h, s)
  BY <1>4, <1>5, <1>6 DEF CountedBy
<1>8. QED
  BY <1>3, <1>7

\* Records that hold a number of events.
Holders(T) == \A x \in T : Len(x.events) \in Nat

\* Every partial count is a number.
LEMMA EventsTyped ==
  ASSUME NEW T, Holders(T), NEW s \in Seq(T)
  PROVE  \A n \in 0..Len(s) : EventsOf(s)[n] \in Nat
<1>1. Len(s) \in Nat /\ \A i \in 1..Len(s) : Len(s[i].events) \in Nat
  BY LenProperties, ElementOfSeq DEF Holders
<1>2. PICK f : f = EventsOf(s)
  OBVIOUS
<1>3. CountedBy(f, s)
  BY <1>1, <1>2, EventSteps
<1> DEFINE P == {n \in Nat : n <= Len(s) => f[n] \in Nat}
<1>4. 0 \in P
  BY <1>3 DEF CountedBy
<1>5. ASSUME NEW n \in Nat, n \in P PROVE n + 1 \in P
  <2> SUFFICES ASSUME n + 1 <= Len(s) PROVE f[n + 1] \in Nat
    OBVIOUS
  <2>1. PICK m \in 1..Len(s) : m = n + 1
    BY <1>1
  <2>2. f[m] = f[m - 1] + Len(s[m].events)
    BY <1>3 DEF CountedBy
  <2>3. m - 1 = n /\ f[n] \in Nat
    BY <1>1, <1>5, <2>1
  <2>4. QED
    BY <1>1, <2>1, <2>2, <2>3
<1> HIDE DEF P
<1>6. Nat \subseteq P
  BY <1>4, <1>5, SinkInduction
<1>7. QED
  BY <1>1, <1>2, <1>6 DEF P

\* All the events of a list are a number.
LEMMA EventsAreNat ==
  ASSUME NEW T, Holders(T), NEW s \in Seq(T)
  PROVE  Events(s) \in Nat
<1>1. Len(s) \in 0..Len(s)
  BY LenProperties
<1>2. QED
  BY <1>1, EventsTyped DEF Events

\* An empty list has none.
LEMMA EventsOfNone == Events(<<>>) = 0
<1>1. PICK s : s = <<>>
  OBVIOUS
<1>2. Len(s) = 0 /\ Len(s) \in Nat
  BY <1>1
<1>3. CountedBy(EventsOf(s), s)
  BY <1>2, EventSteps
<1>4. QED
  BY <1>1, <1>2, <1>3 DEF Events, CountedBy

\* One more record brings its events.
LEMMA EventsOfAppend ==
  ASSUME NEW T, Holders(T), NEW s \in Seq(T), NEW x \in T
  PROVE  Events(Append(s, x)) = Events(s) + Len(x.events)
<1>1. PICK u, l : u = Append(s, x) /\ l = Len(s)
  OBVIOUS
<1>2. /\ u \in Seq(T) /\ Len(u) = l + 1 /\ u[l + 1] = x /\ l \in Nat
      /\ \A i \in 1..l : u[i] = s[i]
  BY <1>1, AppendProperties, LenProperties
<1>3. PICK f, g : f = EventsOf(s) /\ g = EventsOf(u)
  OBVIOUS
<1>4. CountedBy(f, s) /\ CountedBy(g, u)
  BY <1>1, <1>2, <1>3, EventSteps
<1> DEFINE P == {n \in Nat : n <= l => g[n] = f[n]}
<1>5. 0 \in P
  BY <1>4 DEF CountedBy
<1>6. ASSUME NEW n \in Nat, n \in P PROVE n + 1 \in P
  <2> SUFFICES ASSUME n + 1 <= l PROVE g[n + 1] = f[n + 1]
    OBVIOUS
  <2>1. PICK m \in 1..l : m = n + 1
    BY <1>2
  <2>2. m \in 1..Len(s) /\ m \in 1..Len(u)
    BY <1>1, <1>2
  <2>3. f[m] = f[m - 1] + Len(s[m].events) /\ g[m] = g[m - 1] + Len(u[m].events)
    BY <1>4, <2>2 DEF CountedBy
  <2>4. m - 1 = n /\ g[n] = f[n] /\ u[m] = s[m]
    BY <1>2, <1>6, <2>1
  <2>5. QED
    BY <2>1, <2>3, <2>4
<1> HIDE DEF P
<1>7. Nat \subseteq P
  BY <1>5, <1>6, SinkInduction
<1>8. g[l] = f[l]
  BY <1>2, <1>7 DEF P
<1>9. PICK m \in 1..Len(u) : m = l + 1
  BY <1>2
<1>10. g[m] = g[m - 1] + Len(u[m].events)
  BY <1>4 DEF CountedBy
<1>11. m - 1 = l /\ u[m] = x
  BY <1>2, <1>9
<1>12. g[Len(u)] = f[l] + Len(x.events)
  BY <1>2, <1>8, <1>9, <1>10, <1>11
<1>13. QED
  BY <1>1, <1>3, <1>12 DEF Events

\* A list is kept but for the item at k, if it has one.
AllBut(s, S, k, w) ==
  \A i \in 1..Len(s) : (s[i] \in S <=> i # k) /\ (i = k => Len(s[i].events) = w)

\* What is kept has the events of all but that item.
LEMMA EventsKept ==
  ASSUME NEW T, Holders(T), NEW s \in Seq(T), NEW S, NEW k \in Nat, NEW w \in Nat,
         AllBut(s, S, k, w)
  PROVE  Events(Keeping(s, S)) + (IF k \in 1..Len(s) THEN w ELSE 0) = Events(s)
<1>1. Len(s) \in Nat
  BY LenProperties
<1>2. PICK f : Keeping(s, S) = f[Len(s)] /\ KeptBy(f, s, S)
  BY <1>1, KeepingSteps
<1>3. PICK g : g = EventsOf(s)
  OBVIOUS
<1>4. CountedBy(g, s) /\ \A n \in 0..Len(s) : g[n] \in Nat
  BY <1>1, <1>3, EventSteps, EventsTyped
<1> DEFINE H(n) == f[n] \in Seq(T) /\ Events(f[n]) + (IF k \in 1..n THEN w ELSE 0) = g[n]
           P == {n \in Nat : n <= Len(s) => H(n)}
<1>5. 0 \in P
  <2>1. f[0] = <<>> /\ g[0] = 0
    BY <1>2, <1>4 DEF KeptBy, CountedBy
  <2>2. f[0] \in Seq(T) /\ Events(f[0]) = 0
    BY <2>1, EmptySeq, EventsOfNone
  <2>3. PICK t, y : t = f[0] /\ y = g[0]
    OBVIOUS
  <2>4. (IF k \in 1..0 THEN w ELSE 0) = 0
    OBVIOUS
  <2>5. t \in Seq(T) /\ Events(t) = 0 /\ y = 0
    BY <2>1, <2>2, <2>3
  <2>6. H(0)
    BY <2>3, <2>4, <2>5
  <2>7. QED
    BY <2>6
<1>6. ASSUME NEW n \in Nat, n \in P PROVE n + 1 \in P
  <2> SUFFICES ASSUME n + 1 <= Len(s) PROVE H(n + 1)
    OBVIOUS
  <2>1. PICK m \in 1..Len(s) : m = n + 1
    BY <1>1
  <2>2. PICK t : t = f[n]
    OBVIOUS
  <2>3. t \in Seq(T) /\ Events(t) + (IF k \in 1..n THEN w ELSE 0) = g[n]
    BY <1>1, <1>6, <2>2
  <2>4. m - 1 = n
    BY <2>1
  <2>5. f[m] = (IF s[m] \in S THEN Append(t, s[m]) ELSE t) /\ g[m] = g[n] + Len(s[m].events)
    BY <1>2, <1>4, <2>2, <2>4 DEF KeptBy, CountedBy
  <2>6. s[m] \in T /\ Len(s[m].events) \in Nat /\ Events(t) \in Nat
    BY <2>3, ElementOfSeq, EventsAreNat DEF Holders
  <2>7. CASE m = k
    <3>1. f[m] = t /\ g[m] = g[n] + w
      BY <2>5, <2>7 DEF AllBut
    <3>2. k \notin 1..n /\ k \in 1..m
      BY <2>1, <2>7
    <3>3. QED
      BY <1>4, <2>1, <2>3, <2>6, <3>1, <3>2
  <2>8. CASE m # k
    <3>1. PICK u : u = Append(t, s[m])
      OBVIOUS
    <3>2. f[m] = u /\ u \in Seq(T) /\ Events(u) = Events(t) + Len(s[m].events)
      BY <2>3, <2>5, <2>6, <2>8, <3>1, AppendProperties, EventsOfAppend DEF AllBut
    <3>3. k \in 1..n <=> k \in 1..m
      BY <2>1, <2>8
    <3>4. QED
      BY <2>1, <2>3, <2>5, <2>6, <3>2, <3>3
  <2>9. QED
    BY <2>7, <2>8
<1> HIDE DEF P
<1>7. Nat \subseteq P
  BY <1>5, <1>6, SinkInduction
<1>8. H(Len(s))
  BY <1>1, <1>7 DEF P
<1>9. QED
  BY <1>2, <1>3, <1>8 DEF Events

\* The runs under way, the completed ones and the counters.
ActiveRecords == [run : Runs, events : Seq(EventKinds), seen : Int, cut : BOOLEAN]
CompletedRecords == [run : Runs, events : Seq(EventKinds), cut : BOOLEAN]
Tallies == [offered : Int, dropped : Int, evicted : Int, refused : Int]

\* What holds of the memory sink after every event.
MemoryInv ==
  /\ activeRuns \in Seq(ActiveRecords) /\ OwnRuns(activeRuns)
  /\ completed \in Seq(CompletedRecords)
  /\ tally \in Tallies
  /\ EventsAreAccounted

\* The records of both kinds hold a number of events.
LEMMA RecordsHold == Holders(ActiveRecords) /\ Holders(CompletedRecords)
<1>1. \A x \in ActiveRecords : Len(x.events) \in Nat
  <2> TAKE x \in ActiveRecords
  <2>1. x.events \in Seq(EventKinds)
    BY DEF ActiveRecords
  <2>2. QED
    BY <2>1, LenProperties
<1>2. \A x \in CompletedRecords : Len(x.events) \in Nat
  <2> TAKE x \in CompletedRecords
  <2>1. x.events \in Seq(EventKinds)
    BY DEF CompletedRecords
  <2>2. QED
    BY <2>1, LenProperties
<1>3. QED
  BY <1>1, <1>2 DEF Holders

\* The newest of a list.
LEMMA NewestFacts ==
  ASSUME NEW T, NEW s \in Seq(T), NEW n \in Nat \ {0}
  PROVE  Newest(s, n) \in Seq(T) /\ (OwnRuns(s) => OwnRuns(Newest(s, n)))
<1>1. CASE ~(Len(s) > n)
  BY <1>1 DEF Newest
<1>2. CASE Len(s) > n
  <2>1. PICK l, m, t : l = Len(s) /\ m = l - n + 1 /\ t = Newest(s, n)
    OBVIOUS
  <2>2. l \in Nat /\ l > n /\ m \in Nat /\ m >= 1 /\ m <= l
    BY <1>2, <2>1, LenProperties
  <2>3. \A i \in m..l : s[i] \in T /\ i \in 1..l
    <3> TAKE i \in m..l
    <3>1. i \in 1..Len(s)
      BY <2>1, <2>2
    <3>2. QED
      BY <2>1, <3>1, ElementOfSeq
  <2>4. t = SubSeq(s, m, l)
    BY <1>2, <2>1 DEF Newest
  <2>5. t \in Seq(T) /\ Len(t) = l - m + 1 /\ \A i \in 1..(l - m + 1) : t[i] = s[m + i - 1]
    <3>1. m \in Int /\ l \in Int /\ \A i \in m..l : s[i] \in T
      BY <2>2, <2>3
    <3>2. /\ SubSeq(s, m, l) \in Seq(T)
          /\ Len(SubSeq(s, m, l)) = IF m <= l THEN l - m + 1 ELSE 0
          /\ \A i \in 1..(l - m + 1) : SubSeq(s, m, l)[i] = s[m + i - 1]
      BY <3>1, SubSeqProperties
    <3>3. QED
      BY <2>2, <2>4, <3>2
  <2>6. ASSUME OwnRuns(s), NEW i \in 1..Len(t), NEW j \in 1..Len(t), t[i].run = t[j].run
        PROVE  i = j
    <3>1. i \in 1..(l - m + 1) /\ j \in 1..(l - m + 1)
      BY <2>5, <2>6
    <3>2. PICK a \in 1..l, b \in 1..l : a = m + i - 1 /\ b = m + j - 1
      BY <2>2, <3>1
    <3>3. s[a].run = s[b].run
      BY <2>5, <2>6, <3>1, <3>2
    <3>4. a = b
      BY <2>1, <2>6, <3>3 DEF OwnRuns
    <3>5. QED
      BY <2>2, <3>1, <3>2, <3>4
  <2>7. QED
    BY <2>1, <2>5, <2>6 DEF OwnRuns
<1>3. QED
  BY <1>1, <1>2

\* What is kept of a run and what is lost of it.
BoundedTo(old, new) ==
  /\ new.events \in Seq(EventKinds) /\ new.lost \in {0, 1}
  /\ Len(new.events) + new.lost = Len(old) + 1

\* Every event is kept or lost.
LEMMA BoundedFacts ==
  ASSUME MemoryAssumption, NEW old \in Seq(EventKinds), NEW e \in EventKinds
  PROVE  BoundedTo(old, Bounded(old, e))
<1>1. PICK l : l = Len(old)
  OBVIOUS
<1>2. l \in Nat /\ MaxEventsPerRun \in Nat /\ MaxEventsPerRun > 0
  BY <1>1, LenProperties DEF MemoryAssumption
<1>3. CASE l < MaxEventsPerRun
  <2>1. Bounded(old, e) = [events |-> Append(old, e), lost |-> 0]
    BY <1>1, <1>3 DEF Bounded
  <2>2. Append(old, e) \in Seq(EventKinds) /\ Len(Append(old, e)) = l + 1
    BY <1>1, AppendProperties
  <2>3. QED
    BY <1>1, <1>2, <2>1, <2>2 DEF BoundedTo
<1>4. CASE ~(l < MaxEventsPerRun) /\ e \notin Terminals
  <2>1. Bounded(old, e) = [events |-> old, lost |-> 1]
    BY <1>1, <1>4 DEF Bounded
  <2>2. QED
    BY <1>1, <2>1 DEF BoundedTo
<1>5. CASE ~(l < MaxEventsPerRun) /\ e \in Terminals
  <2>1. PICK fr : fr = Front(old)
    OBVIOUS
  <2>2. Bounded(old, e) = [events |-> Append(fr, e), lost |-> 1]
    BY <1>1, <1>5, <2>1 DEF Bounded
  <2>3. l >= 1
    BY <1>2, <1>5
  <2>4. fr \in Seq(EventKinds) /\ Len(fr) = l - 1
    <3>1. PICK m : m = l - 1
      OBVIOUS
    <3>2. m \in Int /\ \A i \in 1..m : i \in 1..Len(old)
      BY <1>1, <1>2, <3>1
    <3>3. \A i \in 1..m : old[i] \in EventKinds
      BY <3>2, ElementOfSeq
    <3>4. 1 \in Int
      OBVIOUS
    <3>5. SubSeq(old, 1, m) \in Seq(EventKinds)
          /\ Len(SubSeq(old, 1, m)) = IF 1 <= m THEN m - 1 + 1 ELSE 0
      BY <3>2, <3>3, <3>4, SubSeqProperties
    <3>6. fr = SubSeq(old, 1, m)
      BY <1>1, <2>1, <3>1 DEF Front
    <3>7. (IF 1 <= m THEN m - 1 + 1 ELSE 0) = l - 1
      BY <1>2, <2>3, <3>1
    <3>8. QED
      BY <3>5, <3>6, <3>7
  <2>5. Append(fr, e) \in Seq(EventKinds) /\ Len(Append(fr, e)) = l
    BY <1>2, <2>3, <2>4, AppendProperties
  <2>6. QED
    BY <1>1, <1>2, <2>2, <2>5 DEF BoundedTo
<1>6. QED
  BY <1>3, <1>4, <1>5

\* What stays of the runs under way is theirs.
LEMMA LiveFacts ==
  ASSUME MemoryInv, NEW clock
  PROVE  Live(clock) \in Seq(ActiveRecords) /\ OwnRuns(Live(clock))
<1>1. PICK S : Live(clock) = Keeping(activeRuns, S)
  BY DEF Live
<1>2. activeRuns \in Seq(ActiveRecords) /\ OwnRuns(activeRuns)
  BY DEF MemoryInv
<1>3. KeptOf(Keeping(activeRuns, S), activeRuns, S, Len(activeRuns), ActiveRecords)
  BY <1>2, KeepingFacts
<1>4. QED
  BY <1>1, <1>2, <1>3 DEF KeptOf

\* The run's own record, as the sink finds it or begins it.
OldOf(live, run, clock) ==
  LET known == {x \in ToSet(live) : x.run = run}
  IN  IF known = {} THEN [run |-> run, events |-> <<>>, seen |-> clock, cut |-> FALSE]
      ELSE CHOOSE x \in known : TRUE

\* Taken out, the run's record leaves the events of the others.
LEMMA ExceptFacts ==
  ASSUME NEW live \in Seq(ActiveRecords), OwnRuns(live), NEW run \in Runs, NEW clock \in Nat
  PROVE  /\ Except(live, run) \in Seq(ActiveRecords) /\ OwnRuns(Except(live, run))
         /\ \A i \in 1..Len(Except(live, run)) : Except(live, run)[i].run # run
         /\ OldOf(live, run, clock) \in ActiveRecords
         /\ Events(Except(live, run)) + Len(OldOf(live, run, clock).events) = Events(live)
<1>1. PICK S : S = {x \in ToSet(live) : x.run # run}
  OBVIOUS
<1>2. PICK rest, old : rest = Except(live, run) /\ old = OldOf(live, run, clock)
  OBVIOUS
<1>3. rest = Keeping(live, S)
  BY <1>1, <1>2 DEF Except
<1>4. KeptOf(rest, live, S, Len(live), ActiveRecords)
  BY <1>3, KeepingFacts
<1>5. \A i \in 1..Len(rest) : rest[i].run # run
  BY <1>1, <1>4 DEF KeptOf, Items_
<1>6. ToSet(live) = Items_(live) /\ ToSet(live) \subseteq ActiveRecords
  BY ToSetItems
<1>7. \A i \in 1..Len(live) : live[i] \in S <=> live[i].run # run
  BY <1>1, <1>6 DEF Items_
<1>8. Len(live) \in Nat
  BY LenProperties
<1>9. CASE \E k \in 1..Len(live) : live[k].run = run
  <2>1. PICK k \in 1..Len(live) : live[k].run = run
    BY <1>9
  <2>2. old = live[k] /\ old \in ActiveRecords
    <3>1. \A x \in ToSet(live) : x.run = run => x = live[k]
      BY <1>6, <2>1 DEF Items_, OwnRuns
    <3>2. live[k] \in ToSet(live)
      BY <1>6 DEF Items_
    <3>3. QED
      BY <1>2, <1>6, <2>1, <3>1, <3>2 DEF OldOf
  <2>3. PICK w : w = Len(live[k].events)
    OBVIOUS
  <2>4. w \in Nat /\ k \in Nat
    BY <1>8, <2>2, <2>3, RecordsHold DEF Holders
  <2>5. AllBut(live, S, k, w)
    BY <1>7, <2>1, <2>3 DEF AllBut, OwnRuns
  <2>6. Events(rest) + (IF k \in 1..Len(live) THEN w ELSE 0) = Events(live)
    BY <1>3, <2>4, <2>5, EventsKept, RecordsHold
  <2>7. QED
    BY <1>2, <1>4, <1>5, <2>2, <2>3, <2>6 DEF KeptOf
<1>10. CASE ~\E k \in 1..Len(live) : live[k].run = run
  <2>1. old = [run |-> run, events |-> <<>>, seen |-> clock, cut |-> FALSE]
    BY <1>2, <1>6, <1>10 DEF OldOf, Items_
  <2>2. old \in ActiveRecords /\ Len(old.events) = 0
    <3>1. <<>> \in Seq(EventKinds)
      BY EmptySeq
    <3>2. QED
      BY <2>1, <3>1 DEF ActiveRecords
  <2>3. PICK k \in Nat : k = Len(live) + 1
    BY <1>8
  <2>4. k \notin 1..Len(live)
    BY <1>8, <2>3
  <2>5. AllBut(live, S, k, 0)
    BY <1>7, <1>10, <2>4 DEF AllBut
  <2>6. Events(rest) + (IF k \in 1..Len(live) THEN 0 ELSE 0) = Events(live)
    BY <1>3, <2>5, EventsKept, RecordsHold
  <2>7. QED
    BY <1>2, <1>4, <1>5, <2>2, <2>6 DEF KeptOf
<1>11. QED
  BY <1>9, <1>10

\* One more run, which has no record yet.
LEMMA OwnRunsAppend ==
  ASSUME NEW s \in Seq(ActiveRecords), OwnRuns(s), NEW x \in ActiveRecords,
         \A i \in 1..Len(s) : s[i].run # x.run
  PROVE  Append(s, x) \in Seq(ActiveRecords) /\ OwnRuns(Append(s, x))
<1>1. PICK u, l : u = Append(s, x) /\ l = Len(s)
  OBVIOUS
<1>2. /\ u \in Seq(ActiveRecords) /\ Len(u) = l + 1 /\ u[l + 1] = x /\ l \in Nat
      /\ \A i \in 1..l : u[i] = s[i]
  BY <1>1, AppendProperties, LenProperties
<1>3. \A i \in 1..(l + 1) : i \in 1..l \/ i = l + 1
  BY <1>2
<1>4. ASSUME NEW i \in 1..(l + 1), NEW j \in 1..(l + 1), u[i].run = u[j].run PROVE i = j
  <2>1. CASE i \in 1..l /\ j \in 1..l
    BY <1>1, <1>2, <1>4, <2>1 DEF OwnRuns
  <2>2. CASE i \in 1..l /\ j = l + 1
    BY <1>1, <1>2, <1>4, <2>2
  <2>3. CASE i = l + 1 /\ j \in 1..l
    BY <1>1, <1>2, <1>4, <2>3
  <2>4. QED
    BY <1>3, <1>4, <2>1, <2>2, <2>3
<1>5. QED
  BY <1>1, <1>2, <1>4 DEF OwnRuns

\* What the run's record becomes.
ThisOf(run, old, new, clock) ==
  [run |-> run, events |-> new.events, seen |-> clock, cut |-> old.cut \/ new.lost > 0]

\* The new record is one, as it stays under way and as it is completed.
LEMMA ThisTyped ==
  ASSUME NEW run \in Runs, NEW old \in ActiveRecords, NEW new, BoundedTo(old.events, new),
         NEW clock \in Nat
  PROVE  /\ ThisOf(run, old, new, clock) \in ActiveRecords
         /\ [run |-> run, events |-> new.events, cut |-> ThisOf(run, old, new, clock).cut]
              \in CompletedRecords
<1>1. new.events \in Seq(EventKinds)
  BY DEF BoundedTo
<1>2. (old.cut \/ new.lost > 0) \in BOOLEAN
  OBVIOUS
<1>3. clock \in Int
  OBVIOUS
<1>4. PICK c \in BOOLEAN : c = (old.cut \/ new.lost > 0)
  BY <1>2
<1>5. ThisOf(run, old, new, clock) = [run |-> run, events |-> new.events, seen |-> clock, cut |-> c]
  BY <1>4 DEF ThisOf
<1>6. QED
  BY <1>1, <1>3, <1>4, <1>5 DEF ActiveRecords, CompletedRecords

\* An event that is refused is counted, and what expired with it.
LEMMA RefusedIsAccounted ==
  ASSUME MemoryAssumption, MemoryInv, NEW run \in Runs, NEW e \in EventKinds, NEW clock \in Nat,
         shutm \/ run \in Runs_(completed), MemoryOffer(run, e, clock)
  PROVE  MemoryInv'
<1>1. PICK live, a, b, c : /\ live = Live(clock) /\ a = Events(activeRuns)
                           /\ b = Events(live) /\ c = Events(completed)
  OBVIOUS
<1>2. live \in Seq(ActiveRecords) /\ OwnRuns(live)
  BY <1>1, LiveFacts
<1>3. /\ activeRuns \in Seq(ActiveRecords) /\ completed \in Seq(CompletedRecords)
      /\ tally \in Tallies /\ OwnRuns(activeRuns)
      /\ tally.offered = a + c + tally.dropped + tally.evicted + tally.refused
  BY <1>1 DEF MemoryInv, EventsAreAccounted
<1>4. a \in Nat /\ b \in Nat /\ c \in Nat
  BY <1>1, <1>2, <1>3, EventsAreNat, RecordsHold
<1>5. /\ tally.offered \in Int /\ tally.dropped \in Int /\ tally.evicted \in Int
      /\ tally.refused \in Int
  BY <1>3 DEF Tallies
<1>6. CASE shutm
  <2>1. /\ tally' = [offered |-> tally.offered + 1, refused |-> tally.refused + 1,
                     dropped |-> tally.dropped + 0, evicted |-> tally.evicted]
        /\ activeRuns' = activeRuns /\ completed' = completed
    BY <1>6 DEF MemoryOffer
  <2>2. tally' \in Tallies
    BY <1>5, <2>1 DEF Tallies
  <2>3. tally'.offered = a + c + tally'.dropped + tally'.evicted + tally'.refused
    <3>1. PICK d \in Int, v \in Int, f \in Int :
            d = tally.dropped /\ v = tally.evicted /\ f = tally.refused
      BY <1>5
    <3>2. /\ tally'.offered = a + c + d + v + f + 1 /\ tally'.refused = f + 1
          /\ tally'.dropped = d + 0 /\ tally'.evicted = v
      BY <1>3, <2>1, <3>1
    <3>3. a + c + d + v + f + 1 = a + c + (d + 0) + v + (f + 1)
      BY <1>4, <3>1
    <3>4. QED
      BY <3>2, <3>3
  <2>4. a = Events(activeRuns') /\ c = Events(completed')
    BY <1>1, <2>1
  <2>5. QED
    BY <1>3, <2>1, <2>2, <2>3, <2>4 DEF MemoryInv, EventsAreAccounted
<1>7. CASE ~shutm
  <2>1. /\ tally' = [offered |-> tally.offered + 1, refused |-> tally.refused + 1,
                     dropped |-> tally.dropped + (a - b), evicted |-> tally.evicted]
        /\ activeRuns' = live /\ completed' = completed
    BY <1>1, <1>7 DEF MemoryOffer
  <2>2. tally' \in Tallies
    BY <1>4, <1>5, <2>1 DEF Tallies
  <2>3. tally'.offered = b + c + tally'.dropped + tally'.evicted + tally'.refused
    <3>1. PICK d \in Int, v \in Int, f \in Int :
            d = tally.dropped /\ v = tally.evicted /\ f = tally.refused
      BY <1>5
    <3>2. /\ tally'.offered = a + c + d + v + f + 1 /\ tally'.refused = f + 1
          /\ tally'.dropped = d + (a - b) /\ tally'.evicted = v
      BY <1>3, <2>1, <3>1
    <3>3. a + c + d + v + f + 1 = b + c + (d + (a - b)) + v + (f + 1)
      BY <1>4, <3>1
    <3>4. QED
      BY <3>2, <3>3
  <2>4. b = Events(activeRuns') /\ c = Events(completed')
    BY <1>1, <2>1
  <2>5. QED
    BY <1>2, <1>3, <2>1, <2>2, <2>3, <2>4 DEF MemoryInv, EventsAreAccounted
<1>8. QED
  BY <1>6, <1>7

\* An event that is taken is held, or counted with what it displaces.
LEMMA TakenIsAccounted ==
  ASSUME MemoryAssumption, MemoryInv, NEW run \in Runs, NEW e \in EventKinds, NEW clock \in Nat,
         ~(shutm \/ run \in Runs_(completed)), MemoryOffer(run, e, clock)
  PROVE  MemoryInv'
<1>1. PICK live, rest, old : /\ live = Live(clock) /\ rest = Except(live, run)
                             /\ old = OldOf(live, run, clock)
  OBVIOUS
<1>2. live \in Seq(ActiveRecords) /\ OwnRuns(live)
  BY <1>1, LiveFacts
<1>3. /\ rest \in Seq(ActiveRecords) /\ OwnRuns(rest) /\ old \in ActiveRecords
      /\ \A i \in 1..Len(rest) : rest[i].run # run
      /\ Events(rest) + Len(old.events) = Events(live)
  BY <1>1, <1>2, ExceptFacts
<1>4. PICK new : new = Bounded(old.events, e)
  OBVIOUS
<1>5. BoundedTo(old.events, new)
  <2>1. old.events \in Seq(EventKinds)
    BY <1>3 DEF ActiveRecords
  <2>2. QED
    BY <1>4, <2>1, BoundedFacts
<1>6. PICK this : this = ThisOf(run, old, new, clock)
  OBVIOUS
<1>7. PICK done : done = [run |-> run, events |-> this.events, cut |-> this.cut]
  OBVIOUS
<1>8. this.run = run /\ this.events = new.events /\ this \in ActiveRecords
  BY <1>3, <1>5, <1>6, ThisTyped DEF ThisOf
<1>9. done \in CompletedRecords /\ done.events = new.events
  BY <1>3, <1>5, <1>6, <1>7, <1>8, ThisTyped
<1>10. PICK all : all = Append(rest, this)
  OBVIOUS
<1>11. all \in Seq(ActiveRecords) /\ OwnRuns(all)
  BY <1>3, <1>8, <1>10, OwnRunsAppend
<1>12. /\ activeRuns \in Seq(ActiveRecords) /\ completed \in Seq(CompletedRecords)
       /\ tally \in Tallies
       /\ tally.offered = Events(activeRuns) + Events(completed)
                            + tally.dropped + tally.evicted + tally.refused
  BY DEF MemoryInv, EventsAreAccounted
<1>13. PICK a, b, c, r, n, x : /\ a = Events(activeRuns) /\ b = Events(live)
                               /\ c = Events(completed) /\ r = Events(rest)
                               /\ n = Len(new.events) /\ x = Len(old.events)
  OBVIOUS
<1>14. /\ a \in Nat /\ b \in Nat /\ c \in Nat /\ r \in Nat /\ n \in Nat /\ x \in Nat
       /\ new.lost \in {0, 1} /\ n + new.lost = x + 1 /\ r + x = b
  <2>1. a \in Nat /\ b \in Nat /\ c \in Nat /\ r \in Nat
    BY <1>2, <1>3, <1>12, <1>13, EventsAreNat, RecordsHold
  <2>2. x \in Nat
    BY <1>3, <1>13, RecordsHold DEF Holders
  <2>3. n \in Nat
    BY <1>5, <1>13, LenProperties DEF BoundedTo
  <2>4. QED
    BY <1>3, <1>5, <1>13, <2>1, <2>2, <2>3 DEF BoundedTo
<1>15. /\ tally.offered \in Int /\ tally.dropped \in Int /\ tally.evicted \in Int
       /\ tally.refused \in Int
  BY <1>12 DEF Tallies
<1>16. PICK f, d, v, z, y : /\ f = tally.offered /\ d = tally.dropped /\ v = tally.evicted
                            /\ z = tally.refused /\ y = new.lost
  OBVIOUS
<1>17. f \in Int /\ d \in Int /\ v \in Int /\ z \in Int /\ y \in Int
  BY <1>14, <1>15, <1>16
<1>18. f = a + c + d + v + z /\ n + y = x + 1 /\ r + x = b
  BY <1>12, <1>13, <1>14, <1>16
<1>19. Events(all) = r + n
  BY <1>3, <1>8, <1>10, <1>13, EventsOfAppend, RecordsHold
<1>20. MaxActiveRuns \in Nat \ {0} /\ MaxRuns \in Nat \ {0}
  BY DEF MemoryAssumption
<1>21. PICK under, over, last2 :
         /\ under = IF e \in Terminals THEN rest ELSE Newest(all, MaxActiveRuns)
         /\ over = IF e \in Terminals THEN Append(completed, done) ELSE completed
         /\ last2 = Newest(over, MaxRuns)
  OBVIOUS
<1>22. /\ activeRuns' = under /\ completed' = last2
       /\ tally' = [
            offered |-> tally.offered + 1,
            dropped |-> tally.dropped + (a - b) + new.lost
                          + IF e \in Terminals THEN 0 ELSE Events(all) - Events(under),
            evicted |-> tally.evicted + (Events(over) - Events(completed')),
            refused |-> tally.refused]
  BY <1>1, <1>4, <1>6, <1>7, <1>10, <1>13, <1>21 DEF MemoryOffer, OldOf, ThisOf
<1>23. under \in Seq(ActiveRecords) /\ OwnRuns(under)
  BY <1>3, <1>11, <1>20, <1>21, NewestFacts
<1>24. over \in Seq(CompletedRecords) /\ Events(over) = c + IF e \in Terminals THEN n ELSE 0
  <2>1. CASE e \in Terminals
    <3>1. over = Append(completed, done)
      BY <1>21, <2>1
    <3>2. over \in Seq(CompletedRecords)
      BY <1>9, <1>12, <3>1, AppendProperties
    <3>3. Events(over) = Events(completed) + Len(done.events)
      BY <1>9, <1>12, <3>1, EventsOfAppend, RecordsHold
    <3>4. QED
      BY <1>9, <1>13, <2>1, <3>2, <3>3
  <2>2. CASE e \notin Terminals
    <3>1. over = completed
      BY <1>21, <2>2
    <3>2. c + 0 = c
      BY <1>14
    <3>3. QED
      BY <1>12, <1>13, <2>2, <3>1, <3>2
  <2>3. QED
    BY <2>1, <2>2
<1>25. last2 \in Seq(CompletedRecords)
  BY <1>20, <1>21, <1>24, NewestFacts
<1>26. PICK u, o, l : u = Events(under) /\ o = Events(over) /\ l = Events(last2)
  OBVIOUS
<1>27. u \in Nat /\ o \in Nat /\ l \in Nat
  BY <1>23, <1>24, <1>25, <1>26, EventsAreNat, RecordsHold
<1>28. /\ tally' \in Tallies
       /\ tally'.offered = u + l + tally'.dropped + tally'.evicted + tally'.refused
  <2>1. CASE e \in Terminals
    <3>1. tally' = [offered |-> f + 1, dropped |-> d + (a - b) + y + 0,
                    evicted |-> v + (o - l), refused |-> z]
      <4>1. (IF e \in Terminals THEN 0 ELSE Events(all) - Events(under)) = 0
        BY <2>1
      <4>2. QED
        BY <1>22, <1>26, <1>16, <4>1
    <3>2. u = r /\ o = c + n
      BY <1>13, <1>21, <1>24, <1>26, <2>1
    <3>3. tally' \in Tallies
      BY <1>14, <1>27, <1>17, <3>1 DEF Tallies
    <3>4. f + 1 = u + l + (d + (a - b) + y + 0) + (v + (o - l)) + z
      BY <1>14, <1>27, <1>17, <1>18, <3>2
    <3>5. QED
      BY <3>1, <3>3, <3>4
  <2>2. CASE e \notin Terminals
    <3>1. tally' = [offered |-> f + 1, dropped |-> d + (a - b) + y + ((r + n) - u),
                    evicted |-> v + (o - l), refused |-> z]
      <4>1. (IF e \in Terminals THEN 0 ELSE Events(all) - Events(under)) = (r + n) - u
        BY <1>19, <1>26, <2>2
      <4>2. QED
        BY <1>22, <1>26, <1>16, <4>1
    <3>2. o = c
      BY <1>14, <1>24, <1>26, <2>2
    <3>3. tally' \in Tallies
      BY <1>14, <1>27, <1>17, <3>1 DEF Tallies
    <3>4. f + 1 = u + l + (d + (a - b) + y + ((r + n) - u)) + (v + (o - l)) + z
      BY <1>14, <1>27, <1>17, <1>18, <3>2
    <3>5. QED
      BY <3>1, <3>3, <3>4
  <2>3. QED
    BY <2>1, <2>2
<1>29. u = Events(activeRuns') /\ l = Events(completed')
  BY <1>22, <1>26
<1>30. QED
  BY <1>22, <1>23, <1>25, <1>28, <1>29 DEF MemoryInv, EventsAreAccounted

\* Closing counts the runs under way as dropped.
LEMMA CloseIsAccounted ==
  ASSUME MemoryInv, MemoryClose PROVE MemoryInv'
<1>1. PICK a, c : a = Events(activeRuns) /\ c = Events(completed)
  OBVIOUS
<1>2. /\ activeRuns \in Seq(ActiveRecords) /\ completed \in Seq(CompletedRecords)
      /\ tally \in Tallies
      /\ tally.offered = a + c + tally.dropped + tally.evicted + tally.refused
  BY <1>1 DEF MemoryInv, EventsAreAccounted
<1>3. a \in Nat /\ c \in Nat
  BY <1>1, <1>2, EventsAreNat, RecordsHold
<1>4. /\ tally.offered \in Int /\ tally.dropped \in Int /\ tally.evicted \in Int
      /\ tally.refused \in Int
  BY <1>2 DEF Tallies
<1>5. /\ activeRuns' = <<>> /\ completed' = completed
      /\ tally' = [tally EXCEPT !.dropped = tally.dropped + a]
  BY <1>1 DEF MemoryClose
<1>6. tally' \in Tallies
  <2>1. PICK d \in Int : d = tally.dropped + a
    BY <1>3, <1>4
  <2>2. tally' = [tally EXCEPT !.dropped = d]
    BY <1>5, <2>1
  <2>3. QED
    BY <1>2, <2>2 DEF Tallies
<1>7. /\ tally'.offered = tally.offered /\ tally'.dropped = tally.dropped + a
      /\ tally'.evicted = tally.evicted /\ tally'.refused = tally.refused
  BY <1>2, <1>5 DEF Tallies
<1>8. tally'.offered = 0 + c + tally'.dropped + tally'.evicted + tally'.refused
  BY <1>2, <1>3, <1>4, <1>7
<1>9. activeRuns' \in Seq(ActiveRecords) /\ OwnRuns(activeRuns') /\ Events(activeRuns') = 0
  <2>1. PICK s : s = activeRuns'
    OBVIOUS
  <2>2. s = <<>> /\ Len(s) = 0 /\ s \in Seq(ActiveRecords)
    BY <1>5, <2>1, EmptySeq
  <2>3. 1..Len(s) = {}
    BY <2>2
  <2>4. OwnRuns(s) /\ Events(s) = 0
    BY <2>2, <2>3, EventsOfNone DEF OwnRuns
  <2>5. QED
    BY <2>1, <2>2, <2>4
<1>10. Events(completed') = c
  BY <1>1, <1>5
<1>11. QED
  BY <1>2, <1>5, <1>6, <1>8, <1>9, <1>10 DEF MemoryInv, EventsAreAccounted

\* Nothing is held at first.
LEMMA AccountedAtFirst == ASSUME MemoryInit PROVE MemoryInv
<1>1. /\ activeRuns = <<>> /\ completed = <<>>
      /\ tally = [offered |-> 0, dropped |-> 0, evicted |-> 0, refused |-> 0]
  BY DEF MemoryInit
<1>2. PICK s : s = <<>>
  OBVIOUS
<1>3. Len(s) = 0 /\ s \in Seq(ActiveRecords) /\ s \in Seq(CompletedRecords)
  BY <1>2, EmptySeq
<1>4. 1..Len(s) = {}
  BY <1>3
<1>5. OwnRuns(s) /\ Events(s) = 0
  BY <1>2, <1>4, EventsOfNone DEF OwnRuns
<1>6. tally \in Tallies
  BY <1>1 DEF Tallies
<1>7. activeRuns = s /\ completed = s
  BY <1>1, <1>2
<1>8. tally.offered = 0 + 0 + tally.dropped + tally.evicted + tally.refused
  BY <1>1
<1>9. QED
  BY <1>3, <1>5, <1>6, <1>7, <1>8 DEF MemoryInv, EventsAreAccounted

-----------------------------------------------------------------------------
\* What the builders deliver, and both sinks with it.
StreamTypes ==
  /\ attached \in {"jsonl", "memory", "telemetry"}
  /\ at \in [Runs -> Nat \ {0}] /\ now \in Nat
AccountInv == StreamTypes /\ MemoryInv /\ Consistent(traces, spans)

\* The next event of a run is one that the builder makes.
LEMMA NextDelivered ==
  ASSUME ScriptAssumption, StreamTypes, NEW r \in Runs, at[r] <= Len(Script[attached][r])
  PROVE  Script[attached][r][at[r]] \in Delivered
<1>1. PICK s, n : s = Script[attached][r] /\ n = at[r]
  OBVIOUS
<1>2. n \in Nat \ {0} /\ n <= Len(s)
  BY <1>1 DEF StreamTypes
<1>3. /\ s \in Seq([kind : EventKinds, inv : Nat, parent : Nat])
      /\ \A i \in DOMAIN s : s[i].kind = "started" => s[i].inv # 0
  BY <1>1 DEF ScriptAssumption, StreamTypes
<1>4. Len(s) \in Nat /\ DOMAIN s = 1..Len(s)
  BY <1>3, LenProperties
<1>5. n \in 1..Len(s)
  BY <1>2, <1>4
<1>6. s[n] \in [kind : EventKinds, inv : Nat, parent : Nat]
  BY <1>3, <1>5, ElementOfSeq
<1>7. QED
  BY <1>1, <1>3, <1>4, <1>5, <1>6 DEF Delivered

\* What neither sink does leaves both as they are.
LEMMA AccountKept ==
  ASSUME AccountInv, UNCHANGED memoryVars, UNCHANGED telemetryVars, StreamTypes'
  PROVE  AccountInv'
<1>1. MemoryInv'
  BY DEF AccountInv, MemoryInv, EventsAreAccounted, memoryVars
<1>2. Consistent(traces, spans)'
  BY DEF AccountInv, telemetryVars
<1>3. QED
  BY <1>1, <1>2 DEF AccountInv

\* Every step keeps the account.
LEMMA AccountStep ==
  ASSUME MemoryAssumption, TelemetryAssumption, ScriptAssumption, AccountInv, [SinkNext]_sinkVars
  PROVE  AccountInv'
<1>1. StreamTypes /\ MemoryInv /\ Consistent(traces, spans)
  BY DEF AccountInv
<1>2. ASSUME NEW r \in Runs, DeliverEvent(r) PROVE AccountInv'
  <2>1. PICK e, k : e = Script[attached][r][at[r]] /\ k = at[r]
    OBVIOUS
  <2>2. StreamTypes'
    <3>1. at' = [at EXCEPT ![r] = @ + 1] /\ now' = now /\ attached' = attached
      BY <1>2 DEF DeliverEvent
    <3>2. at[r] + 1 \in Nat \ {0}
      BY <1>1 DEF StreamTypes
    <3>3. QED
      BY <1>1, <3>1, <3>2 DEF StreamTypes
  <2>3. at[r] <= Len(Script[attached][r])
    BY <1>2 DEF DeliverEvent
  <2>4. CASE attached = "jsonl"
    <3>1. UNCHANGED memoryVars /\ UNCHANGED telemetryVars
      BY <1>2, <2>4 DEF DeliverEvent
    <3>2. QED
      BY <2>2, <3>1, AccountKept
  <2>5. CASE attached = "memory"
    <3>1. MemoryOffer(r, e.kind, now) /\ UNCHANGED telemetryVars
      BY <1>2, <2>1, <2>5 DEF DeliverEvent
    <3>2. e \in Delivered /\ e.kind \in EventKinds
      BY <1>1, <2>1, <2>3, <2>5, NextDelivered DEF Delivered
    <3>3. now \in Nat
      BY <1>1 DEF StreamTypes
    <3>4. MemoryInv'
      BY <1>1, <3>1, <3>2, <3>3, RefusedIsAccounted, TakenIsAccounted
    <3>5. Consistent(traces, spans)'
      BY <1>1, <3>1 DEF telemetryVars
    <3>6. QED
      BY <2>2, <3>4, <3>5 DEF AccountInv
  <2>6. CASE attached = "telemetry"
    <3>1. TelemetryOffer(r, k, e, now) /\ UNCHANGED memoryVars
      BY <1>2, <2>1, <2>6 DEF DeliverEvent
    <3>2. e \in Delivered
      BY <1>1, <2>1, <2>3, <2>6, NextDelivered
    <3>3. now \in Nat /\ k \in Nat
      BY <1>1, <2>1 DEF StreamTypes
    <3>4. Consistent(traces', spans')
      BY <1>1, <3>1, <3>2, <3>3, OfferConsistent
    <3>5. MemoryInv'
      BY <1>1, <3>1 DEF MemoryInv, EventsAreAccounted, memoryVars
    <3>6. QED
      BY <2>2, <3>4, <3>5 DEF AccountInv
  <2>7. QED
    BY <1>1, <2>4, <2>5, <2>6 DEF StreamTypes
<1>3. ASSUME Others PROVE AccountInv'
  <2>1. /\ UNCHANGED memoryVars /\ UNCHANGED telemetryVars
        /\ at' = at /\ now' = now /\ attached' = attached
    BY <1>3 DEF Others, streamVars
  <2>2. StreamTypes'
    BY <1>1, <2>1 DEF StreamTypes
  <2>3. QED
    BY <2>1, <2>2, AccountKept
<1>4. ASSUME CloseMemory PROVE AccountInv'
  <2>1. MemoryClose /\ UNCHANGED telemetryVars /\ at' = at /\ now' = now /\ attached' = attached
    BY <1>4 DEF CloseMemory, streamVars
  <2>2. MemoryInv' /\ Consistent(traces, spans)' /\ StreamTypes'
    BY <1>1, <2>1, CloseIsAccounted DEF telemetryVars, StreamTypes
  <2>3. QED
    BY <2>2 DEF AccountInv
<1>5. ASSUME CloseTelemetry PROVE AccountInv'
  <2>1. TelemetryClose /\ UNCHANGED memoryVars /\ at' = at /\ now' = now /\ attached' = attached
    BY <1>5 DEF CloseTelemetry, streamVars
  <2>2. Consistent(traces', spans')
    BY <1>1, <2>1, TelemetryCloseConsistent
  <2>3. MemoryInv' /\ StreamTypes'
    BY <1>1, <2>1 DEF MemoryInv, EventsAreAccounted, memoryVars, StreamTypes
  <2>4. QED
    BY <2>2, <2>3 DEF AccountInv
<1>6. ASSUME Tick PROVE AccountInv'
  <2>1. /\ UNCHANGED memoryVars /\ UNCHANGED telemetryVars
        /\ at' = at /\ now' = now + 1 /\ attached' = attached
    BY <1>6 DEF Tick
  <2>2. StreamTypes'
    BY <1>1, <2>1 DEF StreamTypes
  <2>3. QED
    BY <2>1, <2>2, AccountKept
<1>7. ASSUME UNCHANGED sinkVars PROVE AccountInv'
  <2>1. /\ UNCHANGED memoryVars /\ UNCHANGED telemetryVars
        /\ at' = at /\ now' = now /\ attached' = attached
    BY <1>7 DEF sinkVars, streamVars
  <2>2. StreamTypes'
    BY <1>1, <2>1 DEF StreamTypes
  <2>3. QED
    BY <2>1, <2>2, AccountKept
<1>8. ASSUME SinkNext PROVE AccountInv'
  <2>1. ASSUME NEW r \in Runs, ResumeEmit(r) \/ GiveUpEmit(r) PROVE Others
    BY <2>1 DEF ResumeEmit, GiveUpEmit
  <2>2. ASSUME NEW c \in JsonlClosers, CloseJsonl(c) \/ JsonlClosed(c) PROVE Others
    BY <2>2 DEF CloseJsonl, JsonlClosed
  <2>3. ASSUME Writer \/ MarkEnd PROVE Others
    BY <2>3 DEF Writer, MarkEnd
  <2>4. QED
    BY <1>2, <1>3, <1>4, <1>5, <1>6, <1>8, <2>1, <2>2, <2>3 DEF SinkNext
<1>9. QED
  BY <1>7, <1>8

\* The sinks' account holds from the start.
LEMMA AccountInit == ASSUME SinkInit PROVE AccountInv
<1>1. /\ MemoryInit /\ TelemetryInit /\ at = [r \in Runs |-> 1] /\ now = 0
      /\ attached \in {"jsonl", "memory", "telemetry"}
  BY DEF SinkInit
<1>2. StreamTypes
  BY <1>1 DEF StreamTypes
<1>3. QED
  BY <1>1, <1>2, AccountedAtFirst, ConsistentAtFirst DEF AccountInv

\* Every event offered to the memory sink is held or counted, and every span that the
\* telemetry sink starts is ended once, for any runs, limits and script of events.
THEOREM SinksKeepAccount == SinkSpec => []SinksAccountForRuns
<1> USE MemoryAssumption, TelemetryAssumption, ScriptAssumption
<1>1. SinkInit => AccountInv
  BY AccountInit
<1>2. AccountInv /\ [SinkNext]_sinkVars => AccountInv'
  BY AccountStep
<1>3. AccountInv => SinksAccountForRuns
  BY ConsistentEndsOnce DEF AccountInv, MemoryInv, SinksAccountForRuns
<1>4. QED
  BY <1>1, <1>2, <1>3, PTL DEF SinkSpec
=============================================================================
