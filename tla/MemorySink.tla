----------------------------- MODULE MemorySink -----------------------------
(***************************************************************************)
(* trace_sinks/memory.py: the runs under way, the least recently heard of   *)
(* first, and the completed ones in order of completion, each kind bounded  *)
(* in number and in events.                                                *)
(***************************************************************************)
EXTENDS Integers, Sequences, SequencesExt, Ordering

CONSTANTS
  MaxRuns, MaxEventsPerRun, MaxActiveRuns,
  ActiveTTL,
  Terminals   \* the events that end a run

ASSUME MemoryAssumption ==
  /\ MaxRuns \in Nat \ {0} /\ MaxEventsPerRun \in Nat \ {0} /\ MaxActiveRuns \in Nat \ {0}
  /\ ActiveTTL \in Nat \ {0}

VARIABLES
  activeRuns, \* records of run, events, when last seen, whether truncated
  completed,  \* records of run, events, whether truncated
  shutm,      \* _closed
  tally       \* the counters of stats()

memoryVars == <<activeRuns, completed, shutm, tally>>

MemoryInit ==
  /\ activeRuns = <<>> /\ completed = <<>> /\ shutm = FALSE
  /\ tally = [offered |-> 0, dropped |-> 0, evicted |-> 0, refused |-> 0]

\* The events of the first n records, and of all.
EventsOf(records) ==
  LET sum[n \in 0..Len(records)] == IF n = 0 THEN 0 ELSE sum[n - 1] + Len(records[n].events)
  IN sum
Events(records) == EventsOf(records)[Len(records)]
Runs_(records) == {records[i].run : i \in DOMAIN records}
Except(records, run) == Keeping(records, {x \in ToSet(records) : x.run # run})

\* _expire_active and _bound_active: what stays of the runs under way.
Live(now) == Keeping(activeRuns, {x \in ToSet(activeRuns) : now - x.seen < ActiveTTL})
Newest(records, n) ==
  IF Len(records) > n THEN SubSeq(records, Len(records) - n + 1, Len(records)) ELSE records

\* Mutant: the event a terminal displaces is not counted.
BoundedUncounted(events, e) ==
  IF Len(events) < MaxEventsPerRun
  THEN [events |-> Append(events, e), lost |-> 0]
  ELSE IF e \in Terminals
  THEN [events |-> Append(Front(events), e), lost |-> 0]
  ELSE [events |-> events, lost |-> 1]

\* _append_bounded: the terminal event takes the place of the last one.
Bounded(events, e) ==
  IF Len(events) < MaxEventsPerRun
  THEN [events |-> Append(events, e), lost |-> 0]
  ELSE [events |-> IF e \in Terminals THEN Append(Front(events), e) ELSE events, lost |-> 1]

\* emit(): the event e of this run at this time.
MemoryOffer(run, e, now) ==
  IF shutm \/ run \in Runs_(completed)
  THEN /\ tally' = [offered |-> tally.offered + 1, refused |-> tally.refused + 1,
                    dropped |-> tally.dropped + IF shutm THEN 0
                                                ELSE Events(activeRuns) - Events(Live(now)),
                    evicted |-> tally.evicted]
       /\ activeRuns' = IF shutm THEN activeRuns ELSE Live(now)
       /\ UNCHANGED <<completed, shutm>>
  ELSE LET live  == Live(now)
           known == {x \in ToSet(live) : x.run = run}
           old   == IF known = {} THEN [run |-> run, events |-> <<>>, seen |-> now, cut |-> FALSE]
                    ELSE CHOOSE x \in known : TRUE
           new   == Bounded(old.events, e)
           this  == [run |-> run, events |-> new.events, seen |-> now,
                     cut |-> old.cut \/ new.lost > 0]
           rest  == Except(live, run)
           under == IF e \in Terminals THEN rest ELSE Newest(Append(rest, this), MaxActiveRuns)
           over  == IF e \in Terminals
                    THEN Append(completed, [run |-> run, events |-> this.events, cut |-> this.cut])
                    ELSE completed
       IN /\ activeRuns' = under
          /\ completed' = Newest(over, MaxRuns)
          /\ tally' = [
               offered |-> tally.offered + 1,
               dropped |-> tally.dropped + (Events(activeRuns) - Events(live)) + new.lost
                             + IF e \in Terminals THEN 0
                               ELSE Events(Append(rest, this)) - Events(under),
               evicted |-> tally.evicted + (Events(over) - Events(completed')),
               refused |-> tally.refused]
          /\ UNCHANGED shutm

\* aclose() discards the runs under way and keeps the completed ones.
MemoryClose ==
  /\ ~shutm
  /\ shutm' = TRUE /\ activeRuns' = <<>>
  /\ tally' = [tally EXCEPT !.dropped = @ + Events(activeRuns)]
  /\ UNCHANGED completed

-----------------------------------------------------------------------------
\* Nothing disappears unaccounted: every event offered is held, or counted as
\* dropped, evicted or refused, through truncation, expiry, overflow of runs
\* under way, eviction of completed ones and close.
EventsAreAccounted ==
  tally.offered = Events(activeRuns) + Events(completed)
                    + tally.dropped + tally.evicted + tally.refused

\* The documentation's promise: what is retained are whole runs, except where
\* they are marked truncated.
RetainedRunsAreWhole ==
  \A i \in DOMAIN completed : completed[i].cut \/ completed[i].events[1] = "run_started"
=============================================================================
