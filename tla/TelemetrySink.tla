--------------------------- MODULE TelemetrySink ---------------------------
(***************************************************************************)
(* trace_sinks/opentelemetry.py: a span for each run and for each operation *)
(* of it.  Runs that fall silent, too many runs and too many spans are      *)
(* closed as incomplete, and what arrives for them later is diagnosed.      *)
(***************************************************************************)
EXTENDS Integers, Sequences, SequencesExt, Ordering

CONSTANTS MaxActiveTraces, MaxSpans, TraceTTL

ASSUME TelemetryAssumption ==
  MaxActiveTraces \in Nat \ {0} /\ MaxSpans \in Nat \ {0} /\ TraceTTL \in Nat \ {0}

VARIABLES
  traces,    \* the traces under way, in order of their start: records of run,
             \* the last sequence number, when last seen, open and completed spans
  spans,     \* every span started: how it is, "open" or how it was ended
  diagnosed, \* what was malformed
  shutt      \* _closed

telemetryVars == <<traces, spans, diagnosed, shutt>>

TelemetryInit == traces = <<>> /\ spans = <<>> /\ diagnosed = {} /\ shutt = FALSE

\* A span is known by its run and invocation; the run's own is 0.
Span(run, inv) == <<run, inv>>

\* _close_incomplete, _end_incomplete: the spans a trace has open.
Incomplete(state) == {Span(state.run, inv) : inv \in ToSet(state.open) \cup {0}}

Known(ts, run) == \E i \in DOMAIN ts : ts[i].run = run
State(ts, run) == CHOOSE t \in ToSet(ts) : t.run = run
Put(ts, state) == [i \in DOMAIN ts |-> IF ts[i].run = state.run THEN state ELSE ts[i]]

\* Spans that are open are ended this way; an ended one cannot be.
End(ss, ids, how) ==
  [s \in DOMAIN ss |-> IF s \in ids THEN (IF ss[s] = "open" THEN how ELSE "twice") ELSE ss[s]]
Start(ss, id) == [s \in DOMAIN ss \cup {id} |-> IF s = id THEN "open" ELSE ss[s]]

\* _close_incomplete of several traces.
CloseAll(ss, states) == End(ss, UNION {Incomplete(t) : t \in states}, "incomplete")

\* _evict_expired.
Stale(now) == {t \in ToSet(traces) : now - t.seen >= TraceTTL}

\* _remember_completed: as many as spans may be open.
Remember(state, inv) ==
  [state EXCEPT !.done = Append(IF Len(@) >= MaxSpans THEN Tail(@) ELSE @, inv)]

\* The oldest span makes room for a new one.
SpanRoom(state) ==
  IF Len(state.open) >= MaxSpans
  THEN Remember([state EXCEPT !.open = Tail(@)], Head(state.open))
  ELSE state

\* _make_room_for_trace: the one longest silent.
TraceRoom(ts) ==
  IF Len(ts) < MaxActiveTraces THEN {}
  ELSE {ts[CHOOSE i \in DOMAIN ts : \A j \in DOMAIN ts :
             ts[i].seen < ts[j].seen \/ (ts[i].seen = ts[j].seen /\ i <= j)]}

Diagnose(run, kind) == diagnosed' = diagnosed \cup {<<run, kind>>}

StartRun(run, seq, now, ts, ss) ==
  LET gone == TraceRoom(ts) IN
    /\ traces' = Append(Keeping(ts, ToSet(ts) \ gone),
                        [run |-> run, last |-> seq, seen |-> now, open |-> <<>>, done |-> <<>>])
    /\ spans' = Start(CloseAll(ss, gone), Span(run, 0))
    /\ UNCHANGED diagnosed

\* _parent_span: open, remembered, or else the run's own.
ParentKnown(state, parent) == parent \in {0} \cup ToSet(state.open) \cup ToSet(state.done)
DiagnoseParent(run, state, parent) ==
  IF ParentKnown(state, parent) THEN UNCHANGED diagnosed ELSE Diagnose(run, "unknown_parent")

StartOperation(run, e, state, ts, ss) ==
  IF e.inv \in ToSet(state.open) \cup ToSet(state.done)
  THEN Diagnose(run, "duplicate") /\ traces' = Put(ts, state) /\ spans' = ss
  ELSE LET room == SpanRoom(state)
           gone == {Span(run, i) : i \in ToSet(state.open) \ ToSet(room.open)}
       IN /\ traces' = Put(ts, [room EXCEPT !.open = Append(@, e.inv)])
          /\ spans' = Start(End(ss, gone, "incomplete"), Span(run, e.inv))
          /\ DiagnoseParent(run, room, e.parent)

FinishOperation(run, inv, state, ts, ss) ==
  IF inv \in ToSet(state.open)
  THEN /\ traces' = Put(ts, Remember([state EXCEPT !.open = Keeping(@, ToSet(@) \ {inv})], inv))
       /\ spans' = End(ss, {Span(run, inv)}, "finished")
       /\ UNCHANGED diagnosed
  ELSE /\ Diagnose(run, IF inv \in ToSet(state.done) THEN "duplicate" ELSE "missing_start")
       /\ traces' = Put(ts, state) /\ spans' = ss

\* Operations still open are incomplete when their run ends.
FinishRun(run, state, ts, ss) ==
  /\ traces' = Keeping(ts, {t \in ToSet(ts) : t.run # run})
  /\ spans' = End(End(ss, {Span(run, i) : i \in ToSet(state.open)}, "incomplete"),
                  {Span(run, 0)}, "finished")
  /\ UNCHANGED diagnosed

\* A point event goes to its parent's span.
Point(run, e, state, ts, ss) ==
  /\ traces' = Put(ts, state) /\ spans' = ss
  /\ DiagnoseParent(run, state, e.parent)

\* emit(): event number seq of this run.
TelemetryOffer(run, seq, e, now) ==
  /\ UNCHANGED shutt
  /\ IF shutt THEN UNCHANGED <<traces, spans, diagnosed>>
     ELSE LET ts == Keeping(traces, ToSet(traces) \ Stale(now))
              ss == CloseAll(spans, Stale(now))
              known == State(ts, run)
              state == [run |-> run, last |-> seq, seen |-> now,
                        open |-> known.open, done |-> known.done]
          IN CASE ~Known(ts, run) /\ e.kind = "run_started" -> StartRun(run, seq, now, ts, ss)
               [] ~Known(ts, run) /\ e.kind # "run_started" ->
                    Diagnose(run, "missing_start") /\ traces' = ts /\ spans' = ss
               [] Known(ts, run) /\ seq <= State(ts, run).last ->
                    Diagnose(run, "out_of_order") /\ traces' = ts /\ spans' = ss
               [] OTHER ->
                    CASE e.kind = "run_started" ->
                           Diagnose(run, "duplicate") /\ traces' = Put(ts, state) /\ spans' = ss
                      [] e.kind = "run_finished" -> FinishRun(run, state, ts, ss)
                      [] e.kind = "started"  -> StartOperation(run, e, state, ts, ss)
                      [] e.kind = "finished" -> FinishOperation(run, e.inv, state, ts, ss)
                      [] e.kind = "point"    -> Point(run, e, state, ts, ss)

TelemetryClose ==
  /\ ~shutt
  /\ shutt' = TRUE /\ traces' = <<>>
  /\ spans' = CloseAll(spans, ToSet(traces))
  /\ UNCHANGED diagnosed

-----------------------------------------------------------------------------
\* Every span is ended once: it is open exactly while a trace under way holds
\* it, and no eviction, expiry, duplicate or close ends it again or leaves it
\* open for ever.
SpansEndOnce ==
  /\ {s \in DOMAIN spans : spans[s] = "open"}
       = UNION {{Span(traces[i].run, inv) : inv \in ToSet(traces[i].open) \cup {0}}
                : i \in DOMAIN traces}
  /\ \A s \in DOMAIN spans : spans[s] # "twice"
=============================================================================
