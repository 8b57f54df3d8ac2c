---------------------------- MODULE TraceBuilder ----------------------------
(***************************************************************************)
(* tracing.py TraceBuilder, with the tasks that write to one run's trace:  *)
(* the run itself (_run_ask and the body it waits for) and the backend     *)
(* populations it leads, which a shared flight may keep alive after the    *)
(* run has ended.  The builder's lock is held while events are recorded    *)
(* and handed to the sinks one after another, and every such delivery is   *)
(* an await at which the writing task can be cancelled.                    *)
(*                                                                         *)
(* Event contents, redaction and the counters of the summary are left out. *)
(* Invocations are numbered in the order in which they start.              *)
(***************************************************************************)
EXTENDS Naturals, Sequences, SequencesExt, FiniteSets

CONSTANTS
  Run,             \* the task of the run
  Populations,     \* tasks of populations led by the run
  NumSinks,        \* trace sinks, in the order in which they are served
  MaxInvocations,  \* bound on the invocations started in the run
  MaxInterrupts    \* bound on the cancellations delivered

Free  == "nobody"

ASSUME TaskAssumption ==
  /\ Run \notin Populations /\ IsFiniteSet(Populations)
  /\ Free \notin Populations \cup {Run}
  /\ NumSinks \in Nat \ {0} /\ MaxInvocations \in Nat /\ MaxInterrupts \in Nat

VARIABLES
  events,      \* self._events
  active,      \* keys of self._active_invocations, in insertion order
  final,       \* self._final_trace is set
  holder,      \* the task that holds self._lock
  agenda,      \* events that the lock's holder has still to record
  cursor,      \* the sink being served with the last event, 0 when none is
  broken,      \* self._failed_sink_ids
  heard,       \* positions in events of what each sink has accepted
  cut,         \* deliveries <<position, sink>> given up by a cancelled task
  op,          \* the builder method each task is in
  own,         \* invocations each task has a handle of and has not finished
  issued,      \* invocations started so far
  phase,       \* how far each task has come
  interrupts   \* cancellations delivered so far

vars == <<events, active, final, holder, agenda, cursor, broken, heard, cut,
          op, own, issued, phase, interrupts>>

Tasks == {Run} \cup Populations
Sinks == 1..NumSinks

Event(kind, inv) == [kind |-> kind, inv |-> inv]
NoOp == [kind |-> "none", inv |-> 0]
Begin == Event("run_started", 0)
Terminal == Event("terminal", 0)    \* run_finished or run_failed
Loaded == Event("point", 0)         \* image_loaded

\* A task of the run: "starting" before the try block of _run_ask, "working"
\* inside it, "unwinding" in its handlers, then "done", or "abandoned" when a
\* cancellation ends one of the handlers or the start.
Phases == {"starting", "working", "unwinding", "done", "abandoned"}

Init ==
  /\ events = <<>> /\ active = <<>> /\ final = FALSE
  /\ holder = Free /\ agenda = <<>> /\ cursor = 0
  /\ broken = {} /\ heard = [s \in Sinks |-> <<>>] /\ cut = {}
  /\ op = [t \in Tasks |-> NoOp]
  /\ own = [t \in Tasks |-> {}]
  /\ issued = 0
  /\ phase = [t \in Tasks |-> IF t = Run THEN "starting" ELSE "working"]
  /\ interrupts = 0

book    == <<events, active, issued, heard, broken, cut>>
writing == <<holder, agenda, cursor>>

-------------------------------------------------------------------------------
\* A task calls a method of the builder.

Request(t, o) ==
  /\ op[t] = NoOp
  /\ op' = [op EXCEPT ![t] = o]
  /\ UNCHANGED <<book, writing, final, own, phase, interrupts>>

\* trace.start() of _run_ask.
CallStart == phase[Run] = "starting" /\ Request(Run, Begin)

\* A population, or the run inside its try block, starts an invocation.  The
\* populations of a run exist once its body works.
CallStartInvocation(t) ==
  /\ phase[t] = "working" /\ phase[Run] # "starting"
  /\ issued + Cardinality({u \in Tasks : op[u].kind = "started"}) < MaxInvocations
  /\ Request(t, Event("started", 0))

\* A task finishes an invocation of its own, after its work or on the way out.
CallFinish(t) ==
  /\ phase[t] \in {"working", "unwinding"}
  /\ \E i \in own[t] : Request(t, Event("finished", i))

\* The body delivers its answer, or a handler of _run_ask ends the run.
CallFinalize ==
  /\ \/ phase[Run] = "working" /\ own[Run] = {}
     \/ phase[Run] = "unwinding"
  /\ ~final
  /\ Request(Run, Terminal)

\* The body raises: a handler takes over.
BodyRaises ==
  /\ phase[Run] = "working" /\ op[Run] = NoOp
  /\ phase' = [phase EXCEPT ![Run] = "unwinding"]
  /\ UNCHANGED <<book, writing, final, op, own, interrupts>>

\* A population has nothing more to record.
PopulationEnds(t) ==
  /\ t # Run /\ op[t] = NoOp
  /\ phase[t] \in {"working", "unwinding"} /\ own[t] = {}
  /\ phase[Run] # "starting"
  /\ phase' = [phase EXCEPT ![t] = "done"]
  /\ UNCHANGED <<book, writing, final, op, own, interrupts>>

-------------------------------------------------------------------------------
\* Under the lock.

Finishes(invs) == [n \in 1..Len(invs) |-> Event("finished", invs[n])]

\* What a call records: a finalization finishes every active invocation, newest
\* first, before the terminal event.  start() is followed by image_loaded,
\* outside the try block as well.
Agenda(o) ==
  CASE o = Terminal -> Finishes(Reverse(active)) \o <<Terminal>>
    [] o = Begin -> <<Begin, Loaded>>
    [] OTHER -> <<o>>

Finished(i) == \E n \in 1..Len(events) : events[n] = Event("finished", i)

\* The call has nothing to record: the invocation is finished already, by its
\* owner or by a finalization.  (Only the run finalizes, and not once more when
\* the trace is final.)
Settled(o) == o.kind = "finished" /\ Finished(o.inv)

\* After a call has returned to task t.
Returned(t, o) ==
  /\ op' = [op EXCEPT ![t] = NoOp]
  /\ own' = [own EXCEPT ![t] = CASE o.kind = "finished" -> @ \ {o.inv}
                                 [] o.kind = "started"  -> @ \cup {o.inv}
                                 [] OTHER -> @]
  /\ phase' = [phase EXCEPT ![t] =
                 CASE o.kind = "run_started" -> "working"
                   [] o.kind = "terminal" -> "done"
                   [] OTHER -> @]

\* Mutant: a late population may still start an invocation.
RefusedNever(o) == FALSE

\* start_invocation on a final trace raises.
Refused(o) == o.kind = "started" /\ final

\* The lock is free and the call has something to record.
Acquire(t) ==
  /\ holder = Free /\ op[t] # NoOp /\ ~Settled(op[t])
  /\ ~Refused(op[t])
  /\ holder' = t
  /\ agenda' = Agenda(op[t])
  /\ UNCHANGED <<book, cursor, final, op, own, phase, interrupts>>

ReturnAtOnce(t) ==
  /\ holder = Free /\ Settled(op[t])
  /\ Returned(t, op[t])
  /\ UNCHANGED <<book, writing, final, interrupts>>

\* "cannot start invocations after trace finalization": the population fails.
RefuseStart(t) ==
  /\ holder = Free /\ Refused(op[t])
  /\ op' = [op EXCEPT ![t] = NoOp]
  /\ phase' = [phase EXCEPT ![t] = "unwinding"]
  /\ UNCHANGED <<book, writing, final, own, interrupts>>

\* _new_event: the next event of the agenda is on record, and an invocation is
\* active from its start to its finish.
Record ==
  LET e == Head(agenda)
      i == issued + 1
  IN /\ holder # Free /\ cursor = 0 /\ agenda # <<>>
     /\ agenda' = Tail(agenda)
     /\ cursor' = 1
     /\ IF e.kind = "started"
        THEN /\ events' = Append(events, Event("started", i))
             /\ active' = Append(active, i)
             /\ issued' = i
             /\ op' = [op EXCEPT ![holder].inv = i]
        ELSE /\ events' = Append(events, e)
             /\ active' = IF e.kind = "finished" THEN RemoveFirst(active, e.inv)
                                                       ELSE active
             /\ UNCHANGED <<issued, op>>
     /\ UNCHANGED <<holder, heard, broken, cut, final, own, phase, interrupts>>

NextSink == IF cursor = NumSinks THEN 0 ELSE cursor + 1

\* Mutant: the failure is warned of, but the sink is used again.
DisableNot(s) == UNCHANGED broken

\* _record_sink_failure.
Disable(s) == broken' = broken \cup {s}

\* _emit_to_sinks: one sink accepts the event, fails and is disabled, or is
\* skipped because it has failed before.
Deliver(ok) ==
  /\ cursor \in Sinks
  /\ IF cursor \in broken THEN UNCHANGED <<heard, broken>>
     ELSE IF ok
     THEN heard' = [heard EXCEPT ![cursor] = Append(@, Len(events))] /\ UNCHANGED broken
     ELSE Disable(cursor) /\ UNCHANGED heard
  /\ cursor' = NextSink
  /\ UNCHANGED <<events, active, issued, cut, holder, agenda, final, op, own, phase,
                 interrupts>>

\* All is recorded and delivered: the lock is released and the call returns; a
\* finalization stores the trace first.
Complete ==
  /\ holder # Free /\ cursor = 0 /\ agenda = <<>>
  /\ final' = (final \/ op[holder] = Terminal)
  /\ holder' = Free
  /\ Returned(holder, op[holder])
  /\ UNCHANGED <<book, agenda, cursor, interrupts>>

-------------------------------------------------------------------------------
\* Mutant: the handlers of _run_ask do not see a cancellation.
AfterInterruptUnhandled(t) == IF t # Run THEN "unwinding" ELSE "done"

\* Where a cancelled task goes on: a handler of _run_ask follows the body, but
\* nothing follows a handler or precedes the try block.  A handler that was
\* only finishing an invocation is followed by _run_ask's.
AfterInterrupt(t) ==
  IF t # Run THEN "unwinding"
  ELSE IF phase[Run] = "starting" \/ (phase[Run] = "unwinding" /\ op[Run] = Terminal)
  THEN "abandoned"
  ELSE "unwinding"

\* The task is cancelled while it waits for the lock, while it serves a sink, or
\* in between two calls.
Interrupt(t) ==
  /\ interrupts < MaxInterrupts
  /\ phase[t] \notin {"done", "abandoned"}
  /\ phase[t] = "starting" => op[t] # NoOp
  /\ interrupts' = interrupts + 1
  /\ op' = [op EXCEPT ![t] = NoOp]
  /\ phase' = [phase EXCEPT ![t] = AfterInterrupt(t)]
  /\ IF holder = t
     THEN /\ cursor \in Sinks
          /\ holder' = Free /\ agenda' = <<>> /\ cursor' = 0
          /\ cut' = cut \cup {<<Len(events), s>> : s \in cursor..NumSinks}
     ELSE UNCHANGED <<writing, cut>>
  /\ UNCHANGED <<events, active, issued, heard, broken, final, own>>

Writing == Record \/ (\E ok \in BOOLEAN : Deliver(ok)) \/ Complete

TaskStep(t) ==
  \/ Acquire(t) \/ ReturnAtOnce(t) \/ RefuseStart(t)
  \/ CallStartInvocation(t) \/ CallFinish(t) \/ PopulationEnds(t)

Next ==
  \/ CallStart \/ CallFinalize \/ BodyRaises
  \/ Writing
  \/ \E t \in Tasks : TaskStep(t) \/ Interrupt(t)

\* Sinks answer and the lock is fair (asyncio.Lock serves in order); the run
\* comes to an end, a handler at the latest.
Fairness ==
  /\ WF_vars(Writing)
  /\ WF_vars(CallStart) /\ SF_vars(CallFinalize)
  /\ \A t \in Tasks : /\ WF_vars(CallFinish(t))
                      /\ SF_vars(Acquire(t) \/ ReturnAtOnce(t) \/ RefuseStart(t))

Spec == Init /\ [][Next]_vars /\ Fairness

-------------------------------------------------------------------------------
Kinds == {"none", "run_started", "point", "started", "finished", "terminal"}
Records == [kind : Kinds, inv : 0..MaxInvocations]

TypeOK ==
  /\ events \in Seq(Records) /\ active \in Seq(1..MaxInvocations)
  /\ final \in BOOLEAN /\ holder \in Tasks \cup {Free}
  /\ agenda \in Seq(Records) /\ cursor \in 0..NumSinks
  /\ broken \subseteq Sinks /\ heard \in [Sinks -> Seq(Nat)]
  /\ cut \subseteq (Nat \X Sinks)
  /\ op \in [Tasks -> Records] /\ own \in [Tasks -> SUBSET (1..MaxInvocations)]
  /\ issued \in 0..MaxInvocations
  /\ phase \in [Tasks -> Phases] /\ interrupts \in 0..MaxInterrupts

At(e) == {n \in 1..Len(events) : events[n] = e}

\* "Policy, tool, backend, and verification starts have exactly one correlated
\* finish" (docs/runtime.md): an invocation is never finished twice or before
\* it starts, whoever finishes it, its owner, a handler or a finalization that
\* overtakes them; and in a final trace none is left unfinished, even one whose
\* start was cancelled before its caller had a handle of it.
StartsAreFinishedOnce ==
  /\ \A i \in 1..issued : \E n \in 1..Len(events) :
       /\ At(Event("started", i)) = {n}
       /\ \/ At(Event("finished", i)) = {} /\ Contains(active, i)
          \/ \E m \in n + 1..Len(events) : At(Event("finished", i)) = {m}
  /\ final => active = <<>> /\ Last(events) = Terminal

\* The event whose delivery to s is over, in order of recording.
Served(n, s) == n < Len(events) \/ (n = Len(events) /\ (cursor = 0 \/ s < cursor))

\* A sink accepts events in the order in which they are recorded, and misses
\* none unless it has failed or the delivery was cancelled: what two tasks
\* record at the same time reaches every sink in the same order.
SinksHearInOrder ==
  \A s \in Sinks :
    /\ \A m, n \in 1..Len(heard[s]) : m < n => heard[s][m] < heard[s][n]
    /\ s \notin broken => \A n \in 1..Len(events) :
         Served(n, s) => Contains(heard[s], n) \/ <<n, s>> \in cut

\* What a reader of a trace, or of a sink, may rely on (TraceBuilder): starts and finishes
\* match and every sink hears one order, whoever is interrupted and whichever sink fails.
TraceIsOrderly == TypeOK /\ StartsAreFinishedOnce /\ SinksHearInOrder

\* Nothing is recorded in a trace that is final, however late a population that
\* outlives its run comes.
FinalTraceIsFrozen == [][final => final' /\ UNCHANGED events]_vars

\* A run that reaches its try block has its trace finalized, through failures
\* of sinks and cancellation of its body, unless its handler is cancelled too.
RunIsFinalized == phase[Run] = "working" ~> final \/ phase[Run] = "abandoned"

\* CHANGELOG.md: "Trace finalization now finishes every still-active invocation
\* before emitting the terminal event": the terminal event comes once, and last.
TerminalIsLast ==
  \A n \in 1..Len(events) : events[n] = Terminal => n = Len(events)

===============================================================================
