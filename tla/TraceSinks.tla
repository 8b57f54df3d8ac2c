----------------------------- MODULE TraceSinks -----------------------------
(***************************************************************************)
(* The sinks that ship with the library, fed by the builders of concurrent  *)
(* runs (tracing.py _emit_to_sinks), with the owner closing a sink at any   *)
(* time.  The sinks of a builder are called one after the other and share   *)
(* nothing, so each configuration here attaches one.                        *)
(***************************************************************************)
EXTENDS JsonlSink, MemorySink, TelemetrySink

CONSTANTS
  Script,    \* for each sink the events of each run: kind, invocation and parent
  LastTick   \* bound on the clock

EventKinds == {"run_started", "started", "finished", "point", "run_finished"}

\* An operation has an invocation of its own, which is not the run's.
ASSUME ScriptAssumption ==
  \A s \in {"jsonl", "memory", "telemetry"}, r \in Runs :
    /\ Script[s][r] \in Seq([kind : EventKinds, inv : Nat, parent : Nat])
    /\ \A i \in DOMAIN Script[s][r] : Script[s][r][i].kind = "started" => Script[s][r][i].inv # 0

VARIABLES
  attached,  \* the sink that is configured
  at,        \* the next event of each run
  now

streamVars == <<attached, at, now>>
sinkVars == <<jsonlVars, memoryVars, telemetryVars, streamVars>>

SinkInit ==
  /\ JsonlInit /\ MemoryInit /\ TelemetryInit
  /\ attached \in {"jsonl", "memory", "telemetry"}
  /\ attached # "jsonl" => overflow = "drop_new"
  /\ at = [r \in Runs |-> 1] /\ now = 0

\* The builder delivers a run's next event when the sink has taken the last.
DeliverEvent(r) ==
  /\ at[r] <= Len(Script[attached][r]) /\ putting[r] = NoLine
  /\ LET e == Script[attached][r][at[r]]
     IN CASE attached = "jsonl" ->
               JsonlOffer(r, <<r, at[r]>>) /\ UNCHANGED <<memoryVars, telemetryVars>>
          [] attached = "memory" ->
               MemoryOffer(r, e.kind, now) /\ UNCHANGED <<jsonlVars, telemetryVars>>
          [] attached = "telemetry" ->
               TelemetryOffer(r, at[r], e, now) /\ UNCHANGED <<jsonlVars, memoryVars>>
  /\ at' = [at EXCEPT ![r] = @ + 1]
  /\ UNCHANGED <<attached, now>>

Others == UNCHANGED <<memoryVars, telemetryVars, streamVars>>
Writer == JsonlWriter /\ Others
ResumeEmit(r) == JsonlResume(r) /\ Others
GiveUpEmit(r) == JsonlGiveUp(r) /\ Others
MarkEnd == (PutStop \/ ResumeStop) /\ Others
CloseJsonl(c) == attached = "jsonl" /\ JsonlClose(c) /\ Others
JsonlClosed(c) == JsonlCloseReturns(c) /\ Others

CloseMemory ==
  attached = "memory" /\ MemoryClose /\ UNCHANGED <<jsonlVars, telemetryVars, streamVars>>
CloseTelemetry ==
  attached = "telemetry" /\ TelemetryClose /\ UNCHANGED <<jsonlVars, memoryVars, streamVars>>

Tick ==
  /\ now < LastTick /\ attached # "jsonl"
  /\ now' = now + 1
  /\ UNCHANGED <<jsonlVars, memoryVars, telemetryVars, attached, at>>

SinkNext ==
  \/ \E r \in Runs : DeliverEvent(r) \/ ResumeEmit(r) \/ GiveUpEmit(r)
  \/ \E c \in JsonlClosers : CloseJsonl(c) \/ JsonlClosed(c)
  \/ Writer \/ MarkEnd \/ CloseMemory \/ CloseTelemetry \/ Tick

\* The event loop runs the writer, the close task and whoever was woken.
SinkFairness ==
  /\ WF_sinkVars(Writer) /\ WF_sinkVars(PutStop /\ Others) /\ WF_sinkVars(ResumeStop /\ Others)
  /\ \A r \in Runs : WF_sinkVars(ResumeEmit(r))
  /\ \A c \in JsonlClosers : WF_sinkVars(JsonlClosed(c))

SinkSpec == SinkInit /\ [][SinkNext]_sinkVars /\ SinkFairness

-----------------------------------------------------------------------------
\* Nothing a sink was given is unaccounted for: the memory sink holds each event or counts
\* what became of it, and the telemetry sink ends each span it started once, when the run,
\* its limits or its close require it (trace_sinks/memory.py, trace_sinks/opentelemetry.py).
SinksAccountForRuns == EventsAreAccounted /\ SpansEndOnce

\* Every aclose() of the file sink returns, with the queue full, tasks
\* waiting for slots and lines that cannot be written.
JsonlClosesReturn ==
  \A c \in JsonlClosers : (jcloser[c] = "waiting") ~> (jcloser[c] = "returned")
=============================================================================
