------------------------------ MODULE Evidence ------------------------------
(***************************************************************************)
(* How one session gathers evidence (session.py): inspections that run      *)
(* their operations one by one or a few at a time, and asks whose tool      *)
(* calls perceive, transform and mark images.  One operation runs at a      *)
(* time; every await is a step boundary at which it may be cancelled or     *)
(* time out.  Rendering happens in threads that nothing can stop.  What a   *)
(* perception does is the subject of Perception, how many calls a run makes *)
(* that of AskLoop.                                                         *)
(***************************************************************************)
EXTENDS ObservationStore

CONSTANTS
  Overview,      \* capabilities of the available overview, in order
  Supported,     \* capabilities that some backend serves
  Plans,         \* inspection plans: explicit operations, overview, fail_fast
  Renderings,    \* the digest sequences a transform may produce
  MaxParallel,   \* max_parallel_tools
  ToolLimit,     \* max_tool_calls
  RenderSlots,   \* render threads that may be busy at once
  MaxOperations  \* bound on the operations of the session

\* A transform renders at least one image.
ASSUME RenderAssumption ==
  /\ \A out \in Renderings : out \in Seq(Digests) /\ out # <<>>
  /\ IsFiniteSet(RenderSlots) /\ 0 \notin RenderSlots
  /\ ToolLimit \in Nat /\ MaxOperations \in Nat

VARIABLES
  pc,         \* where the running operation waits: "idle", "initial", "gather", ...
  op,         \* its kind, mode, first own observation and previous action's observations
  plan,       \* its planned perceptions
  jobs,       \* and the state of each
  toolsLeft,
  tool,       \* the tool call under way, or the one that was cut off
  renders,    \* the render threads
  told,       \* observations named by the run's trace
  report,     \* what the last operation returned
  closing,    \* "open", "closing" or "closed"
  operations  \* operations begun

sessionVars == <<pc, op, plan, jobs, toolsLeft, tool, renders, told, report, closing, operations>>
evidenceVars == <<assetVars, observations, sessionVars>>

NoTool == [asset |-> None, capability |-> "none", sources |-> {}, slot |-> 0, first |-> 0,
           fresh |-> FALSE, dropped |-> FALSE]
Free == [state |-> "free", wanted |-> FALSE, out |-> <<>>]
Settled == {"ok", "empty", "error", "warned", "committed"}

EvidenceInit ==
  /\ AssetInit /\ observations = <<>>
  /\ pc = "idle" /\ op = [kind |-> "none", failFast |-> FALSE, first |-> 0, parents |-> {}]
  /\ plan = <<>> /\ jobs = <<>> /\ toolsLeft = 0 /\ tool = NoTool
  /\ renders = [r \in RenderSlots |-> Free]
  /\ told = {} /\ report = [outcome |-> "none", listed |-> <<>>]
  /\ closing = "open" /\ operations = 0

Perceived(asset) == {observations[n].kind : n \in {k \in Numbers : observations[k].asset = asset}}

Item(capability, asset, required) ==
  [capability |-> capability, asset |-> asset, required |-> required]

BeginOperation(kind, failFast, items, start) ==
  /\ pc = "idle" /\ closing = "open" /\ operations < MaxOperations
  /\ op' = [kind |-> kind, failFast |-> failFast, first |-> Len(observations), parents |-> {}]
  /\ plan' = items /\ jobs' = [i \in 1..Len(items) |-> "todo"]
  /\ toolsLeft' = ToolLimit /\ tool' = NoTool
  /\ told' = {} /\ report' = [outcome |-> "none", listed |-> <<>>]
  /\ pc' = start /\ operations' = operations + 1
  /\ UNCHANGED <<assetVars, observations, renders, closing>>

\* The operation returns, or fails; the session is free for the next one.
End(outcome, listed) ==
  /\ report' = [outcome |-> outcome, listed |-> listed]
  /\ pc' = "idle" /\ plan' = <<>> /\ jobs' = <<>> /\ UNCHANGED tool

-----------------------------------------------------------------------------
(* Inspections.                                                            *)

\* The overview leaves out what the plan asks for itself, metadata that the
\* session has already, and what no backend serves.
InspectionOperations(p, target) ==
  LET explicit == [i \in DOMAIN p.explicit |->
                     Item(p.explicit[i].capability, target, p.explicit[i].required)]
      asked == {explicit[i].capability : i \in {k \in DOMAIN explicit : target = RootId}}
      wanted(c) == /\ c \in Supported \ asked
                   /\ ~(c = "metadata" /\ "metadata" \in Perceived(RootId))
      overview == SelectSeq(IF p.overview THEN Overview ELSE <<>>, wanted)
  IN [i \in DOMAIN overview |-> Item(overview[i], RootId, FALSE)] \o explicit

BeginInspect(p, target) ==
  BeginOperation("inspect", p.failFast, InspectionOperations(p, target), "gather")

\* The semaphore admits operations in plan order; fail-fast runs them singly
\* and stops at the first error.
MayStart(i) ==
  /\ jobs[i] = "todo" /\ \A j \in 1..(i - 1) : jobs[j] # "todo"
  /\ IF op.failFast
     THEN \A j \in 1..(i - 1) : jobs[j] \in Settled \ {"error"}
     ELSE Cardinality({j \in DOMAIN jobs : jobs[j] = "running"}) < MaxParallel

StartJob(i) ==
  /\ pc = "gather" /\ MayStart(i)
  /\ IF plan[i].capability \notin Supported
     THEN /\ jobs' = [jobs EXCEPT ![i] = IF plan[i].required THEN "error" ELSE "warned"]
          /\ UNCHANGED toolsLeft
     ELSE IF toolsLeft = 0
     THEN jobs' = [jobs EXCEPT ![i] = "error"] /\ UNCHANGED toolsLeft
     ELSE jobs' = [jobs EXCEPT ![i] = "running"] /\ toolsLeft' = toolsLeft - 1
  /\ UNCHANGED <<assetVars, observations, pc, op, plan, tool, renders, told, report, closing,
                 operations>>

FinishJob(i) ==
  /\ pc = "gather" /\ jobs[i] = "running"
  /\ \E s \in {"ok", "empty", "error"} :
       /\ s = "empty" => plan[i].capability # "metadata"
       /\ jobs' = [jobs EXCEPT ![i] = s]
  /\ UNCHANGED <<assetVars, observations, pc, op, plan, toolsLeft, tool, renders, told, report,
                 closing, operations>>

\* Operations that fail-fast left out have no outcome.
Gathered ==
  \/ \A i \in DOMAIN jobs : jobs[i] \in Settled
  \/ op.failFast /\ \E i \in DOMAIN jobs : jobs[i] = "error"

\* Only when all have ended are the outcomes visited, in plan order.
MayCommit(i) ==
  Gathered /\ \A j \in 1..(i - 1) : jobs[j] \notin {"ok", "empty"}

Found(i) == Draft(plan[i].capability, plan[i].asset, None, {}, {})

\* Commit one outcome and tell the trace; the emit is awaited.
CommitOutcome(i) ==
  /\ pc = "gather" /\ jobs[i] \in {"ok", "empty"} /\ MayCommit(i)
  /\ observations' = Appended(IF jobs[i] = "ok" THEN <<Found(i)>> ELSE <<>>)
  /\ told' = told \cup (IF jobs[i] = "ok" THEN Batch(1) ELSE {})
  /\ jobs' = [jobs EXCEPT ![i] = "committed"]
  /\ UNCHANGED <<assetVars, pc, op, plan, toolsLeft, tool, renders, report, closing, operations>>

Own == [k \in 1..(Len(observations) - op.first) |-> op.first + k]

InspectionFails ==
  \E i \in DOMAIN jobs : jobs[i] = "error" /\ (plan[i].required \/ Own = <<>>)

EndInspect ==
  /\ pc = "gather"
  /\ Gathered /\ \A i \in DOMAIN jobs : jobs[i] \notin {"ok", "empty"}
  /\ End(IF InspectionFails THEN "failed" ELSE "ok", Own)
  /\ UNCHANGED <<assetVars, observations, op, toolsLeft, renders, told, closing, operations>>

-----------------------------------------------------------------------------
(* Asks: the initial perceptions, then one tool call per turn.  toolsLeft   *)
(* stands for the steps or the tool calls, whichever run out first.         *)

\* What the root has not been asked yet, in the configured order.
InitialPlan ==
  LET missing(c) == c \in Supported \ Perceived(RootId)
      capabilities == SelectSeq(Overview, missing)
  IN [i \in DOMAIN capabilities |-> Item(capabilities[i], RootId, FALSE)]

BeginAsk == BeginOperation("ask", FALSE, InitialPlan, "initial")

\* Append drafts, tell the trace of them and of those in hand, and make them
\* the parents of what comes next.
File(drafts, parents) ==
  /\ observations' = Appended(drafts)
  /\ told' = told \cup parents \cup Batch(Len(drafts))
  /\ op' = [op EXCEPT !.parents = parents \cup Batch(Len(drafts))]

Warning(asset, parents) == Draft("warning", asset, None, parents, {})

\* A perception that found nothing leaves a warning observation.
Perception(capability, asset, parents, found) ==
  IF found THEN Draft(capability, asset, None, parents, {}) ELSE Warning(asset, {})

InitialCall(i) ==
  /\ pc = "initial" /\ toolsLeft > 0
  /\ jobs[i] = "todo" /\ \A j \in 1..(i - 1) : jobs[j] = "committed"
  /\ jobs' = [jobs EXCEPT ![i] = "running"] /\ toolsLeft' = toolsLeft - 1
  /\ UNCHANGED <<assetVars, observations, pc, op, plan, tool, renders, told, report, closing,
                 operations>>

InitialResult(i) ==
  /\ pc = "initial" /\ jobs[i] = "running"
  /\ \E found \in {TRUE} \cup {plan[i].capability = "metadata"} :
       File(<<Perception(plan[i].capability, RootId, {}, found)>>, op.parents)
  /\ jobs' = [jobs EXCEPT ![i] = "committed"]
  /\ UNCHANGED <<assetVars, pc, plan, toolsLeft, tool, renders, report, closing, operations>>

\* A perception that fails here fails the run.
InitialFailure(i) ==
  /\ pc = "initial" /\ jobs[i] = "running"
  /\ End("failed", <<>>)
  /\ UNCHANGED <<assetVars, observations, op, toolsLeft, renders, told, closing, operations>>

StartLoop ==
  /\ pc = "initial"
  /\ \A i \in DOMAIN jobs : jobs[i] = "committed" \/ (jobs[i] = "todo" /\ toolsLeft = 0)
  /\ pc' = "turn"
  /\ UNCHANGED <<assetVars, observations, op, plan, jobs, toolsLeft, tool, renders, told, report,
                 closing, operations>>

\* Invalid arguments, an asset out of sight, a repeated call, a source that
\* cannot be marked or no capacity: a warning takes the call's place.
RefuseTool ==
  /\ pc = "turn" /\ toolsLeft > 0
  /\ File(<<Warning(RootId, op.parents)>>, {})
  /\ toolsLeft' = toolsLeft - 1
  /\ UNCHANGED <<assetVars, pc, plan, jobs, tool, renders, report, closing, operations>>

BeginPerceive(asset, c) ==
  /\ pc = "turn" /\ toolsLeft > 0
  /\ tool' = [NoTool EXCEPT !.asset = asset, !.capability = c]
  /\ pc' = "perceive" /\ toolsLeft' = toolsLeft - 1
  /\ UNCHANGED <<assetVars, observations, op, plan, jobs, renders, told, report, closing,
                 operations>>

EndPerceive ==
  /\ pc = "perceive"
  /\ \/ \E found \in BOOLEAN :
          File(<<Perception(tool.capability, tool.asset, op.parents, found)>>, {})
     \/ File(<<Warning(RootId, op.parents)>>, {})
  /\ pc' = "turn" /\ tool' = NoTool
  /\ UNCHANGED <<assetVars, plan, jobs, toolsLeft, renders, report, closing, operations>>

-----------------------------------------------------------------------------
(* Transforms and marks: rendered in a thread, committed in the session.   *)

\* A transform needs room for what it may create, and an open session; a
\* mark's sources are regions found on the image itself.
MayRender(asset, count) == closing = "open" /\ HasCapacity(asset, count)

Markable(asset, sources) ==
  \A n \in sources : observations[n].kind = "detect" /\ observations[n].asset = asset

\* The thread gets a copy of the image.
BeginRender(asset, sources, count, slot) ==
  /\ pc = "turn" /\ toolsLeft > 0
  /\ MayRender(asset, count) /\ Markable(asset, sources)
  /\ renders[slot] = Free
  /\ renders' = [renders EXCEPT ![slot] = [state |-> "running", wanted |-> TRUE,
                                           out |-> [i \in 1..count |-> None]]]
  /\ opened' = opened + 1
  /\ tool' = [NoTool EXCEPT !.asset = asset, !.sources = sources, !.slot = slot]
  /\ pc' = "render" /\ toolsLeft' = toolsLeft - 1
  /\ UNCHANGED <<records, filed, observations, op, plan, jobs, told, report, closing, operations>>

\* The thread renders what it was asked for, or fails, and closes its copy.
RenderEnds(r) ==
  /\ renders[r].state = "running"
  /\ \/ \E out \in {o \in Renderings : Len(o) = Len(renders[r].out)} :
          /\ renders' = [renders EXCEPT ![r] = [state |-> "done", wanted |-> @.wanted, out |-> out]]
          /\ opened' = (opened + Len(out)) - 1
     \/ /\ renders' = [renders EXCEPT ![r] = [state |-> "failed", wanted |-> @.wanted, out |-> <<>>]]
        /\ opened' = opened - 1
  /\ UNCHANGED <<records, filed, observations, pc, op, plan, jobs, toolsLeft, tool, told, report,
                 closing, operations>>

\* The callback left behind by a cancelled call closes what arrives late.
CloseLate(r) ==
  /\ renders[r].state \in {"done", "failed"} /\ ~renders[r].wanted
  /\ opened' = opened - Len(renders[r].out)
  /\ renders' = [renders EXCEPT ![r] = Free]
  /\ UNCHANGED <<records, filed, observations, pc, op, plan, jobs, toolsLeft, tool, told, report,
                 closing, operations>>

\* Each image gets a lineage record under its asset; a marked image is the
\* only one of its call and gets its mark mapping too.
TransformDrafts(commits, marks) ==
  LET Record(c, kind, sources) == Draft(kind, c.asset, tool.asset, op.parents \cup tool.sources, sources)
  IN [i \in DOMAIN commits |-> Record(commits[i], "transform", {})]
       \o IF marks = {} THEN <<>> ELSE <<Record(commits[1], "mark", marks)>>

\* The session resumes with the images: assets and observations are committed
\* without a suspension between them.  Crowded marks are left out.
TakeRender(marks) ==
  /\ pc = "render" /\ renders[tool.slot].state = "done"
  /\ marks \subseteq tool.sources /\ (marks = {}) = (tool.sources = {})
  /\ LET out == renders[tool.slot].out
         commits == Plan(tool.asset, out).commits
         drafts == TransformDrafts(commits, marks)
     IN /\ CommitAssets(tool.asset, out)
        /\ IF ~Admits(tool.asset, out)
           THEN End("failed", <<>>) /\ UNCHANGED observations
           ELSE IF ~Admissible(drafts, DOMAIN records')
           THEN End("refused", <<>>) /\ UNCHANGED observations
           ELSE /\ observations' = Appended(drafts)
                /\ tool' = [tool EXCEPT !.first = Len(observations) + 1,
                                        !.fresh = \E i \in DOMAIN commits : ~commits[i].reused,
                                        !.dropped = marks # tool.sources]
                /\ pc' = "created"
                /\ UNCHANGED <<report, plan, jobs>>
  /\ renders' = [renders EXCEPT ![tool.slot] = Free]
  /\ UNCHANGED <<op, toolsLeft, told, closing, operations>>

\* Mutant: only the first asset is told.
TellOneAsset(all) ==
  /\ \E n \in tool.first..Len(all) :
       told' = told \cup {m \in tool.first..Len(all) : all[m].asset = all[n].asset}
  /\ pc' = "turn" /\ tool' = NoTool
  /\ op' = [op EXCEPT !.parents = tool.first..Len(all)]

\* The trace is told of the call's observations asset by asset, in the order
\* the assets come first; each emit is awaited.
TellAsset(all) ==
  LET own == tool.first..Len(all)
      About(n) == {m \in own : all[m].asset = all[n].asset}
  IN /\ \E n \in own \ told : /\ \A m \in own \ told : n <= m
                             /\ told' = told \cup About(n)
     /\ IF own \subseteq told'
        THEN pc' = "turn" /\ tool' = NoTool /\ op' = [op EXCEPT !.parents = own]
        ELSE pc' = "telling" /\ UNCHANGED <<tool, op>>

\* Once every new asset is announced the warnings are committed, and the trace
\* is told of the first asset.
AnnounceAssets ==
  /\ pc = "created"
  /\ LET own == tool.first..Len(observations)
     IN observations' = Appended(IF tool.dropped THEN <<Warning(tool.asset, own)>> ELSE <<>>)
  /\ TellAsset(observations')
  /\ UNCHANGED <<assetVars, plan, jobs, toolsLeft, renders, report, closing, operations>>

TellNext ==
  /\ pc = "telling" /\ TellAsset(observations)
  /\ UNCHANGED <<assetVars, observations, plan, jobs, toolsLeft, renders, report, closing,
                 operations>>

RenderFailed ==
  /\ pc = "render" /\ renders[tool.slot].state = "failed"
  /\ File(<<Warning(RootId, op.parents)>>, {})
  /\ renders' = [renders EXCEPT ![tool.slot] = Free]
  /\ pc' = "turn" /\ tool' = NoTool
  /\ UNCHANGED <<assetVars, plan, jobs, toolsLeft, report, closing, operations>>

EndAsk ==
  /\ pc = "turn" /\ End("ok", <<>>)
  /\ UNCHANGED <<assetVars, observations, op, toolsLeft, renders, told, closing, operations>>

-----------------------------------------------------------------------------
(* Cancellation, time-out and close.                                       *)

\* Mutant: no callback on the shielded task.
AbandonForgotten(slot) == renders

\* A thread goes on without the call that wanted its images.
Abandon(slot) ==
  IF slot = 0 THEN renders ELSE [renders EXCEPT ![slot].wanted = FALSE]

\* The operation is interrupted where it waits; if every image was already
\* there, nothing is announced and nothing waits.
Interrupt ==
  /\ pc # "idle" /\ (pc = "created" => tool.fresh)
  /\ renders' = Abandon(IF pc = "render" THEN tool.slot ELSE 0)
  /\ End("cancelled", <<>>)
  /\ UNCHANGED <<assetVars, observations, op, toolsLeft, told, closing, operations>>

BeginClose ==
  /\ closing = "open" /\ closing' = "closing"
  /\ UNCHANGED <<assetVars, observations, pc, op, plan, jobs, toolsLeft, tool, renders, told, report,
                 operations>>

\* The operation lock is free: both stores let go of what they hold.
FinishClose ==
  /\ closing = "closing" /\ pc = "idle"
  /\ CloseAssets /\ observations' = <<>> /\ closing' = "closed"
  /\ UNCHANGED <<pc, op, plan, jobs, toolsLeft, tool, renders, told, report, operations>>

Gather ==
  pc = "gather" /\ (EndInspect \/ \E i \in DOMAIN jobs : StartJob(i) \/ FinishJob(i) \/ CommitOutcome(i))

Initial ==
  /\ pc = "initial"
  /\ StartLoop \/ \E i \in DOMAIN jobs : InitialCall(i) \/ InitialResult(i) \/ InitialFailure(i)

MarkSources == {S \in SUBSET Numbers : S # {} /\ Cardinality(S) <= 2}

CallTool ==
  /\ pc = "turn" /\ toolsLeft > 0
  /\ \/ RefuseTool
     \/ \E a \in Owned, c \in Supported : BeginPerceive(a, c)
     \/ \E a \in Owned, r \in RenderSlots :
          \/ \E o \in Renderings : BeginRender(a, {}, Len(o), r)
          \/ \E S \in MarkSources : BeginRender(a, S, 1, r)

FinishTool ==
  \/ EndPerceive \/ RenderFailed \/ AnnounceAssets \/ TellNext
  \/ pc = "render" /\ \E marks \in SUBSET tool.sources : TakeRender(marks)

Thread(r) == RenderEnds(r) \/ CloseLate(r)

EvidenceNext ==
  \/ \E p \in Plans, target \in Owned : BeginInspect(p, target)
  \/ BeginAsk \/ Gather \/ Initial \/ CallTool \/ FinishTool \/ EndAsk
  \/ (\E r \in RenderSlots : Thread(r)) \/ Interrupt \/ BeginClose \/ FinishClose

\* Backends, policies and threads come to an end, and the loop runs what is
\* ready; nobody has to begin, interrupt or close anything.
EvidenceFairness ==
  /\ WF_evidenceVars(Gather \/ Initial \/ FinishTool \/ EndAsk \/ FinishClose)
  /\ \A r \in RenderSlots : WF_evidenceVars(Thread(r))

EvidenceSpec == EvidenceInit /\ [][EvidenceNext]_evidenceVars /\ EvidenceFairness

-----------------------------------------------------------------------------
\* Whatever was cancelled, refused or reused, every derived asset is explained
\* by a lineage record naming its parent, which is one level above it; no
\* two assets share a digest or an identifier; and no batch that the store
\* refuses is ever produced (assets.py commit, session.py
\* _commit_transform_observations, store.py _commit).
EvidenceIsGrounded ==
  /\ report.outcome # "refused"
  /\ \A a \in Owned \ {RootId} :
       /\ \E n \in Numbers : /\ observations[n].kind = "transform"
                            /\ observations[n].asset = a
                            /\ observations[n].from = records[a].parent
       /\ records[a].parent \in Owned
       /\ records[a].depth = records[records[a].parent].depth + 1
  /\ \A a, b \in Owned : records[a].digest = records[b].digest => a = b
  /\ \A n \in Numbers : \A k \in observations[n].parents \cup observations[n].marks : k < n

\* The render threads whose images nobody has taken over yet.
Rendered == {r \in RenderSlots : renders[r].state = "done"}

\* Every open image belongs to the store or to a render thread: reuse,
\* failed commits and late renderings leave none behind (assets.py commit,
\* builtin.py _render and its callbacks).
ImagesAccounted ==
  opened = Cardinality(Owned)
           + Cardinality({r \in RenderSlots : renders[r].state = "running"})
           + Cardinality(UNION {{r} \X (1..Len(renders[r].out)) : r \in Rendered})

\* What the two stores of a session hold agrees with each other and with the
\* images that are open, however operations and renderings were interleaved,
\* refused or cancelled.
StoresAreConsistent == EvidenceIsGrounded /\ ImagesAccounted

\* The outcome an observation of the running inspection comes from.
ComesFrom(n, i) ==
  /\ jobs[i] = "committed"
  /\ plan[i].capability = observations[n].kind /\ plan[i].asset = observations[n].asset

\* An inspection reports, wholly or in part, exactly what it committed, in the
\* order of the plan whatever order the perceptions ended in, also when a plan
\* asks for the same thing twice.
InspectionReportsCommits ==
  /\ op.kind = "inspect" /\ report.outcome \in {"ok", "failed"} /\ closing # "closed"
       => report.listed = Own
  /\ op.kind = "inspect" /\ pc = "gather" =>
       \E place \in [DOMAIN Own -> DOMAIN jobs] :
         \A k \in DOMAIN Own : /\ ComesFrom(Own[k], place[k])
                               /\ \A j \in 1..(k - 1) : place[j] < place[k]

\* A run that returns has told its trace of every observation it committed.
\* An interrupted one can leave out only what the call it was making committed
\* (the lineage records and the warning after them), and an asset's
\* observations of that call are told together or not at all.
TraceTellsCommits ==
  pc = "idle" =>
    \A n \in (op.first + 1)..Len(observations) :
      n \notin told =>
        /\ report.outcome = "cancelled"
        /\ tool.first \in (op.first + 1)..n
        /\ \/ observations[n].kind \in {"transform", "mark"}
           \/ observations[n].kind = "warning" /\ n = Len(observations)
        /\ \A m \in told : m >= tool.first => observations[m].asset # observations[n].asset

\* What is committed is told: an inspection's report and the run's trace agree
\* with the store, also when the run fails or is interrupted half-way.
CommitsAreTold == InspectionReportsCommits /\ TraceTellsCommits

\* A close waits for the running operation, and once the render threads have
\* come to their end no image of the session stays open.
CloseReleasesImages == (closing = "closing") ~> (closing = "closed" /\ opened = 0)
=============================================================================
