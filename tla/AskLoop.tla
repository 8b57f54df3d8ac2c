------------------------------ MODULE AskLoop ------------------------------
(***************************************************************************)
(* session.ask: the bounded action loop of session.py (_run_ask,           *)
(* _ask_body, _ensure_initial_observations, _policy_action,                *)
(* _complete_answer, _execute_action) over the counters of                 *)
(* reasoning/budget.py.  A session serves one ask after another (they hold *)
(* its operation lock); every ask has a budget of its own, while the       *)
(* derived images stay in the session's asset store.                       *)
(*                                                                         *)
(* What the policy answers, what a tool or a backend does, whether an      *)
(* asset is visible and whether rendered pixels are new are inputs.  An    *)
(* await is where time may run out (TimePasses) or the task be cancelled   *)
(* (Interrupt).                                                            *)
(***************************************************************************)
EXTENDS Naturals

CONSTANTS
  MaxSteps, MaxLLM, MaxTools, MaxBackends, MaxDerived,   \* RunLimits
  MaxIdentical,   \* AgentSettings.max_identical_actions
  InitialPlan,    \* length of AgentSettings.initial_capabilities
  Calls,          \* canonical tool calls a policy can choose
  AssetsOf,       \* _transform_asset_count of each: 0 for a perception tool
  NoCall          \* no tool call under way

\* RunLimits.validate_relationships; AgentSettings bounds its fields below.
ASSUME LimitAssumption ==
  /\ MaxSteps \in Nat \ {0} /\ MaxLLM \in Nat \ {0}
  /\ MaxTools \in Nat \ {0} /\ MaxBackends \in Nat \ {0}
  /\ MaxDerived \in Nat \ {0} /\ MaxIdentical \in Nat \ {0}
  /\ MaxLLM >= MaxSteps + 1
  /\ InitialPlan \in Nat
  /\ AssetsOf \in [Calls -> Nat]
  /\ NoCall \notin Calls

VARIABLES
  pc,        \* where the ask stands
  outcome,   \* how the last ask ended
  timeup,    \* the overall deadline has passed
  steps, llm, tools, backends, derived,   \* RunBudget's counters
  plan,      \* initial capabilities still to gather
  final,     \* budget_final: the policy call may use the reserved call
  repair,    \* the policy call is a repair
  mending,   \* it repairs an answer whose evidence was invalid
  sound,     \* the evidence of the answer under verification is valid
  call,      \* the tool call under way
  counts,    \* action_counts
  blocked,   \* a repeated_action_cycle warning has been recorded
  executed,  \* how often each call reached its tool
  pending,   \* derived assets reserved for the tool under way
  created,   \* assets this ask has added to the store
  stored     \* AssetStore.derived_count of the session

budget == <<steps, llm, tools, backends, derived>>
vars   == <<pc, outcome, timeup, budget, plan, final, repair, mending, sound,
            call, counts, blocked, executed, pending, created, stored>>

\* Groups of variables that many steps leave alone.
mode    == <<final, repair, mending, sound>>
history == <<counts, blocked, executed>>
assets  == <<derived, pending, created, stored>>

AtRest   == {"idle", "done"}
Failures == {"timeout", "cancelled", "step_limit", "llm_limit", "context_limit",
             "perception", "llm_error", "invalid_action", "invalid_evidence",
             "store"}

Init ==
  /\ pc = "idle" /\ outcome = "none" /\ timeup = FALSE
  /\ steps = 0 /\ llm = 0 /\ tools = 0 /\ backends = 0 /\ derived = 0
  /\ plan = 0
  /\ final = FALSE /\ repair = FALSE /\ mending = FALSE /\ sound = FALSE
  /\ call = NoCall
  /\ counts = [a \in Calls |-> 0] /\ blocked = FALSE
  /\ executed = [a \in Calls |-> 0]
  /\ pending = 0 /\ created = 0 /\ stored = 0

\* ask() acquires the operation lock: a new budget, the same asset store.
Ask ==
  /\ pc \in AtRest
  /\ pc' = "planning" /\ outcome' = "none" /\ timeup' = FALSE
  /\ steps' = 0 /\ llm' = 0 /\ tools' = 0 /\ backends' = 0 /\ derived' = 0
  /\ plan' = InitialPlan
  /\ final' = FALSE /\ repair' = FALSE /\ mending' = FALSE /\ sound' = FALSE
  /\ call' = NoCall
  /\ counts' = [a \in Calls |-> 0] /\ blocked' = FALSE
  /\ executed' = [a \in Calls |-> 0]
  /\ pending' = 0 /\ created' = 0
  /\ UNCHANGED stored

Finish(o) == pc' = "done" /\ outcome' = o
Goto(p)   == pc' = p /\ UNCHANGED outcome

-------------------------------------------------------------------------------
\* RunBudget: each reservation checks the deadline before its counter.

CanStartInteractiveStep == ~timeup /\ steps < MaxSteps - 1 /\ llm < MaxLLM - 1

StepCap(answerOnly) == IF answerOnly THEN MaxSteps ELSE MaxSteps - 1

\* Mutant: a repair in the loop spends the call kept for the final answer.
LLMCapUnreserved(forFinal) == MaxLLM

LLMCap(forFinal) == IF forFinal THEN MaxLLM ELSE MaxLLM - 1

\* reserve_llm_call, then the policy is asked; where the run ends when the
\* call cannot be afforded differs between callers.
AskPolicy(forFinal, forRepair, unaffordable) ==
  /\ IF timeup THEN Finish("timeout") /\ UNCHANGED llm
     ELSE IF llm >= LLMCap(forFinal) THEN Finish(unaffordable) /\ UNCHANGED llm
     ELSE Goto("policy") /\ llm' = llm + 1
  /\ final' = forFinal /\ repair' = forRepair

\* reserve_step, then what the decision leads to; a refused step ends the run
\* and leaves the variables in same alone.
ReserveStep(answerOnly, next, same) ==
  IF timeup THEN Finish("timeout") /\ UNCHANGED <<steps, same>>
  ELSE IF steps >= StepCap(answerOnly)
  THEN Finish("step_limit") /\ UNCHANGED <<steps, same>>
  ELSE next /\ steps' = steps + 1

-------------------------------------------------------------------------------
\* _ensure_initial_observations.

\* The capability is already observed on the root, or no backend supports it.
SkipCapability ==
  /\ pc = "planning" /\ plan > 0
  /\ plan' = plan - 1
  /\ UNCHANGED <<pc, outcome, timeup, budget, mode, call, history, pending,
                 created, stored>>

\* Only an exhausted tool budget is caught here: it truncates the plan.
GatherCapability ==
  /\ pc = "planning" /\ plan > 0
  /\ IF timeup THEN Finish("timeout") /\ UNCHANGED <<tools, plan>>
     ELSE IF tools >= MaxTools THEN plan' = 0 /\ UNCHANGED <<pc, outcome, tools>>
     ELSE Goto("perceiving") /\ tools' = tools + 1 /\ plan' = plan - 1
  /\ UNCHANGED <<timeup, steps, llm, backends, mode, call, history, assets>>

PlanGathered ==
  /\ pc = "planning" /\ plan = 0
  /\ Goto("deciding")
  /\ UNCHANGED <<timeup, budget, plan, mode, call, history, pending, created,
                 stored>>

\* reserve_backend_call before one attempt of _perceive, of the initial plan or
\* of a perception tool.
AttemptBackend ==
  /\ \/ pc = "perceiving"
     \/ pc = "executing" /\ AssetsOf[call] = 0
  /\ ~timeup /\ backends < MaxBackends
  /\ backends' = backends + 1
  /\ UNCHANGED <<pc, outcome, timeup, steps, llm, tools, plan, mode, call,
                 history, assets>>

\* An initial perception succeeds, from a backend or from the cache ...
CapabilityGathered ==
  /\ pc = "perceiving"
  /\ Goto("planning")
  /\ UNCHANGED <<timeup, budget, plan, mode, call, history, pending, created,
                 stored>>

\* ... or fails, and every failure of it, a backend limit included, is the
\* run's.
CapabilityFails ==
  /\ pc = "perceiving"
  /\ Finish("perception")
  /\ UNCHANGED <<timeup, budget, plan, mode, call, history, pending, created,
                 stored>>

-------------------------------------------------------------------------------
\* The loop of _ask_body and _policy_action.

\* The policy is not in answer-only mode.
MayUseTools == ~final /\ ~mending

\* The call has been chosen max_identical_actions times already.
Exhausted(a) == counts[a] >= MaxIdentical

StartDecision ==
  /\ pc = "deciding" /\ CanStartInteractiveStep
  /\ AskPolicy(FALSE, FALSE, "llm_limit")
  /\ UNCHANGED <<timeup, steps, tools, backends, plan, mending, sound, call,
                 history, assets>>

\* The loop is over, by its condition or by a tool's budget error: one
\* answer-only call.
StartFinalCall ==
  /\ pc = "stopping" \/ (pc = "deciding" /\ ~CanStartInteractiveStep)
  /\ AskPolicy(TRUE, FALSE, "llm_limit")
  /\ UNCHANGED <<timeup, steps, tools, backends, plan, mending, sound, call,
                 history, assets>>

\* The visible context exceeds its own limit.
ContextOverflows ==
  /\ pc \in {"deciding", "stopping"}
  /\ Finish("context_limit")
  /\ UNCHANGED <<timeup, budget, plan, mode, call, history, pending, created,
                 stored>>

\* Mutant: the repair of an answer-only call is asked for as one of the loop.
RepairForgetsFinal ==
  /\ pc = "policy" /\ ~repair
  /\ AskPolicy(FALSE, TRUE, "invalid_action")
  /\ UNCHANGED <<timeup, steps, tools, backends, plan, mending, sound, call,
                 history, assets>>

\* The first output that does not parse is repaired under the same reservation.
PolicyUnparsable ==
  /\ pc = "policy" /\ ~repair
  /\ AskPolicy(final, TRUE, "invalid_action")
  /\ UNCHANGED <<timeup, steps, tools, backends, plan, mending, sound, call,
                 history, assets>>

\* A repair that does not parse, or a value that is no action.
PolicyInvalid ==
  /\ pc = "policy"
  /\ Finish(IF mending THEN "invalid_evidence" ELSE "invalid_action")
  /\ UNCHANGED <<timeup, budget, plan, mode, call, history, pending, created,
                 stored>>

\* The provider fails or exceeds llm_timeout_s.
PolicyFails ==
  /\ pc = "policy"
  /\ Finish("llm_error")
  /\ UNCHANGED <<timeup, budget, plan, mode, call, history, pending, created,
                 stored>>

\* An answer, whose evidence is valid or not; the repair of an answer is no new
\* decision.
PolicyAnswers(valid) ==
  /\ pc = "policy"
  /\ IF mending THEN Goto("verifying") /\ UNCHANGED steps
     ELSE ReserveStep(final, Goto("verifying"), <<>>)
  /\ sound' = valid
  /\ UNCHANGED <<timeup, llm, tools, backends, plan, final, repair, mending,
                 call, history, assets>>

\* A tool action where only an answer will do.
PolicyDisobeys ==
  /\ pc = "policy" /\ ~MayUseTools
  /\ IF mending THEN Finish("invalid_evidence") /\ UNCHANGED steps
     ELSE ReserveStep(TRUE, Finish("invalid_action"), <<>>)
  /\ UNCHANGED <<timeup, llm, tools, backends, plan, mode, call, history, assets>>

\* A tool action of the loop that has been chosen too often already: a warning,
\* and the loop goes on.
RepeatIsBlocked(a) ==
  /\ pc = "policy" /\ MayUseTools /\ Exhausted(a)
  /\ ReserveStep(FALSE, Goto("deciding") /\ blocked' = TRUE, blocked)
  /\ UNCHANGED <<timeup, llm, tools, backends, plan, mode, call, counts,
                 executed, assets>>

PolicyCalls(a) ==
  /\ pc = "policy" /\ MayUseTools /\ ~Exhausted(a)
  /\ ReserveStep(FALSE,
                 /\ Goto("acting")
                 /\ call' = a
                 /\ counts' = [counts EXCEPT ![a] = @ + 1],
                 <<call, counts>>)
  /\ UNCHANGED <<timeup, llm, tools, backends, plan, mode, blocked, executed,
                 assets>>

\* Mutant: an answer is repaired until its evidence is valid, free of charge.
RepairUntilSound ==
  /\ pc = "verifying"
  /\ IF sound THEN Finish("answered") ELSE Goto("policy")
  /\ mending' = TRUE
  /\ UNCHANGED <<timeup, budget, plan, final, repair, sound, call, history,
                 pending, created, stored>>

\* _complete_answer: valid evidence is delivered, invalid evidence gets one
\* repair on what the loop, or the final call, may still reserve.
VerifyAnswer ==
  /\ pc = "verifying"
  /\ IF sound THEN Finish("answered") /\ UNCHANGED <<llm, final, repair, mending>>
     ELSE IF mending
     THEN Finish("invalid_evidence") /\ UNCHANGED <<llm, final, repair, mending>>
     ELSE AskPolicy(final, TRUE, "invalid_evidence") /\ mending' = TRUE
  /\ UNCHANGED <<timeup, steps, tools, backends, plan, sound, call, history,
                 assets>>

-------------------------------------------------------------------------------
\* _execute_action.

\* Invalid arguments, or an asset outside the context: a warning.
RefuseTool ==
  /\ pc = "acting"
  /\ Goto("deciding")
  /\ UNCHANGED <<timeup, budget, plan, mode, call, history, pending, created,
                 stored>>

\* The fan-out does not fit what is left of max_derived_assets.
Overdraws(n) == derived + n > MaxDerived

\* reserve_tool_call and reserve_derived_assets; "deep" says that the parent is
\* at the maximal derivation depth.  A budget error stops the loop and keeps
\* the tool call that was reserved before it.
ReserveTool(deep) ==
  LET n == AssetsOf[call] IN
  /\ pc = "acting"
  /\ IF timeup THEN Finish("timeout") /\ UNCHANGED <<tools, derived, pending>>
     ELSE IF tools >= MaxTools
     THEN Goto("stopping") /\ UNCHANGED <<tools, derived, pending>>
     ELSE /\ tools' = tools + 1
          /\ IF n > 0 /\ (deep \/ Overdraws(n))
             THEN Goto("stopping") /\ UNCHANGED <<derived, pending>>
             ELSE Goto("starting") /\ derived' = derived + n /\ pending' = n
  /\ UNCHANGED <<timeup, steps, llm, backends, plan, mode, call, history,
                 created, stored>>

\* The tool_call invocation is on record and the tool starts.
StartTool ==
  /\ pc = "starting"
  /\ Goto("executing")
  /\ executed' = [executed EXCEPT ![call] = @ + 1]
  /\ UNCHANGED <<timeup, budget, plan, mode, call, counts, blocked, pending,
                 created, stored>>

\* Mutant: a failed tool keeps its reservation.
RefundForgotten == pending' = 0 /\ UNCHANGED derived

\* refund_reused_assets of all that the tool had reserved.
Refund == derived' = derived - pending /\ pending' = 0

\* The tool raises, for want of store capacity or of backend calls among other
\* reasons: the reservation goes back and the policy gets a warning.
ToolFails ==
  /\ pc = "executing"
  /\ Refund
  /\ Goto("deciding")
  /\ UNCHANGED <<timeup, steps, llm, tools, backends, plan, mode, call, history,
                 created, stored>>

ToolPerceives ==
  /\ pc = "executing" /\ AssetsOf[call] = 0
  /\ Goto("deciding")
  /\ UNCHANGED <<timeup, budget, plan, mode, call, history, pending, created,
                 stored>>

\* The tool found capacity for all it may create; "fresh" of its images are new
\* to the store, and the reservation of the others is given back.
ToolRenders(fresh) ==
  /\ pc = "executing" /\ AssetsOf[call] > 0
  /\ stored + pending <= MaxDerived
  /\ fresh <= pending
  /\ derived' = derived - (pending - fresh)
  /\ stored' = stored + fresh
  /\ created' = created + fresh
  /\ pending' = 0
  /\ Goto("deciding")
  /\ UNCHANGED <<timeup, steps, llm, tools, backends, plan, mode, call, history>>

\* The store rejects the rendered images.
CommitFails ==
  /\ pc = "executing" /\ AssetsOf[call] > 0
  /\ stored + pending <= MaxDerived
  /\ Refund
  /\ Finish("store")
  /\ UNCHANGED <<timeup, steps, llm, tools, backends, plan, mode, call, history,
                 created, stored>>

-------------------------------------------------------------------------------
TimePasses ==
  /\ pc \notin AtRest /\ ~timeup
  /\ timeup' = TRUE
  /\ UNCHANGED <<pc, outcome, budget, plan, mode, call, history, pending,
                 created, stored>>

\* wait_for cancels the body at the deadline, or the caller's task is cancelled.
\* Only a running tool gives its reservation back: a reservation that has not
\* reached its tool stays with the budget of the run that is over.
Interrupt(o) ==
  /\ pc \notin AtRest
  /\ o = "timeout" => timeup
  /\ Finish(o)
  /\ IF pc = "executing" THEN Refund ELSE UNCHANGED <<derived, pending>>
  /\ UNCHANGED <<timeup, steps, llm, tools, backends, plan, mode, call, history,
                 created, stored>>

Advance ==
  \/ SkipCapability \/ GatherCapability \/ PlanGathered
  \/ AttemptBackend \/ CapabilityGathered \/ CapabilityFails
  \/ StartDecision \/ StartFinalCall \/ ContextOverflows
  \/ PolicyUnparsable \/ PolicyInvalid \/ PolicyFails \/ PolicyDisobeys
  \/ \E valid \in BOOLEAN : PolicyAnswers(valid)
  \/ \E a \in Calls : RepeatIsBlocked(a) \/ PolicyCalls(a)
  \/ VerifyAnswer
  \/ RefuseTool \/ StartTool \/ ToolFails \/ ToolPerceives \/ CommitFails
  \/ \E deep \in BOOLEAN : ReserveTool(deep)
  \/ \E fresh \in 0..pending : ToolRenders(fresh)

Next ==
  \/ Ask
  \/ Advance
  \/ TimePasses
  \/ \E o \in {"timeout", "cancelled"} : Interrupt(o)

\* The event loop runs the ask, each await of which is bounded by a component
\* timeout.  No fairness for the deadline: an ask must not need it.
Spec == Init /\ [][Next]_vars /\ WF_vars(Advance)

-------------------------------------------------------------------------------
TypeOK ==
  /\ pc \in AtRest \cup {"planning", "perceiving", "deciding", "policy",
                         "verifying", "acting", "starting", "executing",
                         "stopping"}
  /\ outcome \in Failures \cup {"none", "answered"}
  /\ timeup \in BOOLEAN /\ final \in BOOLEAN /\ repair \in BOOLEAN
  /\ mending \in BOOLEAN /\ sound \in BOOLEAN /\ blocked \in BOOLEAN
  /\ steps \in Nat /\ llm \in Nat /\ tools \in Nat /\ backends \in Nat
  /\ derived \in Nat /\ plan \in Nat
  /\ pending \in Nat /\ created \in Nat /\ stored \in Nat
  /\ call \in Calls \cup {NoCall}
  /\ counts \in [Calls -> Nat]
  /\ executed \in [Calls -> Nat]

\* Until the final call is made, a decision step and a policy call are left for
\* it, so no ask fails for want of either: what can_start_interactive_step
\* and the two kinds of reservation promise each other, through repairs,
\* blocked repeats and tool budget stops.
FinalCallAffordable ==
  /\ outcome \notin {"step_limit", "llm_limit"}
  /\ pc \notin AtRest /\ ~final => steps < MaxSteps /\ llm < MaxLLM

\* Every counter of RunBudget stays within its RunLimits field on every path,
\* the final call and its repair included.
WithinLimits ==
  /\ steps <= MaxSteps /\ llm <= MaxLLM /\ tools <= MaxTools
  /\ backends <= MaxBackends /\ derived <= MaxDerived

\* Reservation and store agree: what the budget counts is what the tool under
\* way may still create plus what this ask really added, on success, reuse,
\* failure and cancellation of the tool, and the store of a session that
\* serves many asks never exceeds the limit that each budget only checks for
\* its own.
AssetsReconciled ==
  /\ derived = created + pending
  /\ created <= stored /\ stored <= MaxDerived
  /\ pc \notin {"starting", "executing"} /\ outcome \notin {"timeout", "cancelled"}
       => pending = 0

\* The cycle guard: one canonical call reaches its tool at most
\* max_identical_actions times in an ask, however its calls interleave with
\* others and with blocked or refused ones.
IdenticalActionsBounded == \A a \in Calls : executed[a] <= MaxIdentical

\* What RunBudget and the cycle guard promise of one ask, on every path: no limit is passed,
\* reservations are settled, no call is repeated without end.
LimitsAreKept == TypeOK /\ WithinLimits /\ AssetsReconciled /\ IdenticalActionsBounded

\* Only answers will do: the loop has stopped, or an answer of it, or of the
\* final call, is being repaired for its evidence.
InFinalStage == pc \notin AtRest /\ (final \/ mending)

\* Policy calls the final stage may still make: one repair for the syntax of the
\* answer and one for its evidence, and none once its evidence is repaired.
RepairsLeft == IF mending THEN 0 ELSE IF repair THEN 1 ELSE 2

\* From the final call on, or from the repair of an interactive answer, there is
\* nothing but policy calls until the ask is done: no tool or backend starts,
\* no step of the repairs forgets that only an answer will do, and each
\* further call uses up one of the two repairs.
FinalStageOnlyAnswers ==
  [][InFinalStage =>
       /\ UNCHANGED <<tools, backends, counts, executed, stored>>
       /\ pc' \in {"policy", "verifying", "done"}
       /\ (final => final') /\ (mending => mending')
       /\ llm' + RepairsLeft' <= llm + RepairsLeft]_vars

\* Every ask ends, without help from its deadline: repairs, blocked repeats and
\* failing tools all use up something that is not given back.
AskEnds == pc = "planning" ~> pc = "done"

\* docs/runtime.md: "Repeated identical actions and exhausted soft limits force
\* an answer-only final call."
RepeatForcesFinalCall == blocked /\ pc = "policy" => final \/ mending

===============================================================================
