---------------------------- MODULE PolicyProofs ----------------------------
(***************************************************************************)
(* Proofs about the ask loop, for every choice of run limits, tool calls   *)
(* and fan-out, and about the adapters that answer its policy calls, for   *)
(* every set of calls and closers, every retry policy and every timeout.   *)
(***************************************************************************)
EXTENDS AskLoop, Providers, TLAPS

(***************************************************************************)
(* AskLoop.  IInv strengthens its invariants with what each point of the   *)
(* loop knows: how many steps and policy calls are still guaranteed there, *)
(* and what the tool under way has reserved.                               *)
(***************************************************************************)

\* The final call is only made when the loop is over, what mends an answer is a
\* repair, and an outcome is only known when the ask is over.
PhaseOK ==
  /\ final => pc \in {"policy", "verifying", "done"}
  /\ mending => repair /\ pc \in {"policy", "verifying", "done"}
  /\ pc \in {"acting", "starting", "executing"} => call \in Calls
  /\ pc \notin AtRest => outcome = "none"

\* Room for the decision that has been asked for, and for the final one.
RoomOK ==
  /\ pc \notin AtRest /\ ~final => steps <= MaxSteps - 1 /\ llm <= MaxLLM - 1
  /\ pc = "policy" /\ ~mending /\ ~final => steps < MaxSteps - 1
  /\ pc = "policy" /\ ~mending /\ final => steps < MaxSteps
  /\ outcome \notin {"step_limit", "llm_limit"}
  /\ WithinLimits

\* What is reserved belongs to the tool under way.
AssetsOK ==
  /\ AssetsReconciled
  /\ pc \in {"starting", "executing"} => pending = AssetsOf[call]

\* A call that is chosen but has not reached its tool is counted already.
CountsOK ==
  \A a \in Calls :
    /\ counts[a] <= MaxIdentical
    /\ executed[a] <= counts[a]
    /\ pc \in {"acting", "starting"} /\ call = a => executed[a] < counts[a]

IInv == TypeOK /\ PhaseOK /\ RoomOK /\ AssetsOK /\ CountsOK

\* A new session has used nothing and promised nothing.
LEMMA InitOK == Init => IInv
<1> SUFFICES ASSUME Init PROVE IInv
  OBVIOUS
<1> USE LimitAssumption DEF Init, AtRest, Failures
<1>1. TypeOK
  BY DEF TypeOK
<1>2. PhaseOK
  BY DEF PhaseOK
<1>3. RoomOK
  BY DEF RoomOK, WithinLimits
<1>4. AssetsOK
  BY DEF AssetsOK, AssetsReconciled
<1>5. CountsOK
  BY DEF CountsOK
<1> QED  BY <1>1, <1>2, <1>3, <1>4, <1>5 DEF IInv

\* Every step preserves IInv, one case per action.
LEMMA NextOK == IInv /\ [Next]_vars => IInv'
<1> SUFFICES ASSUME IInv, [Next]_vars PROVE IInv'
  OBVIOUS
<1> USE LimitAssumption
    DEF IInv, TypeOK, PhaseOK, RoomOK, AssetsOK, CountsOK, AssetsReconciled,
        WithinLimits, AtRest, Failures, vars, budget, mode, history, assets,
        Finish, Goto
<1>1. CASE SkipCapability
  BY <1>1 DEF SkipCapability
<1>2. CASE GatherCapability
  BY <1>2 DEF GatherCapability
<1>3. CASE PlanGathered
  BY <1>3 DEF PlanGathered
<1>4. CASE AttemptBackend
  BY <1>4 DEF AttemptBackend
<1>5. CASE CapabilityGathered
  BY <1>5 DEF CapabilityGathered
<1>6. CASE CapabilityFails
  BY <1>6 DEF CapabilityFails
<1>7. CASE StartDecision
  <2>1. TypeOK'
    <3>1. final' \in BOOLEAN /\ repair' \in BOOLEAN
      BY <1>7, Zenon DEF StartDecision, CanStartInteractiveStep, AskPolicy, LLMCap
    <3> QED  BY <1>7, <3>1 DEF StartDecision, CanStartInteractiveStep, AskPolicy, LLMCap
  <2>2. PhaseOK'
    BY <1>7 DEF StartDecision, CanStartInteractiveStep, AskPolicy, LLMCap
  <2>3. RoomOK'
    BY <1>7 DEF StartDecision, CanStartInteractiveStep, AskPolicy, LLMCap
  <2>4. AssetsOK'
    BY <1>7 DEF StartDecision, CanStartInteractiveStep, AskPolicy, LLMCap
  <2>5. CountsOK'
    BY <1>7 DEF StartDecision, CanStartInteractiveStep, AskPolicy, LLMCap
  <2> QED  BY <2>1, <2>2, <2>3, <2>4, <2>5 DEF IInv
<1>8. CASE StartFinalCall
  <2>1. TypeOK'
    <3>1. final' \in BOOLEAN /\ repair' \in BOOLEAN
      BY <1>8, Zenon DEF StartFinalCall, CanStartInteractiveStep, AskPolicy, LLMCap
    <3> QED  BY <1>8, <3>1 DEF StartFinalCall, CanStartInteractiveStep, AskPolicy, LLMCap
  <2>2. PhaseOK'
    BY <1>8 DEF StartFinalCall, CanStartInteractiveStep, AskPolicy, LLMCap
  <2>3. RoomOK'
    BY <1>8 DEF StartFinalCall, CanStartInteractiveStep, AskPolicy, LLMCap
  <2>4. AssetsOK'
    BY <1>8 DEF StartFinalCall, CanStartInteractiveStep, AskPolicy, LLMCap
  <2>5. CountsOK'
    BY <1>8 DEF StartFinalCall, CanStartInteractiveStep, AskPolicy, LLMCap
  <2> QED  BY <2>1, <2>2, <2>3, <2>4, <2>5 DEF IInv
<1>9. CASE ContextOverflows
  BY <1>9 DEF ContextOverflows
<1>10. CASE PolicyUnparsable
  BY <1>10 DEF PolicyUnparsable, AskPolicy, LLMCap
<1>11. CASE PolicyInvalid
  BY <1>11 DEF PolicyInvalid
<1>12. CASE PolicyFails
  BY <1>12 DEF PolicyFails
<1>13. CASE \E valid \in BOOLEAN : PolicyAnswers(valid)
  BY <1>13 DEF PolicyAnswers, ReserveStep, StepCap
<1>14. CASE PolicyDisobeys
  BY <1>14 DEF PolicyDisobeys, MayUseTools, ReserveStep, StepCap
<1>15. CASE \E a \in Calls : RepeatIsBlocked(a)
  <2>1. TypeOK'
    <3>1. blocked' \in BOOLEAN
      BY <1>15, Zenon DEF RepeatIsBlocked, MayUseTools, ReserveStep, StepCap
    <3> QED  BY <1>15, <3>1 DEF RepeatIsBlocked, MayUseTools, ReserveStep, StepCap
  <2>2. PhaseOK'
    BY <1>15 DEF RepeatIsBlocked, MayUseTools, ReserveStep, StepCap
  <2>3. RoomOK'
    BY <1>15 DEF RepeatIsBlocked, MayUseTools, ReserveStep, StepCap
  <2>4. AssetsOK'
    BY <1>15 DEF RepeatIsBlocked, MayUseTools, ReserveStep, StepCap
  <2>5. CountsOK'
    BY <1>15 DEF RepeatIsBlocked, MayUseTools, ReserveStep, StepCap
  <2> QED  BY <2>1, <2>2, <2>3, <2>4, <2>5 DEF IInv
<1>16. CASE \E a \in Calls : PolicyCalls(a)
  BY <1>16 DEF PolicyCalls, MayUseTools, Exhausted, ReserveStep, StepCap
<1>17. CASE VerifyAnswer
  <2>1. TypeOK'
    <3>1. final' \in BOOLEAN /\ repair' \in BOOLEAN /\ mending' \in BOOLEAN
      BY <1>17, Zenon DEF VerifyAnswer, AskPolicy, LLMCap
    <3> QED  BY <1>17, <3>1 DEF VerifyAnswer, AskPolicy, LLMCap
  <2>2. PhaseOK'
    BY <1>17 DEF VerifyAnswer, AskPolicy, LLMCap
  <2>3. RoomOK'
    BY <1>17 DEF VerifyAnswer, AskPolicy, LLMCap
  <2>4. AssetsOK'
    BY <1>17 DEF VerifyAnswer, AskPolicy, LLMCap
  <2>5. CountsOK'
    BY <1>17 DEF VerifyAnswer, AskPolicy, LLMCap
  <2> QED  BY <2>1, <2>2, <2>3, <2>4, <2>5 DEF IInv
<1>18. CASE RefuseTool
  BY <1>18 DEF RefuseTool
<1>19. CASE \E deep \in BOOLEAN : ReserveTool(deep)
  BY <1>19 DEF ReserveTool, Overdraws
<1>20. CASE StartTool
  BY <1>20 DEF StartTool
<1>21. CASE ToolFails
  BY <1>21 DEF ToolFails, Refund
<1>22. CASE ToolPerceives
  BY <1>22 DEF ToolPerceives
<1>23. CASE \E fresh \in 0..pending : ToolRenders(fresh)
  BY <1>23 DEF ToolRenders
<1>24. CASE CommitFails
  BY <1>24 DEF CommitFails, Refund
<1>25. CASE Ask
  <2>1. TypeOK'
    BY <1>25 DEF Ask
  <2>2. PhaseOK'
    BY <1>25 DEF Ask
  <2>3. RoomOK'
    BY <1>25 DEF Ask
  <2>4. AssetsOK'
    BY <1>25 DEF Ask
  <2>5. CountsOK'
    BY <1>25 DEF Ask
  <2> QED  BY <2>1, <2>2, <2>3, <2>4, <2>5 DEF IInv
<1>26. CASE TimePasses
  BY <1>26 DEF TimePasses
<1>27. CASE \E o \in {"timeout", "cancelled"} : Interrupt(o)
  BY <1>27 DEF Interrupt, Refund
<1>28. CASE UNCHANGED vars
  BY <1>28
<1> QED
  BY <1>1, <1>2, <1>3, <1>4, <1>5, <1>6, <1>7, <1>8, <1>9, <1>10, <1>11,
     <1>12, <1>13, <1>14, <1>15, <1>16, <1>17, <1>18, <1>19, <1>20, <1>21,
     <1>22, <1>23, <1>24, <1>25, <1>26, <1>27, <1>28
     DEF Next, Advance

\* The inductive invariant holds in every reachable state.
THEOREM Inductive == Spec => []IInv
  BY InitOK, NextOK, PTL DEF Spec

\* Every variable keeps its type.
THEOREM TypeCorrect == Spec => []TypeOK
<1>1. IInv => TypeOK
  BY DEF IInv
<1> QED  BY <1>1, Inductive, PTL

\* For all limits with max_llm_calls > max_steps no ask ends for want of a step
\* or a policy call, and both are left until the final call is made.
THEOREM FinalCallIsAffordable == Spec => []FinalCallAffordable
<1>1. IInv => FinalCallAffordable
  BY LimitAssumption DEF IInv, TypeOK, RoomOK, FinalCallAffordable
<1> QED  BY <1>1, Inductive, PTL

\* No counter of an ask's budget exceeds its limit.
THEOREM LimitsHold == Spec => []WithinLimits
<1>1. IInv => WithinLimits
  BY DEF IInv, RoomOK
<1> QED  BY <1>1, Inductive, PTL

\* Budget and asset store agree, across the asks of a session.
THEOREM AssetsAreReconciled == Spec => []AssetsReconciled
<1>1. IInv => AssetsReconciled
  BY DEF IInv, AssetsOK
<1> QED  BY <1>1, Inductive, PTL

\* The cycle guard holds for every set of calls and every threshold.
THEOREM RepeatsAreBounded == Spec => []IdenticalActionsBounded
<1>1. IInv => IdenticalActionsBounded
  <2> SUFFICES ASSUME IInv, NEW a \in Calls PROVE executed[a] <= MaxIdentical
    BY DEF IdenticalActionsBounded
  <2> QED  BY LimitAssumption DEF IInv, TypeOK, CountsOK
<1> QED  BY <1>1, Inductive, PTL

\* All that RunBudget and the cycle guard promise of an ask, for all limits.
THEOREM LimitsKept == Spec => []LimitsAreKept
<1>1. TypeOK /\ WithinLimits /\ AssetsReconciled /\ IdenticalActionsBounded => LimitsAreKept
  BY DEF LimitsAreKept
<1> QED  BY <1>1, TypeCorrect, LimitsHold, AssetsAreReconciled, RepeatsAreBounded, PTL

\* From the final call, or the repair of an interactive answer, on: no tool, no
\* backend, no way back into the loop, and a call less to make with each made.
THEOREM FinalStageIsAnswerOnly == Spec => FinalStageOnlyAnswers
<1> DEFINE Step ==
             /\ UNCHANGED <<tools, backends, counts, executed, stored>>
             /\ pc' \in {"policy", "verifying", "done"}
             /\ (final => final') /\ (mending => mending')
             /\ llm' + RepairsLeft' <= llm + RepairsLeft
<1>1. IInv /\ [Next]_vars => [InFinalStage => Step]_vars
  <2> SUFFICES ASSUME IInv, Next, InFinalStage PROVE Step
    OBVIOUS
  <2>1. pc \in {"policy", "verifying"} /\ (mending => repair)
    BY DEF IInv, PhaseOK, InFinalStage, AtRest
  <2>2. llm \in Nat /\ final \in BOOLEAN /\ mending \in BOOLEAN /\ repair \in BOOLEAN
    BY DEF IInv, TypeOK
  <2>3. ~Ask
    BY <2>1 DEF Ask, AtRest
  <2>4. CASE TimePasses
    BY <2>1, <2>2, <2>4 DEF TimePasses, budget, history, mode, RepairsLeft
  <2>5. CASE \E o \in {"timeout", "cancelled"} : Interrupt(o)
    BY <2>1, <2>2, <2>5 DEF Interrupt, Refund, Finish, history, mode, RepairsLeft
  <2>6. CASE Advance
    <3>1. CASE PolicyUnparsable
      BY <2>1, <2>2, <3>1
         DEF PolicyUnparsable, AskPolicy, Finish, Goto, budget, history, assets, RepairsLeft
    <3>2. CASE VerifyAnswer
      BY <2>1, <2>2, <3>2
         DEF VerifyAnswer, AskPolicy, Finish, Goto, history, assets, RepairsLeft
    <3>3. CASE PolicyInvalid \/ PolicyFails
      BY <2>1, <2>2, <3>3
         DEF PolicyInvalid, PolicyFails, Finish, budget, mode, history, assets,
             RepairsLeft
    <3>6. CASE PolicyDisobeys
      <4>1. pc' = "done" /\ UNCHANGED <<llm, tools, backends, mode, history, assets>>
        BY <3>6 DEF PolicyDisobeys, ReserveStep, Finish
      <4> QED  BY <2>1, <2>2, <4>1 DEF mode, history, assets, RepairsLeft
    <3>4. CASE \E valid \in BOOLEAN : PolicyAnswers(valid)
      BY <2>1, <2>2, <3>4
         DEF PolicyAnswers, ReserveStep, Finish, Goto, history, assets, RepairsLeft
    <3>5. CASE \E a \in Calls : RepeatIsBlocked(a) \/ PolicyCalls(a)
      BY <3>5 DEF RepeatIsBlocked, PolicyCalls, MayUseTools, InFinalStage
    <3> QED
      BY <2>1, <2>6, <3>1, <3>2, <3>3, <3>4, <3>5, <3>6
         DEF Advance, SkipCapability, GatherCapability, PlanGathered,
             AttemptBackend, CapabilityGathered, CapabilityFails, StartDecision,
             StartFinalCall, ContextOverflows, RefuseTool, ReserveTool, StartTool,
             ToolFails, ToolPerceives, ToolRenders, CommitFails
  <2> QED  BY <2>3, <2>4, <2>5, <2>6 DEF Next
<1> QED  BY <1>1, Inductive, PTL DEF Spec, FinalStageOnlyAnswers

(***************************************************************************)
(* Providers: the attempts are earned and counted, what is not enforced is *)
(* told, and the client is closed once.                                    *)
(***************************************************************************)

Phases == {"idle", "sent", "backoff", "done"}

Codes == {"none", "answer", "llm_refused", "llm_output_truncated", "llm_request_failed",
          "llm_missing_structured_output", "llm_invalid_structured_output",
          "llm_schema_validation_failed", "llm_timeout", "llm_retries_exhausted",
          "llm_closed", "strict_schema_unavailable", "cancelled"}

CallRecords ==
    [phase : Phases, attempts : Nat, expires : Nat, wakes : Nat, enforced : BOOLEAN,
     code : Codes, reported : Nat, counted : Nat]

ProviderRecords ==
    [sent : [Callers -> Nat], unearned : BOOLEAN, late : BOOLEAN, closes : Nat]

ProvidersTypeOK ==
    /\ adapter \in Adapters
    /\ now \in 0..LastTime
    /\ asked \in [Callers -> CallRecords]
    /\ strict \in {"unknown", "strict", "json_only"}
    /\ degraded \in BOOLEAN
    /\ closing \in {"none", "running", "done"}
    /\ closer \in [Closers -> {"idle", "waiting", "done"}]
    /\ provider \in ProviderRecords

UnderWay(c) == asked[c].phase \in {"sent", "backoff"}

\* What a call counts of its attempts is what the provider saw of them, and
\* only a call with attempts left waits for another.
AttemptsAgree ==
    \A c \in Callers :
        /\ asked[c].phase = "idle" => /\ asked[c].code = "none" /\ asked[c].expires = Unbounded
                                     /\ asked[c].attempts = 0 /\ provider.sent[c] = 0
        /\ UnderWay(c) => /\ asked[c].code = "none" /\ asked[c].attempts = provider.sent[c]
                          /\ asked[c].attempts >= 1
        /\ asked[c].phase = "backoff" => asked[c].attempts < MaxAttempts

\* A call that is under way, or was answered, follows LiteLLM's one probe.
EnforcementFollowsProbe ==
    \A c \in Callers :
        UnderWay(c) \/ asked[c].code = "answer" =>
            /\ strict # "unknown"
            /\ asked[c].enforced = (strict = "strict")
            /\ asked[c].enforced \/ adapter.jsonOnly

\* The close task closes what the adapter owns, and nobody returns before it is done.
CloseIsCounted ==
    /\ provider.closes = IF closing = "done" /\ adapter.owns THEN 1 ELSE 0
    /\ \A t \in Closers : closer[t] = "done" => closing = "done"

ProvidersInv == /\ ProvidersTypeOK
        /\ AttemptsAgree
        /\ RetriesAreEarned
        /\ EnforcementFollowsProbe
        /\ EnforcementIsTold
        /\ CloseIsCounted
        /\ ClosedByOwner

-------------------------------------------------------------------------------
USE ProvidersAssumption

LEMMA Numbers ==
    /\ MaxAttempts \in Nat /\ MaxAttempts >= 1
    /\ BaseDelay \in Nat /\ MaxDelay \in Nat /\ MinimumAttempt \in Nat
    /\ LastTime \in Nat /\ Unbounded \in Nat
    /\ \A t \in Timeouts : t \in Nat /\ t >= 1
OBVIOUS

\* What a response is read and validated to is one of the codes.
LEMMA FinalCodeTyped ==
    ASSUME NEW r
    PROVE  FinalCode(r) \in Codes \ {"none", "llm_closed", "strict_schema_unavailable", "cancelled"}
<1>1. ResponseCode(r) \in {"llm_refused", "llm_output_truncated", "llm_request_failed",
                          "llm_missing_structured_output", "answer"}
  BY DEF ResponseCode, OpenAICode, AnthropicCode, LiteLLMCode
<1>2. QED
  BY <1>1 DEF FinalCode, Codes

\* A delay is a time.
LEMMA DelaysTyped ==
    ASSUME NEW attempt \in Nat, NEW delay \in JitteredDelays(attempt)
    PROVE  delay \in Nat
BY DEF JitteredDelays

\* A retry is never of a final failure (llms/_retry.py is_retryable).
LEMMA RetryablesAreNotFinal ==
    ASSUME NEW failure \in AttemptFailures, Retryable(failure)
    PROVE  ~Final(failure)
BY DEF AttemptFailures, TableOf, Retryable, Final

\* Whoever has not expired is in time.
LEMMA InTime ==
    ASSUME ProvidersTypeOK, NEW c \in Callers, ~Expired(c)
    PROVE  now < asked[c].expires
BY Numbers DEF ProvidersTypeOK, CallRecords, Expired, Remaining

\* What the record of a call becomes when the call ends.
LEMMA EndedRecord ==
    ASSUME ProvidersTypeOK, NEW c \in Callers, NEW code \in Codes, NEW attempts \in Nat,
           Ended(c, code, attempts)
    PROVE  /\ asked' \in [Callers -> CallRecords]
           /\ asked'[c].phase = "done" /\ asked'[c].code = code /\ asked'[c].reported = attempts
           /\ \A d \in Callers \ {c} : asked'[d] = asked[d]
<1>1. Idle \in CallRecords
  BY Numbers DEF Idle, CallRecords, Phases, Codes
<1>2. [Idle EXCEPT !.phase = "done", !.code = code, !.reported = attempts] \in CallRecords
  BY <1>1 DEF CallRecords, Phases
<1>3. QED
  BY <1>1, <1>2 DEF Ended, ProvidersTypeOK, CallRecords

\* What the record of a call becomes when an attempt goes out.
LEMMA SentRecord ==
    ASSUME NEW from \in CallRecords, NEW n \in Nat
    PROVE  LET sent == [from EXCEPT !.phase = "sent", !.wakes = 0, !.attempts = n + 1]
           IN  /\ sent \in CallRecords
               /\ sent.phase = "sent" /\ sent.code = from.code
               /\ sent.attempts = n + 1 /\ sent.enforced = from.enforced
<1> DEFINE sent == [from EXCEPT !.phase = "sent", !.wakes = 0, !.attempts = n + 1]
<1>1. n + 1 \in Nat /\ "sent" \in Phases
  BY DEF Phases
<1> HIDE DEF Phases
<1>2. sent \in CallRecords
  BY <1>1 DEF CallRecords
<1>3. /\ sent.phase = "sent" /\ sent.code = from.code
      /\ sent.attempts = n + 1 /\ sent.enforced = from.enforced
  BY DEF CallRecords
<1>4. QED
  BY <1>2, <1>3

LEMMA ProvidersStart == ProvidersInit => ProvidersInv
<1> SUFFICES ASSUME ProvidersInit PROVE ProvidersInv
  OBVIOUS
<1> USE DEF ProvidersInit
<1>1. Idle \in CallRecords
  BY Numbers DEF Idle, CallRecords, Phases, Codes
<1>2. ProvidersTypeOK
  <2>1. provider \in ProviderRecords
    BY DEF ProviderRecords
  <2>2. adapter \in Adapters /\ strict \in {"unknown", "strict", "json_only"}
    OBVIOUS
  <2>3. asked \in [Callers -> CallRecords] /\ closer \in [Closers -> {"idle", "waiting", "done"}]
    BY <1>1
  <2>4. degraded \in BOOLEAN /\ closing \in {"none", "running", "done"}
    BY Zenon
  <2>5. now \in 0..LastTime
    <3>1. now = 0
      OBVIOUS
    <3> HIDE DEF ProvidersInit
    <3>2. QED
      BY <3>1, Numbers
  <2> HIDE DEF ProvidersInit
  <2>6. QED
    BY <2>1, <2>2, <2>3, <2>4, <2>5 DEF ProvidersTypeOK
<1>3. AttemptsAgree /\ RetriesAreEarned /\ EnforcementFollowsProbe /\ EnforcementIsTold
  BY Numbers DEF AttemptsAgree, RetriesAreEarned, Given, EnforcementFollowsProbe, EnforcementIsTold,
                 UnderWay, Idle
<1>4. CloseIsCounted /\ ClosedByOwner
  BY DEF CloseIsCounted, ClosedByOwner, Idle
<1>5. QED
  BY <1>2, <1>3, <1>4 DEF ProvidersInv

\* A call ends without an answer, and reports what it was given.
LEMMA EndIInv ==
    ASSUME ProvidersInv, NEW c \in Callers, NEW code \in Codes \ {"none", "answer"}, NEW attempts \in Nat,
           Ended(c, code, attempts), asked[c].phase # "done",
           strict' = strict \/ (strict = "unknown" /\ strict' \in {"strict", "json_only"}),
           UNCHANGED <<adapter, now, degraded, closing, closer, provider>>,
           code = "llm_closed" => provider.sent[c] = 0,
           code \notin {"llm_closed", "strict_schema_unavailable", "cancelled"}
               => attempts = provider.sent[c]
    PROVE  ProvidersInv'
<1> USE DEF ProvidersInv
<1>0. /\ asked' \in [Callers -> CallRecords]
      /\ asked'[c].phase = "done" /\ asked'[c].code = code /\ asked'[c].reported = attempts
      /\ \A d \in Callers \ {c} : asked'[d] = asked[d]
  BY EndedRecord
<1>1. ProvidersTypeOK'
  BY <1>0 DEF ProvidersTypeOK
<1>2. AttemptsAgree'
  BY <1>0 DEF AttemptsAgree, UnderWay
<1>3. RetriesAreEarned'
  BY <1>0 DEF RetriesAreEarned, Given
<1>4. EnforcementFollowsProbe'
  BY <1>0 DEF EnforcementFollowsProbe, UnderWay
<1>5. EnforcementIsTold'
  BY <1>0 DEF EnforcementIsTold
<1>6. CloseIsCounted' /\ ClosedByOwner'
  BY <1>0 DEF CloseIsCounted, ClosedByOwner
<1>7. QED
  BY <1>1, <1>2, <1>3, <1>4, <1>5, <1>6

\* An attempt of a call goes out in time.
LEMMA SentIInv ==
    ASSUME ProvidersInv, NEW c \in Callers, NEW from \in CallRecords, Send(c, from), ~Expired(c),
           now < from.expires, asked[c].phase \in {"idle", "backoff"},
           from.code = "none",
           strict' = strict \/ (strict = "unknown" /\ strict' \in {"strict", "json_only"}),
           strict' # "unknown", from.enforced = (strict' = "strict"),
           from.enforced \/ adapter.jsonOnly,
           UNCHANGED <<adapter, now, degraded, closing, closer>>
    PROVE  ProvidersInv'
<1> USE DEF ProvidersInv
<1>0. /\ asked' \in [Callers -> CallRecords]
      /\ asked'[c].phase = "sent" /\ asked'[c].code = "none"
      /\ asked'[c].attempts = asked[c].attempts + 1 /\ asked'[c].enforced = from.enforced
      /\ \A d \in Callers \ {c} : asked'[d] = asked[d]
  <2>1. asked[c].attempts \in Nat
    BY DEF ProvidersTypeOK, CallRecords
  <2> DEFINE sent == [from EXCEPT !.phase = "sent", !.wakes = 0, !.attempts = asked[c].attempts + 1]
  <2>2. /\ sent \in CallRecords
        /\ sent.phase = "sent" /\ sent.code = from.code
        /\ sent.attempts = asked[c].attempts + 1 /\ sent.enforced = from.enforced
    BY <2>1, SentRecord
  <2>3. asked' = [asked EXCEPT ![c] = sent]
    BY DEF Send
  <2> HIDE DEF sent
  <2>4. QED
    BY <2>2, <2>3 DEF ProvidersTypeOK
<1>1. /\ provider' \in ProviderRecords
      /\ ~provider'.late /\ ~provider'.unearned /\ provider'.closes = provider.closes
      /\ provider'.sent[c] = provider.sent[c] + 1
      /\ \A d \in Callers \ {c} : provider'.sent[d] = provider.sent[d]
  <2>1. provider' = [provider EXCEPT !.sent[c] = @ + 1, !.late = @ \/ now >= from.expires]
    BY DEF Send
  <2>2. ~(now >= from.expires)
    BY Numbers DEF ProvidersTypeOK, CallRecords
  <2>3. provider \in ProviderRecords /\ ~provider.late /\ ~provider.unearned
    BY DEF ProvidersTypeOK, RetriesAreEarned
  <2>4. QED
    <3>1. [provider EXCEPT !.sent[c] = @ + 1, !.late = @ \/ now >= from.expires]
             = [provider EXCEPT !.sent[c] = @ + 1]
      BY <2>2, <2>3 DEF ProviderRecords
    <3> DEFINE sent == [provider.sent EXCEPT ![c] = @ + 1]
    <3>2. provider' = [provider EXCEPT !.sent = sent]
      BY <2>1, <3>1
    <3>3. /\ sent \in [Callers -> Nat] /\ sent[c] = provider.sent[c] + 1
          /\ \A d \in Callers \ {c} : sent[d] = provider.sent[d]
      BY <2>3 DEF ProviderRecords
    <3> HIDE DEF sent
    <3>4. QED
      BY <2>3, <3>2, <3>3 DEF ProviderRecords
<1>2. asked[c].attempts = provider.sent[c] /\ provider.sent[c] < MaxAttempts
  BY Numbers DEF AttemptsAgree, UnderWay, ProvidersTypeOK, CallRecords
<1>3. ProvidersTypeOK'
  BY <1>0, <1>1 DEF ProvidersTypeOK
<1>4. AttemptsAgree'
  <2>1. asked'[c].attempts >= 1
    BY <1>0 DEF ProvidersTypeOK, CallRecords
  <2> QED  BY <1>0, <1>1, <1>2, <2>1 DEF AttemptsAgree, UnderWay
<1>5. RetriesAreEarned'
  BY <1>0, <1>1, <1>2, Numbers DEF RetriesAreEarned, Given, ProvidersTypeOK, ProviderRecords
<1>6. EnforcementFollowsProbe'
  BY <1>0 DEF EnforcementFollowsProbe, UnderWay
<1>7. EnforcementIsTold'
  BY <1>0 DEF EnforcementIsTold
<1>8. CloseIsCounted' /\ ClosedByOwner'
  BY <1>0, <1>1 DEF CloseIsCounted, ClosedByOwner
<1>9. QED
  BY <1>3, <1>4, <1>5, <1>6, <1>7, <1>8

-------------------------------------------------------------------------------

LEMMA BeginIInv ==
    ASSUME ProvidersInv, NEW c \in Callers, Begin(c)
    PROVE  ProvidersInv'
<1> USE DEF ProvidersInv
<1>1. asked[c].code = "none" /\ asked[c].expires = Unbounded /\ provider.sent[c] = 0
      /\ asked[c].attempts = 0 /\ ~Expired(c)
  BY DEF Begin, AttemptsAgree, Expired
<1>2. CASE closing # "none" /\ Ended(c, "llm_closed", 0) /\ UNCHANGED <<strict, provider>>
  BY <1>1, <1>2, EndIInv DEF Begin, RefusesCalls, Codes
<1>3. ASSUME NEW probed \in Probed,
             NEW timeout \in {t \in Timeouts : t = Unbounded \/ now + t <= LastTime},
             strict' = probed, probed = "json_only" /\ ~adapter.jsonOnly,
             Ended(c, "strict_schema_unavailable", 0), UNCHANGED provider
      PROVE  ProvidersInv'
  <2>1. strict' = strict \/ (strict = "unknown" /\ strict' \in {"strict", "json_only"})
    BY <1>3 DEF Probed
  <2>2. QED
    BY <1>1, <1>3, <2>1, EndIInv DEF Begin, RefusesCalls, Codes
<1>4. ASSUME NEW probed \in Probed,
             NEW timeout \in {t \in Timeouts : t = Unbounded \/ now + t <= LastTime},
             strict' = probed, ~(probed = "json_only" /\ ~adapter.jsonOnly),
             Send(c, [asked[c] EXCEPT !.enforced = (probed = "strict"),
                                     !.expires = IF timeout = Unbounded
                                                 THEN Unbounded ELSE now + timeout])
      PROVE  ProvidersInv'
  <2> DEFINE from == [asked[c] EXCEPT !.enforced = (probed = "strict"),
                                     !.expires = IF timeout = Unbounded
                                                 THEN Unbounded ELSE now + timeout]
  <2>1. strict' = strict \/ (strict = "unknown" /\ strict' \in {"strict", "json_only"})
    BY <1>4 DEF Probed
  <2>2. probed \in {"strict", "json_only"}
    BY DEF Probed, ProvidersTypeOK
  <2>3. /\ from \in CallRecords /\ from.code = "none"
        /\ from.enforced = (probed = "strict") /\ now < from.expires
    <3>1. asked[c] \in CallRecords /\ now \in Nat /\ now < Unbounded
      BY Numbers DEF ProvidersTypeOK
    <3>2. now + timeout \in Nat /\ now < now + timeout
      BY <3>1, Numbers
    <3> DEFINE expires == IF timeout = Unbounded THEN Unbounded ELSE now + timeout
    <3>3. expires \in Nat /\ now < expires
      BY <3>1, <3>2, Numbers
    <3> HIDE DEF expires
    <3>4. QED
      BY <1>1, <3>1, <3>3 DEF CallRecords, expires
  <2>4. from.enforced \/ adapter.jsonOnly
    BY <1>4, <2>2, <2>3
  <2> HIDE DEF from
  <2>5. QED
    BY <1>1, <1>4, <2>1, <2>2, <2>3, <2>4, SentIInv DEF Begin, RefusesCalls, from
<1>5. QED
  BY <1>2, <1>3, <1>4 DEF Begin, RefusesCalls

LEMMA AnswerIInv ==
    ASSUME ProvidersInv, NEW c \in Callers, Answer(c)
    PROVE  ProvidersInv'
<1> USE DEF ProvidersInv
<1>1. PICK r \in Responses :
        /\ asked' = [asked EXCEPT ![c] =
                      [Idle EXCEPT !.phase = "done", !.code = FinalCode(r),
                                   !.enforced = asked[c].enforced,
                                   !.reported = asked[c].attempts,
                                   !.counted = IF FinalCode(r) = "answer"
                                               THEN asked[c].attempts ELSE 0]]
        /\ degraded' = (degraded \/ (FinalCode(r) = "answer" /\ ~asked[c].enforced))
  BY DEF Answer
<1> DEFINE code == FinalCode(r)
<1>2. code \in Codes \ {"none", "llm_closed", "strict_schema_unavailable", "cancelled"}
  BY FinalCodeTyped
<1> HIDE DEF code
<1>3. /\ asked' \in [Callers -> CallRecords]
      /\ asked'[c].phase = "done" /\ asked'[c].code = code /\ asked'[c].reported = asked[c].attempts
      /\ asked'[c].enforced = asked[c].enforced
      /\ \A d \in Callers \ {c} : asked'[d] = asked[d]
  <2>1. [Idle EXCEPT !.phase = "done", !.code = code, !.enforced = asked[c].enforced,
                     !.reported = asked[c].attempts,
                     !.counted = IF code = "answer" THEN asked[c].attempts ELSE 0] \in CallRecords
    BY <1>2, Numbers DEF ProvidersTypeOK, CallRecords, Phases, Idle
  <2>2. QED
    BY <1>1, <2>1 DEF ProvidersTypeOK, CallRecords, code, Idle
<1>4. degraded' = (degraded \/ (code = "answer" /\ ~asked[c].enforced))
  BY <1>1 DEF code
<1>5. asked[c].phase = "sent" /\ UNCHANGED <<adapter, now, strict, closing, closer, provider>>
  BY DEF Answer
<1>6. asked[c].attempts = provider.sent[c]
  BY <1>5 DEF AttemptsAgree, UnderWay
<1>7. ProvidersTypeOK'
  BY <1>3, <1>4, <1>5 DEF ProvidersTypeOK
<1>8. AttemptsAgree'
  BY <1>3, <1>5 DEF AttemptsAgree, UnderWay
<1>9. RetriesAreEarned'
  BY <1>3, <1>5, <1>6 DEF RetriesAreEarned, Given
<1>10. EnforcementFollowsProbe'
  BY <1>3, <1>5 DEF EnforcementFollowsProbe, UnderWay
<1>11. EnforcementIsTold'
  BY ZenonT(40), <1>3, <1>4, <1>5, <1>10 DEF EnforcementFollowsProbe, EnforcementIsTold
<1>12. CloseIsCounted' /\ ClosedByOwner'
  BY <1>2, <1>3, <1>5 DEF CloseIsCounted, ClosedByOwner
<1>13. QED
  BY <1>7, <1>8, <1>9, <1>10, <1>11, <1>12

\* The failed attempt was not the last and leaves time for another.
LEMMA BackoffIInv ==
    ASSUME ProvidersInv, NEW c \in Callers, asked[c].phase = "sent", NEW failure \in AttemptFailures,
           Retryable(failure), asked[c].attempts < MaxAttempts, NEW wakes \in Nat,
           asked' = [asked EXCEPT ![c].phase = "backoff", ![c].wakes = wakes],
           provider' = [provider EXCEPT !.unearned = @ \/ Final(failure)],
           UNCHANGED <<adapter, now, strict, degraded, closing, closer>>
    PROVE  ProvidersInv'
<1> USE DEF ProvidersInv
<1>1. /\ asked' \in [Callers -> CallRecords]
      /\ asked'[c].phase = "backoff" /\ asked'[c].code = asked[c].code
      /\ asked'[c].attempts = asked[c].attempts /\ asked'[c].enforced = asked[c].enforced
      /\ asked'[c].reported = asked[c].reported
      /\ \A d \in Callers \ {c} : asked'[d] = asked[d]
  BY ZenonT(40) DEF ProvidersTypeOK, CallRecords, Phases
<1>2. provider' = provider
  BY RetryablesAreNotFinal DEF ProvidersTypeOK, ProviderRecords, RetriesAreEarned
<1>3. ProvidersTypeOK'
  BY <1>1, <1>2 DEF ProvidersTypeOK
<1>4. AttemptsAgree'
  BY <1>1, <1>2 DEF AttemptsAgree, UnderWay
<1>5. RetriesAreEarned'
  BY ZenonT(40), <1>1, <1>2 DEF RetriesAreEarned, Given
<1>6. EnforcementFollowsProbe' /\ EnforcementIsTold'
  BY <1>1 DEF EnforcementFollowsProbe, EnforcementIsTold, UnderWay
<1>7. CloseIsCounted' /\ ClosedByOwner'
  BY <1>1, <1>2 DEF CloseIsCounted, ClosedByOwner
<1>8. QED
  BY <1>3, <1>4, <1>5, <1>6, <1>7

LEMMA FailIInv ==
    ASSUME ProvidersInv, NEW c \in Callers, Fail(c)
    PROVE  ProvidersInv'
<1> USE DEF ProvidersInv
<1>1. asked[c].phase = "sent" /\ UNCHANGED <<adapter, now, strict, degraded, closing, closer>>
  BY DEF Fail
<1>2. asked[c].attempts = provider.sent[c] /\ asked[c].attempts \in Nat
  BY <1>1 DEF AttemptsAgree, UnderWay, ProvidersTypeOK, CallRecords
<1>3. ASSUME NEW code \in {"llm_request_failed", "llm_retries_exhausted", "llm_timeout"},
             Ended(c, code, asked[c].attempts), UNCHANGED provider
      PROVE  ProvidersInv'
  BY <1>1, <1>2, <1>3, EndIInv DEF Codes
<1>4. ASSUME NEW failure \in AttemptFailures, Retryable(failure), asked[c].attempts < MaxAttempts,
             NEW delay \in JitteredDelays(asked[c].attempts),
             asked' = [asked EXCEPT ![c].phase = "backoff", ![c].wakes = now + delay],
             provider' = [provider EXCEPT !.unearned = @ \/ Final(failure)]
      PROVE  ProvidersInv'
  <2>1. now + delay \in Nat
    BY <1>2, DelaysTyped, Numbers DEF ProvidersTypeOK
  <2>2. QED
    BY <1>1, <1>4, <2>1, BackoffIInv
<1>5. QED
  BY <1>3, <1>4 DEF Fail

LEMMA WakeIInv ==
    ASSUME ProvidersInv, NEW c \in Callers, Wake(c)
    PROVE  ProvidersInv'
<1> USE DEF ProvidersInv
<1>1. /\ asked[c].phase = "backoff" /\ Send(c, asked[c])
      /\ UNCHANGED <<adapter, now, strict, degraded, closing, closer>>
  BY DEF Wake
<1>2. asked[c].attempts = provider.sent[c] /\ asked[c].attempts \in Nat /\ asked[c] \in CallRecords
  BY <1>1 DEF AttemptsAgree, UnderWay, ProvidersTypeOK, CallRecords
<1>3. CASE Expired(c)
  BY <1>1, <1>2, <1>3, EndIInv DEF Send, Codes
<1>4. CASE ~Expired(c)
  <2>1. now < asked[c].expires
    BY <1>4, InTime
  <2>2. /\ asked[c].code = "none" /\ strict # "unknown"
        /\ asked[c].enforced = (strict = "strict") /\ (asked[c].enforced \/ adapter.jsonOnly)
    BY <1>1 DEF AttemptsAgree, EnforcementFollowsProbe, UnderWay
  <2>3. QED
    BY <1>1, <1>2, <1>4, <2>1, <2>2, SentIInv
<1>5. QED
  BY <1>3, <1>4

LEMMA DeadlineStrikesIInv ==
    ASSUME ProvidersInv, NEW c \in Callers, DeadlineStrikes(c)
    PROVE  ProvidersInv'
<1>1. asked[c].attempts = provider.sent[c] /\ asked[c].attempts \in Nat
  BY DEF ProvidersInv, DeadlineStrikes, AttemptsAgree, UnderWay, ProvidersTypeOK, CallRecords
<1>2. QED
  BY <1>1, EndIInv DEF DeadlineStrikes, Codes

LEMMA CancelIInv ==
    ASSUME ProvidersInv, NEW c \in Callers, Cancel(c)
    PROVE  ProvidersInv'
BY EndIInv DEF Cancel, Codes

\* Closing, and the clock, leave the calls alone.
LEMMA OthersIInv ==
    ASSUME ProvidersInv,
           \/ \E t \in Closers : Close(t) \/ CloserReturns(t)
           \/ CloseOwned \/ Tick \/ UNCHANGED providerVars
    PROVE  ProvidersInv'
<1> USE DEF ProvidersInv, Close, CloserReturns, CloseOwned, Tick, providerVars
<1>1. UNCHANGED <<adapter, asked, strict, degraded>>
  OBVIOUS
<1>2. /\ provider' \in ProviderRecords /\ provider'.sent = provider.sent
      /\ provider'.late = provider.late /\ provider'.unearned = provider.unearned
  BY DEF ProvidersTypeOK, ProviderRecords
<1>3. ProvidersTypeOK'
  BY <1>1, <1>2, Numbers DEF ProvidersTypeOK
<1>4. CloseIsCounted'
  BY <1>1, <1>2 DEF CloseIsCounted, ProvidersTypeOK, ProviderRecords
<1>5. AttemptsAgree' /\ RetriesAreEarned'
  BY <1>1, <1>2 DEF AttemptsAgree, RetriesAreEarned, Given, UnderWay
<1>6. EnforcementFollowsProbe' /\ EnforcementIsTold'
  BY <1>1 DEF EnforcementFollowsProbe, EnforcementIsTold, UnderWay
<1>7. ClosedByOwner'
  BY <1>1, <1>2, <1>4 DEF ClosedByOwner, CloseIsCounted
<1>8. QED
  BY <1>3, <1>4, <1>5, <1>6, <1>7

LEMMA ProvidersStep == ProvidersInv /\ [ProvidersNext]_providerVars => ProvidersInv'
<1> SUFFICES ASSUME ProvidersInv, [ProvidersNext]_providerVars PROVE ProvidersInv'
  OBVIOUS
<1>1. ASSUME NEW c \in Callers,
             Begin(c) \/ Answer(c) \/ Fail(c) \/ Wake(c) \/ DeadlineStrikes(c) \/ Cancel(c)
      PROVE  ProvidersInv'
  BY <1>1, BeginIInv, AnswerIInv, FailIInv, WakeIInv, DeadlineStrikesIInv, CancelIInv
<1>2. QED
  BY <1>1, OthersIInv DEF ProvidersNext

\* The inductive invariant holds in every reachable state.
THEOREM ProvidersInductive == ProvidersSpec => []ProvidersInv
<1>1. QED
  BY ProvidersStart, ProvidersStep, PTL DEF ProvidersSpec

\* For every retry policy, deadline and provider: no attempt follows a final failure or
\* a passed deadline, none is above max_attempts, and all are in the count that the call
\* reports (llms/_retry.py).
THEOREM AttemptsAreEarned == ProvidersSpec => []RetriesAreEarned
<1>1. QED
  BY ProvidersInductive, PTL DEF ProvidersInv

\* One probe decides for all answers of a LiteLLM adapter, and an answer that was not
\* enforced was opted into and is told (llms/litellm.py).
THEOREM NoSilentDegradation == ProvidersSpec => []EnforcementIsTold
<1>1. QED
  BY ProvidersInductive, PTL DEF ProvidersInv

\* Once somebody closes, nothing is sent of a call of which nothing was sent.
LEMMA NothingNewIsSent ==
    ASSUME ProvidersInv, ProvidersNext, closing # "none",
           NEW d \in Callers, provider.sent[d] = 0
    PROVE  provider'.sent[d] = 0
<1> USE DEF ProvidersInv
<1>1. provider \in ProviderRecords
  BY DEF ProvidersTypeOK
<1>2. ASSUME NEW c \in Callers, Wake(c) PROVE provider'.sent[d] = 0
  <2>1. provider.sent[c] >= 1
    BY <1>2 DEF Wake, AttemptsAgree, UnderWay
  <2>2. CASE c = d
    BY <2>1, <2>2
  <2>3. CASE c # d
    BY <1>1, <1>2, <2>3 DEF Wake, Send, ProviderRecords
  <2> QED  BY <2>2, <2>3
<1>3. ASSUME NEW c \in Callers, Fail(c) PROVE provider'.sent[d] = 0
  BY <1>1, <1>3 DEF Fail, ProviderRecords
<1>4. ASSUME NEW c \in Callers, Begin(c) PROVE provider'.sent[d] = 0
  BY <1>4 DEF Begin, RefusesCalls
<1>5. CASE CloseOwned
  BY <1>1, <1>5 DEF CloseOwned, ProviderRecords
<1> QED
  BY <1>2, <1>3, <1>4, <1>5
     DEF ProvidersNext, Answer, DeadlineStrikes, Cancel, Close, CloserReturns, Tick

\* However many closers and calls race, the owned client is closed once, and no call
\* that begins after the close is sent (llms/_base.py).
THEOREM OneClientClose == ProvidersSpec => ClientClosesOnce
<1>1. ProvidersInv => ClosedByOwner
  BY DEF ProvidersInv
<1>2. ProvidersInv /\ [ProvidersNext]_providerVars =>
        [closing # "none" =>
           \A c \in Callers : provider.sent[c] = 0 => provider'.sent[c] = 0]_providerVars
  BY NothingNewIsSent
<1> QED  BY <1>1, <1>2, ProvidersInductive, PTL DEF ProvidersSpec, ClientClosesOnce

=============================================================================
