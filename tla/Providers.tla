----------------------------- MODULE Providers -----------------------------
(***************************************************************************)
(* llms/: one language-model adapter asked by several policy calls.        *)
(*                                                                         *)
(* A call is one JsonActionPolicy.next_action(): the adapter's complete()  *)
(* makes provider attempts under the retry policy and one deadline, reads  *)
(* the provider's response and validates it; the policy keeps the counters *)
(* of the response.  The OpenAI and Anthropic adapters always have the     *)
(* schema enforced and may own an SDK client, closed once; the LiteLLM     *)
(* adapter owns none and decides by one probe whether the provider         *)
(* enforces the schema.                                                    *)
(***************************************************************************)
EXTENDS Integers, FiniteSets

CONSTANTS
    Callers,          \* policy calls
    Closers,          \* tasks that close the adapter
    MaxAttempts,      \* RetryPolicy.max_attempts
    BaseDelay,        \* RetryPolicy.base_delay_s
    MaxDelay,         \* RetryPolicy.max_delay_s
    MinimumAttempt,   \* _MINIMUM_ATTEMPT_S
    Timeouts,         \* LLMRequest.timeout_s of a call; Unbounded for none
    Unbounded,        \* a time that never comes
    LastTime          \* bound on the clock

ASSUME ProvidersAssumption ==
    /\ MaxAttempts \in 1..6
    /\ {BaseDelay, MaxDelay, MinimumAttempt, LastTime, Unbounded} \subseteq Nat
    /\ 0 < BaseDelay /\ BaseDelay <= MaxDelay
    /\ Unbounded > LastTime
    /\ Timeouts \subseteq (1..LastTime) \cup {Unbounded}

VARIABLES
    adapter,   \* which adapter it is, whether it owns a client and LiteLLM's opt-in
    now,       \* the monotonic clock
    asked,      \* what became of each policy call
    strict,    \* LiteLLM's _strict_available: "unknown", "strict" or "json_only"
    degraded,  \* whether the policy holds the degradation warning
    closing,   \* the adapter's close task: none, running or done
    closer,    \* where each closing task is
    provider   \* what reached the provider: attempts of each call, whether one was unearned
               \* or late, and client closes

providerVars == <<adapter, now, asked, strict, degraded, closing, closer, provider>>

\* allow_json_only is LiteLLM's; the others have a client, their own unless told otherwise.
Adapters ==
    [kind : {"openai", "anthropic"}, owns : BOOLEAN, jsonOnly : {FALSE}]
        \cup [kind : {"litellm"}, owns : {FALSE}, jsonOnly : BOOLEAN]

(***************************************************************************)
(* What a provider can do with one attempt.                                *)
(***************************************************************************)

\* A response: whether it refuses, is cut off or failed, how many messages or choices it
\* holds, and whether they hold text, which is JSON in the envelope, and of the schema.
Responses ==
    [refuses : BOOLEAN, cutOff : BOOLEAN, failed : BOOLEAN, messages : 0..2,
     worded : BOOLEAN, wellFormed : BOOLEAN, valid : BOOLEAN]

\* An exception: the HTTP status it carries, or 0 and whether it is a transport error, and
\* the table of LiteLLM's exception classes it is found in first, if in any.
AttemptFailures == [status : {0, 401, 408, 429, 503}, transport : BOOLEAN,
                    table : {"neither", "retryable", "terminal"}]

\* Only LiteLLM's adapter asks for the class of the exception, and does so first.
TableOf(failure) == IF adapter.kind = "litellm" THEN failure.table ELSE "neither"

\* What may not be tried again: a class that is terminal, and of those that are no matter
\* of class an ordinary client error or an error that is not transport's.
Final(failure) ==
    \/ TableOf(failure) = "terminal"
    \/ TableOf(failure) = "neither" /\ failure.status \in (400..499) \ {408, 429}
    \/ TableOf(failure) = "neither" /\ failure.status = 0 /\ ~failure.transport

\* The mutant tries every answered failure again.
RetryableAnyStatus(failure) == failure.status # 0 \/ failure.transport

Retryable(failure) ==
    IF TableOf(failure) # "neither" THEN TableOf(failure) = "retryable"
    ELSE IF failure.status = 0
    THEN failure.transport
    ELSE failure.status \in {408, 429} \/ failure.status >= 500

\* parse_response, parse_message and _payload: the first thing wrong, in each one's order.
OpenAICode(r) ==
    IF r.refuses THEN "llm_refused"
    ELSE IF r.cutOff THEN "llm_output_truncated"
    ELSE IF r.failed THEN "llm_request_failed"
    ELSE IF r.messages # 1 \/ ~r.worded THEN "llm_missing_structured_output"
    ELSE "answer"

AnthropicCode(r) ==
    IF r.refuses THEN "llm_refused"
    ELSE IF r.cutOff THEN "llm_output_truncated"
    ELSE IF r.messages = 0 \/ ~r.worded THEN "llm_missing_structured_output"
    ELSE "answer"

LiteLLMCode(r) ==
    IF r.messages = 0 THEN "llm_missing_structured_output"
    ELSE IF r.cutOff THEN "llm_output_truncated"
    ELSE IF r.refuses THEN "llm_refused"
    ELSE IF ~r.worded THEN "llm_missing_structured_output"
    ELSE "answer"

ResponseCode(r) ==
    CASE adapter.kind = "openai" -> OpenAICode(r)
      [] adapter.kind = "anthropic" -> AnthropicCode(r)
      [] OTHER -> LiteLLMCode(r)

\* finalize_action_text: the text is parsed, unwrapped and validated, enforced or not.
FinalCode(r) ==
    IF ResponseCode(r) # "answer" THEN ResponseCode(r)
    ELSE IF ~r.wellFormed THEN "llm_invalid_structured_output"
    ELSE IF ~r.valid THEN "llm_schema_validation_failed"
    ELSE "answer"

(***************************************************************************)
(* Time.                                                                   *)
(***************************************************************************)

Remaining(c) == asked[c].expires - now

Expired(c) == asked[c].expires # Unbounded /\ Remaining(c) <= 0

\* Full jitter over the capped exponential delay.
JitteredDelays(attempt) ==
    LET doubled == BaseDelay * 2^(attempt - 1)
    IN  0..(IF doubled < MaxDelay THEN doubled ELSE MaxDelay)

(***************************************************************************)
(* Actions.                                                                *)
(***************************************************************************)

Idle == [phase |-> "idle", attempts |-> 0, expires |-> Unbounded, wakes |-> 0,
         enforced |-> TRUE, code |-> "none", reported |-> 0, counted |-> 0]

ProvidersInit ==
    /\ adapter \in Adapters
    /\ now = 0
    /\ asked = [c \in Callers |-> Idle]
    /\ strict = IF adapter.kind = "litellm" THEN "unknown" ELSE "strict"
    /\ degraded = FALSE
    /\ closing = "none"
    /\ closer = [t \in Closers |-> "idle"]
    /\ provider = [sent |-> [c \in Callers |-> 0], unearned |-> FALSE,
                   late |-> FALSE, closes |-> 0]

\* The call ends with this code; an error reports the attempts it was given.
Ended(c, code, attempts) ==
    asked' = [asked EXCEPT ![c] = [Idle EXCEPT !.phase = "done", !.code = code,
                                               !.reported = attempts]]

\* One more attempt goes out, unless the deadline has passed.
Send(c, from) ==
    IF Expired(c)
    THEN /\ Ended(c, "llm_timeout", asked[c].attempts)
         /\ UNCHANGED provider
    ELSE /\ asked' = [asked EXCEPT ![c] = [from EXCEPT !.phase = "sent", !.wakes = 0,
                                                     !.attempts = asked[c].attempts + 1]]
         /\ provider' = [provider EXCEPT !.sent[c] = @ + 1,
                                         !.late = @ \/ now >= from.expires]

\* The mutant asks at every call, and may be told otherwise.
ProbedEachCall ==
    IF adapter.kind = "litellm" THEN {"strict", "json_only"} ELSE {strict}

\* LiteLLM's probe is asked once; a probe that fails or does not know is a no.
Probed == IF strict = "unknown" THEN {"strict", "json_only"} ELSE {strict}

\* The mutant goes by the flag that the close task sets when it is done.
RefusesWhenClosed == closing = "done"

\* require_open(): there is a close task.
RefusesCalls == closing # "none"

\* complete(): refused once closing began, or without an enforced schema nobody opted out of.
Begin(c) ==
    /\ asked[c].phase = "idle"
    /\ UNCHANGED <<adapter, now, degraded, closing, closer>>
    /\ \/ /\ RefusesCalls
          /\ Ended(c, "llm_closed", 0)
          /\ UNCHANGED <<strict, provider>>
       \/ /\ ~RefusesCalls
          /\ \E probed \in Probed,
                timeout \in {t \in Timeouts : t = Unbounded \/ now + t <= LastTime} :
                /\ strict' = probed
                /\ IF probed = "json_only" /\ ~adapter.jsonOnly
                   THEN /\ Ended(c, "strict_schema_unavailable", 0)
                        /\ UNCHANGED provider
                   ELSE Send(c, [asked[c] EXCEPT !.enforced = (probed = "strict"),
                                     !.expires = IF timeout = Unbounded
                                                 THEN Unbounded ELSE now + timeout])

\* The provider's response is read, validated, and counted by the policy.
Answer(c) ==
    /\ asked[c].phase = "sent"
    /\ \E code \in {FinalCode(r) : r \in Responses} :
          /\ asked' = [asked EXCEPT ![c] =
                        [Idle EXCEPT !.phase = "done", !.code = code,
                                     !.enforced = asked[c].enforced,
                                     !.reported = asked[c].attempts,
                                     !.counted = IF code = "answer"
                                                 THEN asked[c].attempts ELSE 0]]
          /\ degraded' = (degraded \/ (code = "answer" /\ ~asked[c].enforced))
    /\ UNCHANGED <<adapter, now, strict, closing, closer, provider>>

\* The attempt raises: terminal, the last one, too late for another, or another after a delay.
Fail(c) ==
    /\ asked[c].phase = "sent"
    /\ UNCHANGED <<adapter, now, strict, degraded, closing, closer>>
    /\ \E failure \in AttemptFailures :
          \/ /\ ~Retryable(failure)
             /\ Ended(c, "llm_request_failed", asked[c].attempts)
             /\ UNCHANGED provider
          \/ /\ Retryable(failure) /\ asked[c].attempts >= MaxAttempts
             /\ Ended(c, "llm_retries_exhausted", asked[c].attempts)
             /\ UNCHANGED provider
          \/ /\ Retryable(failure) /\ asked[c].attempts < MaxAttempts
             /\ \E delay \in JitteredDelays(asked[c].attempts) :
                   IF asked[c].expires # Unbounded /\ delay + MinimumAttempt >= Remaining(c)
                   THEN /\ Ended(c, "llm_timeout", asked[c].attempts)
                        /\ UNCHANGED provider
                   ELSE /\ asked' = [asked EXCEPT ![c].phase = "backoff",
                                                  ![c].wakes = now + delay]
                        /\ provider' = [provider EXCEPT !.unearned = @ \/ Final(failure)]

Wake(c) ==
    /\ asked[c].phase = "backoff"
    /\ now >= asked[c].wakes
    /\ Send(c, asked[c])
    /\ UNCHANGED <<adapter, now, strict, degraded, closing, closer>>

\* The mutant looks at the deadline between attempts only.
StrikesBetween(c) ==
    /\ asked[c].phase = "backoff"
    /\ Expired(c)
    /\ Ended(c, "llm_timeout", asked[c].attempts)
    /\ UNCHANGED <<adapter, now, strict, degraded, closing, closer, provider>>

\* wait_for() gives up on the attempt when the deadline comes.
DeadlineStrikes(c) ==
    /\ asked[c].phase = "sent"
    /\ Expired(c)
    /\ Ended(c, "llm_timeout", asked[c].attempts)
    /\ UNCHANGED <<adapter, now, strict, degraded, closing, closer, provider>>

\* The session's own timeout or the caller cancels the policy call.
Cancel(c) ==
    /\ asked[c].phase \in {"sent", "backoff"}
    /\ Ended(c, "cancelled", 0)
    /\ UNCHANGED <<adapter, now, strict, degraded, closing, closer, provider>>

\* aclose(): the first closer makes the task, all wait for it.
Close(t) ==
    /\ closer[t] = "idle"
    /\ closer' = [closer EXCEPT ![t] = "waiting"]
    /\ closing' = IF closing = "none" THEN "running" ELSE closing
    /\ UNCHANGED <<adapter, now, asked, strict, degraded, provider>>

\* The close task: the client's closer may raise, the task is done all the same.
CloseOwned ==
    /\ closing = "running"
    /\ closing' = "done"
    /\ provider' = [provider EXCEPT !.closes = IF adapter.owns THEN @ + 1 ELSE @]
    /\ UNCHANGED <<adapter, now, asked, strict, degraded, closer>>

CloserReturns(t) ==
    /\ closer[t] = "waiting"
    /\ closing = "done"
    /\ closer' = [closer EXCEPT ![t] = "done"]
    /\ UNCHANGED <<adapter, now, asked, strict, degraded, closing, provider>>

Tick ==
    /\ now < LastTime
    /\ now' = now + 1
    /\ UNCHANGED <<adapter, asked, strict, degraded, closing, closer, provider>>

ProvidersNext ==
    \/ \E c \in Callers :
          Begin(c) \/ Answer(c) \/ Fail(c) \/ Wake(c) \/ DeadlineStrikes(c) \/ Cancel(c)
    \/ \E t \in Closers : Close(t) \/ CloserReturns(t)
    \/ CloseOwned
    \/ Tick

\* The clock runs, and the event loop runs a task whose timer is due.  Nobody promises that a
\* provider answers or fails, that a caller cancels or that anyone closes.
ProvidersFairness ==
    /\ WF_providerVars(Tick)
    /\ \A c \in Callers : WF_providerVars(Wake(c) \/ DeadlineStrikes(c))

ProvidersSpec == ProvidersInit /\ [][ProvidersNext]_providerVars /\ ProvidersFairness

(***************************************************************************)
(* Properties.                                                             *)
(***************************************************************************)

Given(c) == asked[c].code \notin {"none", "llm_closed", "strict_schema_unavailable", "cancelled"}

\* Every attempt that reached the provider is in the count the call reports; there are no
\* more than the policy allows; an attempt follows only failures that may pass; and none
\* goes out after the deadline (llms/_retry.py:1-10, :97-180).
RetriesAreEarned ==
    /\ ~provider.late /\ ~provider.unearned
    /\ \A c \in Callers :
          /\ provider.sent[c] <= MaxAttempts
          /\ Given(c) => asked[c].reported = provider.sent[c]

\* All answers of one adapter are enforced alike, an answer without an enforced schema was
\* opted into, and the policy says so from then on (llms/litellm.py:325-352).
EnforcementIsTold ==
    \A c, d \in Callers :
        asked[c].code = "answer" =>
            /\ asked[d].code = "answer" => asked[c].enforced = asked[d].enforced
            /\ asked[c].enforced \/ (adapter.jsonOnly /\ degraded)

\* The client is closed once, by its owner only, before any closer returns.
ClosedByOwner ==
    /\ provider.closes <= (IF adapter.owns THEN 1 ELSE 0)
    /\ \A t \in Closers : closer[t] = "done" => provider.closes = (IF adapter.owns THEN 1 ELSE 0)

\* However calls and closers race (llms/_base.py:130-152): the owned client is closed once,
\* and from the moment somebody closes, nothing is sent of a call of which nothing was
\* sent before; only calls under way go on with their attempts.
ClientClosesOnce ==
    /\ []ClosedByOwner
    /\ [][closing # "none" =>
             \A c \in Callers : provider.sent[c] = 0 => provider'.sent[c] = 0]_providerVars

\* A call with a deadline ends, whatever the provider does.
CallsEnd ==
    \A c \in Callers :
        (asked[c].phase \in {"sent", "backoff"} /\ asked[c].expires # Unbounded)
            ~> asked[c].phase = "done"

\* "Every provider attempt and reported token count is reflected in trace metadata"
\* (docs/runtime.md:37): what the policy counted is what was sent.
AttemptsAreTraced ==
    \A c \in Callers : asked[c].phase = "done" => asked[c].counted = provider.sent[c]

=============================================================================
