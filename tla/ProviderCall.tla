----------------------------- MODULE ProviderCall -----------------------------
(***************************************************************************)
(* One provider attempt of scripts/council-invoke.ts: what an HTTP exchange *)
(* leaves behind (callProvider, callProviderSse), how the attempt is        *)
(* classified (classifyAttempt) and what the last one makes of the          *)
(* invocation (runCouncilInvocation).  Contents are empty or not, a model   *)
(* is the declared one or another, a provider inside the pin or outside.    *)
(***************************************************************************)
EXTENDS Naturals, SequencesExt

CONSTANT None

\* An SSE event: the model and the provider it names, whether it carries
\* content, a finish reason, an error, or is the [DONE] mark.
Event == [model : {"declared", "other", None},
          provider : {"inside", "outside", None},
          content : BOOLEAN, finish : {"stop", "length", None},
          error : BOOLEAN, done : BOOLEAN]

\* An exchange: refused before a status, a status, a whole body of one event,
\* or a stream of events that ends, breaks off or times out.
Exchange ==
  [kind : {"refused", "status", "unreadable", "buffered", "stream"},
   status : {200, 400, 429, 500},
   events : Seq(Event), end : {"closed", "broken"},
   reasoned : BOOLEAN]     \* usage reports reasoning tokens

\* appendOpenAiSseEvent: the last model named stands; providers accumulate.
AppendEvent(state, e) ==
  IF e.done THEN [state EXCEPT !.done = TRUE]
  ELSE [model |-> IF e.model = None THEN state.model ELSE e.model,
        providers |-> IF e.provider = None THEN state.providers
                      ELSE state.providers \cup {e.provider},
        content |-> state.content \/ e.content,
        finish |-> IF e.finish = None THEN state.finish ELSE e.finish,
        error |-> state.error \/ e.error,
        done |-> state.done]

EmptyState == [model |-> None, providers |-> {}, content |-> FALSE,
               finish |-> None, error |-> FALSE, done |-> FALSE]

\* consumeOpenAiSseBuffer, over the reads the exchange consists of.
Consumed(x) == FoldLeft(AppendEvent, EmptyState, x.events)

\* FetchResult.  A stream that breaks off keeps what it saw, but no status; one
\* that ends needs [DONE] or a stop frame.
Fetched(x) ==
  LET s == IF x.kind \in {"buffered", "stream"} THEN Consumed(x) ELSE EmptyState
      r == [status |-> x.status, error |-> FALSE, model |-> s.model,
            providers |-> s.providers, content |-> s.content,
            truncated |-> s.finish = "length", reasoned |-> x.reasoned]
  IN CASE x.kind = "refused" -> [r EXCEPT !.status = None, !.error = TRUE]
       [] x.kind = "unreadable" -> [r EXCEPT !.error = TRUE]
       [] x.kind \in {"status", "buffered"} -> r
       [] x.kind = "stream" /\ x.end = "broken" ->
            [r EXCEPT !.status = None, !.error = TRUE]
       [] OTHER ->
            [r EXCEPT !.error = s.error \/ ~(s.done \/ s.finish = "stop")]

\* verifyServedProvider, for a pinned seat.
ServedProvider(providers) ==
  CASE "outside" \in providers -> "FAIL"
    [] providers = {} -> "UNVERIFIABLE"
    [] OTHER -> "PASS"

Retryable == {"transient", "rate_limited", "response_body_error",
              "empty_content", "truncated_content"}

\* The rules after the provider's: the first that applies.
ByTransport(r) ==
  CASE r.status \in {None, 500} -> "transient"
    [] r.status = 429 -> "rate_limited"
    [] r.status = 400 -> "permanent_provider_error"
    [] r.status = 200 /\ r.error -> "response_body_error"
    [] OTHER -> IF r.model = "other" THEN "model_mismatch"
                ELSE IF ~r.content THEN "empty_content"
                ELSE IF r.truncated THEN "truncated_content"
                ELSE "success"

ByProvider(r) ==
  IF r.model = "other" THEN "model_mismatch" ELSE "provider_mismatch"

\* classifyAttempt: a provider outside the pin comes before everything else.
ClassifyAttempt(r) ==
  IF ServedProvider(r.providers) = "FAIL" THEN ByProvider(r) ELSE ByTransport(r)

\* final.outcome
FinalOutcome(reason) ==
  CASE reason \in {"success", "permanent_provider_error"} -> reason
    [] reason = "model_mismatch" -> "model_mismatch_no_retry"
    [] reason = "provider_mismatch" -> "provider_mismatch_no_retry"
    [] reason \in {"empty_content", "truncated_content"} ->
         "retries_exhausted_empty_content"
    [] OTHER -> "retries_exhausted_transient"

FinalOutcomes == {"success", "permanent_provider_error",
  "model_mismatch_no_retry", "provider_mismatch_no_retry",
  "retries_exhausted_empty_content", "retries_exhausted_transient"}

\* final.verification.result
FinalVerification(reason, r) ==
  CASE reason = "model_mismatch" -> "FAIL"
    [] reason \in {"transient", "rate_limited", "response_body_error"} ->
         "UNVERIFIABLE"
    [] OTHER -> IF r.model = None THEN "UNVERIFIABLE"
                ELSE IF r.model = "declared" THEN "PASS" ELSE "FAIL"

\* final.effort_verification and provider_verification: usage is kept of a
\* success only.
FinalEvidence(reason, r) ==
  reason = "success" /\ r.reasoned /\ ServedProvider(r.providers) = "PASS"
=============================================================================
