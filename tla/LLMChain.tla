------------------------------ MODULE LLMChain ------------------------------
(***************************************************************************)
(* One completion request through the chain of models the router builds    *)
(* (buildLLMInstanceInner in internal/gateway/router.go): each provider    *)
(* behind RetryLLM (retryllm.go) when it may be tried more than once, and  *)
(* all of them behind FallbackLLM (fallbackllm.go) when there are several. *)
(* The wrappers keep no state between requests, so one request shows all   *)
(* there is; HTTPServer runs it for its requests, one after the other.     *)
(*                                                                         *)
(* The wrappers tell errors apart by what their text contains; an error is *)
(* the set of the markers its text contains.                               *)
(***************************************************************************)
EXTENDS Naturals, FiniteSets

CONSTANTS
  Providers,     \* number of providers, the primary first
  RetryAttempts, \* provider -> its configured retry_attempts
  Error          \* the errors a provider may answer with: sets of markers

RetryMarker == {"429", "503", "529", "deadline exceeded", "rate limit"}
FallbackMarker == {"500", "503", "model not found"}

ASSUME ChainAssumption ==
  /\ Providers \in Nat \ {0}
  /\ RetryAttempts \in [1..Providers -> Nat]
  /\ \A e \in Error : e \in SUBSET (RetryMarker \cup FallbackMarker \cup {"401"})

Provider == 1..Providers
Canceled == {}  \* "context canceled" has no marker
Outcome == Error \cup {Canceled}

isRetryableError(e) == e \cap RetryMarker # {}
isFallbackableError(e) == e \cap FallbackMarker # {}

VARIABLES
  provider,  \* the provider asked now
  pc,        \* call, backoff, failed (of this provider), answered, error
  calls,     \* provider -> how often it was asked in this request
  last,      \* provider -> its last outcome, {"ok"} for an answer
  cancelled  \* the request's context

vars == <<provider, pc, calls, last, cancelled>>

Answer == {"ok"}

\* Attempts given to provider p: an unset (zero) retry_attempts means three.
maxAttempts(p) ==
  IF RetryAttempts[p] = 0 THEN 3 ELSE RetryAttempts[p]

Init ==
  /\ provider = 1
  /\ pc = "call"
  /\ calls = [p \in Provider |-> 0]
  /\ last = [p \in Provider |-> {}]
  /\ cancelled = FALSE

\* The client disconnects or the gateway stops.
Cancel ==
  /\ ~cancelled
  /\ cancelled' = TRUE
  /\ UNCHANGED <<provider, pc, calls, last>>

Called(outcome) ==
  /\ calls' = [calls EXCEPT ![provider] = @ + 1]
  /\ last' = [last EXCEPT ![provider] = outcome]
  /\ UNCHANGED <<provider, cancelled>>

CallAnswers ==
  /\ pc = "call"
  /\ pc' = "answered"
  /\ Called(Answer)

\* A failure is retried while attempts are left, if its error says so.
CallFails(e) ==
  /\ pc = "call"
  /\ e = Canceled => cancelled
  /\ pc' = IF isRetryableError(e) /\ calls[provider] + 1 < maxAttempts(provider)
           THEN "backoff" ELSE "failed"
  /\ Called(e)

\* The backoff ends by its timer or by the context.
BackoffElapses ==
  /\ pc = "backoff"
  /\ pc' = "call"
  /\ UNCHANGED <<provider, calls, last, cancelled>>

BackoffCancelled ==
  /\ pc = "backoff"
  /\ cancelled
  /\ pc' = "failed"
  /\ last' = [last EXCEPT ![provider] = Canceled]
  /\ UNCHANGED <<provider, calls, cancelled>>

\* A mutant: any failure falls back.
FallbackAlways ==
  /\ pc = "failed"
  /\ provider < Providers
  /\ provider' = provider + 1
  /\ pc' = "call"
  /\ UNCHANGED <<calls, last, cancelled>>

\* The next provider is asked if the error of this one says so.
Fallback ==
  /\ pc = "failed"
  /\ provider < Providers
  /\ isFallbackableError(last[provider])
  /\ provider' = provider + 1
  /\ pc' = "call"
  /\ UNCHANGED <<calls, last, cancelled>>

GiveUp ==
  /\ pc = "failed"
  /\ provider = Providers \/ ~isFallbackableError(last[provider])
  /\ pc' = "error"
  /\ UNCHANGED <<provider, calls, last, cancelled>>

Step ==
  \/ CallAnswers \/ (\E e \in Outcome : CallFails(e))
  \/ BackoffElapses \/ BackoffCancelled \/ Fallback \/ GiveUp

Next == Step \/ Cancel

Spec == Init /\ [][Next]_vars

-----------------------------------------------------------------------------
\* Type correctness.
TypeOK ==
  /\ provider \in Provider
  /\ pc \in {"call", "backoff", "failed", "answered", "error"}
  /\ calls \in [Provider -> Nat]
  /\ last \in [Provider -> Outcome \cup {Answer}]
  /\ cancelled \in BOOLEAN

\* A provider is asked at most as often as its attempts allow.
AttemptsBounded == \A p \in Provider : calls[p] <= maxAttempts(p)

\* A provider is only left for the next one with an error that calls for it
\* (so never when the request was cancelled in the middle), and only when its
\* own retries would not help or are used up.
LeftForReason ==
  \A p \in Provider : p < provider =>
    /\ calls[p] > 0
    /\ isFallbackableError(last[p])
    /\ isRetryableError(last[p]) => calls[p] = maxAttempts(p)

\* The providers after the current one have not been asked: no fallback is
\* paid for before it is needed, and none is skipped.
NotAskedAhead == \A p \in Provider : p > provider => calls[p] = 0

\* The outcome of the request is that of the last call: an answer is never
\* thrown away and a failure never reported as an answer; and the request
\* fails only when retrying and falling back are both exhausted.
OutcomeIsLast ==
  /\ pc = "answered" <=> last[provider] = Answer
  /\ pc = "error" =>
       /\ provider = Providers \/ ~isFallbackableError(last[provider])
       /\ isRetryableError(last[provider]) => calls[provider] = maxAttempts(provider)
\* Retrying and falling back spend no more calls than configured and leave no
\* provider or answer without a reason.
ChainInv ==
  TypeOK /\ AttemptsBounded /\ LeftForReason /\ NotAskedAhead /\ OutcomeIsLast
=============================================================================
