-------------------------- MODULE HTTPServerProofs --------------------------
(***************************************************************************)
(* Proofs about the model call chain, by itself and under the requests of  *)
(* the HTTP server: for any number of providers, any retry_attempts, any   *)
(* errors, and any number of requests.  The inductive invariant says of    *)
(* each provider what the wrappers may rely on: attempts are left while it *)
(* is tried, and when it is given up its last error says why.              *)
(***************************************************************************)
EXTENDS HTTPServer, SequenceTheorems, FiniteSetTheorems, TLAPS

\* While the current provider is tried, an attempt is left.
AttemptLeft == pc \in {"call", "backoff"} => calls[provider] < maxAttempts(provider)

\* A provider is given up with an error, with which retries do not help or for
\* which they are used up.
GivenUp ==
  pc \in {"failed", "error"} =>
    /\ calls[provider] > 0
    /\ last[provider] \in Outcome
    /\ isRetryableError(last[provider]) => calls[provider] = maxAttempts(provider)

\* Retrying needs a first call.
Retried == pc = "backoff" => calls[provider] > 0

\* An answer ends the request.
AnswerEnds == \A p \in Provider : last[p] = Answer <=> p = provider /\ pc = "answered"

\* The last provider's error is the request's, or one that does not fall back.
Exhausted ==
  pc = "error" => provider = Providers \/ ~isFallbackableError(last[provider])

IInv ==
  /\ TypeOK /\ AttemptsBounded /\ LeftForReason /\ NotAskedAhead
  /\ AttemptLeft /\ GivenUp /\ Retried /\ AnswerEnds /\ Exhausted

-----------------------------------------------------------------------------
\* maxAttempts gives at least one attempt (retryllm.go's default is three).
LEMMA SomeAttempt == \A p \in Provider : maxAttempts(p) \in Nat /\ maxAttempts(p) > 0
BY ChainAssumption DEF maxAttempts, Provider

\* No error is an answer, and a cancelled request neither retries nor falls back.
LEMMA ErrorKinds ==
  /\ Answer \notin Outcome
  /\ ~isRetryableError(Canceled)
  /\ ~isFallbackableError(Canceled)
<1>1. Answer \notin Error
  <2> SUFFICES ASSUME Answer \in Error PROVE FALSE
    OBVIOUS
  <2>1. "ok" \in RetryMarker \cup FallbackMarker \cup {"401"}
    BY ChainAssumption DEF Answer
  <2>2. QED
    BY <2>1 DEF RetryMarker, FallbackMarker
<1>2. QED
  BY <1>1 DEF Outcome, Answer, Canceled, isRetryableError, isFallbackableError

\* Nothing has been asked yet.
LEMMA ChainInit == Init => IInv
<1> SUFFICES ASSUME Init PROVE IInv
  OBVIOUS
<1>1. 1 \in Provider /\ \A p \in Provider : p \in Nat /\ ~(p < 1)
  BY ChainAssumption DEF Provider
<1>2. {} \in Outcome /\ {} # Answer
  BY DEF Outcome, Canceled, Answer
<1>3. TypeOK
  BY <1>1, <1>2 DEF Init, TypeOK
<1>4. AttemptsBounded /\ AttemptLeft
  BY <1>1, SomeAttempt DEF Init, AttemptsBounded, AttemptLeft
<1>5. LeftForReason /\ NotAskedAhead
  BY <1>1 DEF Init, LeftForReason, NotAskedAhead
<1>6. GivenUp /\ Retried /\ AnswerEnds /\ Exhausted
  BY <1>2 DEF Init, GivenUp, Retried, AnswerEnds, Exhausted
<1>7. QED
  BY <1>3, <1>4, <1>5, <1>6 DEF IInv

\* The context is no part of what the chain owes.
LEMMA ChainCancel ==
  ASSUME IInv, UNCHANGED <<provider, pc, calls, last>>, cancelled' \in BOOLEAN
  PROVE  IInv'
BY DEF IInv, TypeOK, AttemptsBounded, LeftForReason, NotAskedAhead, AttemptLeft,
       GivenUp, Retried, AnswerEnds, Exhausted

\* A call counts, whatever comes of it, and one was left.
LEMMA ChainCall ==
  ASSUME IInv, NEW outcome \in Outcome \cup {Answer}, pc = "call", Called(outcome),
         pc' \in {"answered", "backoff", "failed"},
         pc' = "answered" <=> outcome = Answer,
         pc' = "backoff" => calls[provider] + 1 < maxAttempts(provider),
         pc' = "failed" /\ isRetryableError(outcome)
           => ~(calls[provider] + 1 < maxAttempts(provider))
  PROVE  IInv'
<1> DEFINE n == calls[provider]
<1>1. /\ provider \in Provider /\ n \in Nat /\ n < maxAttempts(provider)
      /\ maxAttempts(provider) \in Nat
      /\ UNCHANGED <<provider, cancelled>>
      /\ calls' = [calls EXCEPT ![provider] = n + 1]
      /\ last' = [last EXCEPT ![provider] = outcome]
      /\ calls \in [Provider -> Nat] /\ last \in [Provider -> Outcome \cup {Answer}]
  BY SomeAttempt DEF IInv, TypeOK, AttemptLeft, Called
<1>2. calls'[provider] = n + 1 /\ last'[provider] = outcome
  BY <1>1
<1>3. \A p \in Provider : p # provider => calls'[p] = calls[p] /\ last'[p] = last[p]
  BY <1>1
<1>4. \A p \in Provider : p \in Nat
  BY DEF Provider
<1>5. TypeOK'
  BY <1>1 DEF IInv, TypeOK
<1>6. AttemptsBounded'
  BY <1>1, <1>2, <1>3, SomeAttempt DEF IInv, AttemptsBounded, maxAttempts
<1>7. LeftForReason'
  BY <1>1, <1>3, <1>4 DEF IInv, LeftForReason, maxAttempts
<1>8. NotAskedAhead'
  BY <1>1, <1>3, <1>4 DEF IInv, NotAskedAhead
<1>9. AttemptLeft' /\ GivenUp' /\ Retried' /\ Exhausted'
  <2>1. AttemptLeft'
    BY <1>1, <1>2 DEF AttemptLeft, maxAttempts
  <2>2. GivenUp'
    <3> SUFFICES ASSUME pc' \in {"failed", "error"}
                 PROVE  /\ calls'[provider] > 0
                        /\ outcome \in Outcome
                        /\ isRetryableError(outcome) => calls'[provider] = maxAttempts(provider)
      BY <1>1, <1>2 DEF GivenUp, maxAttempts
    <3>1. pc' = "failed" /\ outcome \in Outcome
      OBVIOUS
    <3>2. QED
      BY <1>1, <1>2, <3>1
  <2>3. Retried' /\ Exhausted'
    BY <1>1, <1>2 DEF Retried, Exhausted
  <2>4. QED
    BY <2>1, <2>2, <2>3
<1>10. AnswerEnds'
  BY <1>1, <1>2, <1>3 DEF IInv, AnswerEnds
<1>11. QED
  BY <1>5, <1>6, <1>7, <1>8, <1>9, <1>10 DEF IInv

\* A retry or the end of one leaves the counts alone.
LEMMA ChainBackoff ==
  ASSUME IInv, BackoffElapses \/ BackoffCancelled
  PROVE  IInv'
<1>1. CASE BackoffElapses
  BY <1>1 DEF BackoffElapses, IInv, TypeOK, AttemptsBounded, LeftForReason,
       NotAskedAhead, AttemptLeft, GivenUp, Retried, AnswerEnds, Exhausted
<1>2. CASE BackoffCancelled
  <2>1. /\ pc = "backoff" /\ pc' = "failed" /\ provider \in Provider
        /\ last \in [Provider -> Outcome \cup {Answer}]
        /\ last' = [last EXCEPT ![provider] = Canceled]
        /\ UNCHANGED <<provider, calls, cancelled>>
        /\ Canceled \in Outcome /\ Canceled # Answer
        /\ ~isRetryableError(Canceled)
    BY <1>2, ErrorKinds DEF BackoffCancelled, IInv, TypeOK, Outcome
  <2>2. last'[provider] = Canceled
    BY <2>1
  <2>3. \A p \in Provider : p # provider => last'[p] = last[p]
    BY <2>1
  <2>4. \A p \in Provider : p \in Nat
    BY DEF Provider
  <2>5. TypeOK' /\ AttemptsBounded' /\ NotAskedAhead' /\ AttemptLeft' /\ Retried' /\ Exhausted'
    BY <2>1 DEF IInv, TypeOK, AttemptsBounded, NotAskedAhead, AttemptLeft, Retried,
                Exhausted, maxAttempts
  <2>6. LeftForReason'
    BY <2>1, <2>3, <2>4 DEF IInv, LeftForReason, maxAttempts
  <2>7. GivenUp'
    BY <2>1, <2>2 DEF IInv, GivenUp, Retried, maxAttempts
  <2>8. AnswerEnds'
    BY <2>1, <2>2, <2>3 DEF IInv, AnswerEnds
  <2>9. QED
    BY <2>5, <2>6, <2>7, <2>8 DEF IInv
<1>3. QED
  BY <1>1, <1>2

\* The provider that failed is left with its reason, for one not asked before.
LEMMA ChainFallback ==
  ASSUME IInv, Fallback
  PROVE  IInv'
<1>1. /\ pc = "failed" /\ pc' = "call" /\ provider' = provider + 1
      /\ provider \in Provider /\ provider < Providers
      /\ isFallbackableError(last[provider])
      /\ UNCHANGED <<calls, last, cancelled>>
  BY DEF Fallback, IInv, TypeOK
<1>2. /\ provider' \in Provider /\ Providers \in Nat
      /\ \A p \in Provider : p \in Nat /\ (p < provider' <=> p < provider \/ p = provider)
      /\ \A p \in Provider : p > provider' => p > provider
  BY <1>1, ChainAssumption DEF Provider
<1>3. provider' > provider
  BY <1>1 DEF Provider
<1>4. calls[provider'] = 0
  BY <1>2, <1>3 DEF IInv, NotAskedAhead
<1>5. TypeOK' /\ AttemptsBounded'
  BY <1>1, <1>2 DEF IInv, TypeOK, AttemptsBounded, maxAttempts
<1>6. LeftForReason'
  BY <1>1, <1>2 DEF IInv, LeftForReason, GivenUp, maxAttempts
<1>7. NotAskedAhead'
  BY <1>1, <1>2 DEF IInv, NotAskedAhead
<1>8. AttemptLeft'
  BY <1>1, <1>2, <1>4, SomeAttempt DEF AttemptLeft, maxAttempts
<1>9. GivenUp' /\ Retried' /\ Exhausted'
  BY <1>1 DEF GivenUp, Retried, Exhausted
<1>10. AnswerEnds'
  BY <1>1 DEF IInv, AnswerEnds
<1>11. QED
  BY <1>5, <1>6, <1>7, <1>8, <1>9, <1>10 DEF IInv

\* The error of the last provider, or one that is the caller's fault, is final.
LEMMA ChainGiveUp ==
  ASSUME IInv, GiveUp
  PROVE  IInv'
BY DEF GiveUp, IInv, TypeOK, AttemptsBounded, LeftForReason, NotAskedAhead,
       AttemptLeft, GivenUp, Retried, AnswerEnds, Exhausted

\* Every step of the two wrappers preserves the invariant.
LEMMA ChainSteps ==
  ASSUME IInv, Step
  PROVE  IInv'
<1>1. CASE CallAnswers
  <2>1. pc = "call" /\ pc' = "answered" /\ Called(Answer)
    BY <1>1 DEF CallAnswers
  <2>2. QED
    BY <2>1, ChainCall
<1>2. ASSUME NEW e \in Outcome, CallFails(e) PROVE IInv'
  <2>1. /\ pc = "call" /\ Called(e) /\ e # Answer
        /\ pc' = IF isRetryableError(e) /\ calls[provider] + 1 < maxAttempts(provider)
                 THEN "backoff" ELSE "failed"
    BY <1>2, ErrorKinds DEF CallFails
  <2>2. QED
    BY <2>1, ChainCall
<1>3. QED
  BY <1>1, <1>2, ChainBackoff, ChainFallback, ChainGiveUp DEF Step

\* What is claimed of the chain follows.
LEMMA ChainClaims == IInv => ChainInv
<1> SUFFICES ASSUME IInv PROVE ChainInv
  OBVIOUS
<1>1. OutcomeIsLast
  BY DEF IInv, OutcomeIsLast, AnswerEnds, GivenUp, Exhausted, TypeOK
<1>2. QED
  BY <1>1 DEF IInv, ChainInv

-----------------------------------------------------------------------------
\* One request through RetryLLM and FallbackLLM: no provider is asked more often
\* than configured or left without a reason, and the outcome is that of the last
\* call.
THEOREM ChainCorrect == Spec => []ChainInv
<1>1. IInv /\ [Next]_vars => IInv'
  <2> SUFFICES ASSUME IInv, [Next]_vars PROVE IInv'
    OBVIOUS
  <2>1. CASE Step
    BY <2>1, ChainSteps
  <2>2. CASE Cancel
    BY <2>2, ChainCancel DEF Cancel
  <2>3. CASE UNCHANGED vars
    BY <2>3, ChainCancel DEF vars, IInv, TypeOK
  <2>4. QED
    BY <2>1, <2>2, <2>3 DEF Next
<1>2. QED
  BY <1>1, ChainInit, ChainClaims, PTL DEF Spec

\* A step of the server is one of the chain, leaves it alone but for the context
\* it is given, or puts it back to where it starts from.
LEMMA ServerStepsOnChain ==
  ASSUME TypeOK, [ServerNext]_<<vars, serverVars>>
  PROVE  \/ Step
         \/ UNCHANGED <<provider, pc, calls, last>> /\ cancelled' \in BOOLEAN
         \/ Init'
<1>1. CASE UNCHANGED <<vars, serverVars>>
  BY <1>1 DEF vars, TypeOK
<1>2. ASSUME NEW e \in Exchange, Send(e) \/ Disconnect(e) PROVE
        UNCHANGED <<provider, pc, calls, last>> /\ cancelled' \in BOOLEAN
  BY <1>2 DEF Send, Disconnect, Cancel, vars, TypeOK
<1>3. ASSUME NEW e \in Exchange, Handler(e) PROVE
        \/ UNCHANGED <<provider, pc, calls, last>> /\ cancelled' \in BOOLEAN
        \/ Init'
  <2>1. CASE Ask(e)
    BY <2>1 DEF Ask
  <2>2. CASE Answered(e) \/ Failed(e)
    BY <2>2 DEF Answered, Failed, Leave, Init
  <2>3. CASE \/ Authorize(e) \/ ReadOnly(e) \/ Completions(e) \/ Flush(e) \/ Charge(e)
             \/ StoreUser(e) \/ StoreAssistant(e) \/ Respond(e)
    BY <2>3 DEF Authorize, ReadOnly, Completions, Flush, Charge, StoreUser,
                StoreAssistant, Respond, vars, TypeOK
  <2>4. QED
    BY <1>3, <2>1, <2>2, <2>3 DEF Handler
<1>4. CASE Refill \/ JobClears \/ JobStores \/ Expire
  BY <1>4 DEF Refill, JobClears, JobStores, Expire, vars, TypeOK
<1>5. QED
  BY <1>1, <1>2, <1>3, <1>4 DEF ServerNext, ChainStep

\* The chain keeps its promises under the server too, whichever requests enter it
\* and whenever their clients leave: nothing of one request reaches the next.
THEOREM ServedChainCorrect == ServerSpec => []ChainInv
<1>1. ServerInit => IInv
  BY ChainInit DEF ServerInit
<1>2. IInv /\ [ServerNext]_<<vars, serverVars>> => IInv'
  <2> SUFFICES ASSUME IInv, [ServerNext]_<<vars, serverVars>> PROVE IInv'
    OBVIOUS
  <2>1. CASE Step
    BY <2>1, ChainSteps
  <2>2. CASE UNCHANGED <<provider, pc, calls, last>> /\ cancelled' \in BOOLEAN
    BY <2>2, ChainCancel
  <2>3. CASE Init'
    <3>1. (Init => IInv)'
      BY ChainInit, PTL
    <3>2. QED
      BY <2>3, <3>1
  <2>4. QED
    BY <2>1, <2>2, <2>3, ServerStepsOnChain DEF IInv
<1>3. QED
  BY <1>1, <1>2, ChainClaims, PTL DEF ServerSpec

-----------------------------------------------------------------------------
(* What a request has cost by the time it is refused.                        *)

\* A request reaches the rate limiter without a response and without effect, and
\* what comes after the limiter has been charged; a stream does not get there.
Stages ==
  \A e \in Exchange :
    /\ at[e] \in {"idle", "authorize", "dispatch", "charge"} =>
         status[e] = 0 /\ effects[e] = {}
    /\ at[e] \in {"ask", "model", "user", "assistant"} =>
         status[e] = 0 /\ "charged" \in effects[e]
    /\ at[e] \in {"charge", "ask", "model", "user", "assistant"} =>
         request[e].body # "stream"

\* A response that refuses, and what its request has done.
Refused(e) ==
  \/ status[e] \in {400, 401, 405}
  \/ /\ status[e] = 500 /\ request[e].route # "/flush"
     /\ request[e].body = "stream" \/ "charged" \notin effects[e]

Untouched == \A e \in Exchange : Refused(e) => effects[e] = {}

CostInv == ServerTypeOK /\ Stages /\ Untouched

\* No request has been sent.
LEMMA CostInit == ServerInit => CostInv
BY ServerAssumption
DEF ServerInit, CostInv, ServerTypeOK, Stages, Untouched, Refused

\* A request enters, a client leaves, the limiter is refilled, and the history is
\* summarized or expires: no response is made.
LEMMA CostClient ==
  ASSUME CostInv,
         \/ Refill \/ JobClears \/ JobStores \/ Expire
         \/ \E e \in Exchange : Send(e) \/ Disconnect(e)
  PROVE  CostInv'
<1> USE ServerAssumption DEF CostInv, ServerTypeOK, Stages, Untouched, Refused
<1>1. CASE Refill
  BY <1>1 DEF Refill, store, config
<1>2. ASSUME NEW e \in Exchange, Send(e) PROVE CostInv'
  <2> USE <1>2 DEF Send, Goto, config, store
  <2>1. ServerTypeOK'
    <3>1. /\ request' \in [Exchange -> Request \cup {None}]
          /\ at' \in [Exchange -> {"idle", "authorize", "dispatch", "charge", "ask",
                                   "model", "user", "assistant", "respond", "done"}]
      OBVIOUS
    <3>2. \A x \in Exchange : active' = x <=> at'[x] = "model"
      OBVIOUS
    <3>3. UNCHANGED <<status, active, tokens, effects, job>>
      OBVIOUS
    <3>4. QED
      BY <3>1, <3>2, <3>3
  <2>2. Stages'
    OBVIOUS
  <2>3. Untouched'
    <3>1. status[e] = 0 /\ UNCHANGED <<status, effects>>
      OBVIOUS
    <3>2. \A x \in Exchange : x # e => request'[x] = request[x]
      OBVIOUS
    <3>3. \A x \in Exchange : x = e => ~Refused(x)'
      BY <3>1
    <3>4. \A x \in Exchange : x # e => (Refused(x)' => Refused(x))
      BY <3>1, <3>2
    <3>5. QED
      BY <3>1, <3>3, <3>4
  <2>4. QED
    BY <2>1, <2>2, <2>3
<1>3. ASSUME NEW e \in Exchange, Disconnect(e) PROVE CostInv'
  BY <1>3 DEF Disconnect, serverVars
<1>4. CASE JobClears \/ JobStores \/ Expire
  BY <1>4 DEF JobClears, JobStores, Expire
<1>5. QED
  BY <1>1, <1>2, <1>3, <1>4

\* A step that makes the response of e, or moves it on, and charges, asks, stores
\* or flushes on the way.
Moves(e, label, code, done) ==
  /\ at' = [at EXCEPT ![e] = label]
  /\ status' = [status EXCEPT ![e] = code]
  /\ effects' = [effects EXCEPT ![e] = done]
  /\ UNCHANGED request

\* Such a step preserves the invariant if the label fits the response and what
\* was done, and if the chain is entered and left with it.
LEMMA CostMoves ==
  ASSUME CostInv, NEW e \in Exchange, status[e] = 0,
         NEW label \in {"dispatch", "charge", "ask", "model", "user", "assistant",
                        "respond"},
         NEW code \in {0, 200, 400, 401, 405, 500, 503},
         NEW done \in SUBSET {"charged", "asked", "stored", "flushed"},
         Moves(e, label, code, done),
         label \in {"dispatch", "charge"} => code = 0 /\ done = {},
         label \in {"ask", "model", "user", "assistant"} =>
           code = 0 /\ "charged" \in done,
         label \in {"charge", "ask", "model", "user", "assistant"} =>
           request[e].body # "stream",
         \/ code \in {400, 401, 405}
         \/ /\ code = 500 /\ request[e].route # "/flush"
            /\ request[e].body = "stream" \/ "charged" \notin done
         => done = {},
         job' \in {"none", "running", "cleared"},
         active' \in Exchange \cup {None}, tokens' \in 0..Burst,
         \A x \in Exchange : active' = x <=> at'[x] = "model"
  PROVE  CostInv'
<1>0. /\ ServerTypeOK /\ Stages /\ Untouched
      /\ at' = [at EXCEPT ![e] = label]
      /\ status' = [status EXCEPT ![e] = code]
      /\ effects' = [effects EXCEPT ![e] = done]
      /\ UNCHANGED request
  BY DEF CostInv, Moves
<1>1. ServerTypeOK'
  <2>1. at' \in [Exchange -> {"idle", "authorize", "dispatch", "charge", "ask",
                              "model", "user", "assistant", "respond", "done"}]
    BY <1>0 DEF ServerTypeOK
  <2>2. status' \in [Exchange -> {0, 200, 400, 401, 405, 500, 503}]
    BY <1>0 DEF ServerTypeOK
  <2>3. effects' \in [Exchange -> SUBSET {"charged", "asked", "stored", "flushed"}]
    BY <1>0 DEF ServerTypeOK
  <2>4. QED
    BY <1>0, <2>1, <2>2, <2>3 DEF ServerTypeOK
<1>2. /\ at'[e] = label /\ status'[e] = code /\ effects'[e] = done
      /\ request'[e] = request[e]
  BY <1>0 DEF ServerTypeOK
<1>3. \A x \in Exchange : x # e =>
        /\ at'[x] = at[x] /\ status'[x] = status[x] /\ effects'[x] = effects[x]
        /\ request'[x] = request[x]
  BY <1>0 DEF ServerTypeOK
<1>4. Stages'
  <2>1. /\ at'[e] \in {"idle", "authorize", "dispatch", "charge"} =>
             status'[e] = 0 /\ effects'[e] = {}
        /\ at'[e] \in {"ask", "model", "user", "assistant"} =>
             status'[e] = 0 /\ "charged" \in effects'[e]
        /\ at'[e] \in {"charge", "ask", "model", "user", "assistant"} =>
             request'[e].body # "stream"
    <3>1. label \notin {"idle", "authorize"}
      OBVIOUS
    <3>2. QED
      BY <1>2, <3>1
  <2>2. QED
    BY <1>0, <1>3, <2>1 DEF Stages
<1>5. Untouched'
  <2> SUFFICES ASSUME NEW x \in Exchange, Refused(x)' PROVE effects'[x] = {}
    BY DEF Untouched
  <2>1. CASE x = e
    <3>1. \/ status'[x] \in {400, 401, 405}
          \/ /\ status'[x] = 500 /\ request'[x].route # "/flush"
             /\ request'[x].body = "stream" \/ "charged" \notin effects'[x]
      BY DEF Refused
    <3>2. \/ code \in {400, 401, 405}
          \/ /\ code = 500 /\ request[e].route # "/flush"
             /\ request[e].body = "stream" \/ "charged" \notin done
      BY <1>2, <2>1, <3>1
    <3>3. done = {}
      BY <3>2
    <3>4. QED
      BY <1>2, <2>1, <3>3
  <2>2. CASE x # e
    BY <1>0, <1>3, <2>2 DEF Refused, Untouched
  <2>3. QED
    BY <2>1, <2>2
<1>6. QED
  BY <1>1, <1>4, <1>5 DEF CostInv

\* The steps before the chain.
LEMMA CostBefore ==
  ASSUME CostInv, NEW e \in Exchange,
         Authorize(e) \/ ReadOnly(e) \/ Completions(e) \/ Flush(e) \/ Charge(e)
  PROVE  CostInv'
<1>1. /\ at[e] \in {"authorize", "dispatch", "charge"}
      /\ status[e] = 0 /\ effects[e] = {}
      /\ effects \in [Exchange -> SUBSET {"charged", "asked", "stored", "flushed"}]
      /\ status \in [Exchange -> {0, 200, 400, 401, 405, 500, 503}]
      /\ at \in [Exchange -> {"idle", "authorize", "dispatch", "charge", "ask",
                              "model", "user", "assistant", "respond", "done"}]
      /\ active \in Exchange \cup {None} /\ tokens \in 0..Burst
      /\ \A x \in Exchange : active = x <=> at[x] = "model"
      /\ job \in {"none", "running", "cleared"}
  BY DEF CostInv, Stages, ServerTypeOK, Authorize, ReadOnly, Completions, Flush, Charge
<1>2. UNCHANGED <<active, job>>
  BY DEF Authorize, ReadOnly, Completions, Flush, Charge, store
<1>3. ASSUME NEW label \in {"dispatch", "charge", "ask", "respond"},
             at' = [at EXCEPT ![e] = label]
      PROVE  /\ active' \in Exchange \cup {None}
             /\ job' \in {"none", "running", "cleared"}
             /\ \A x \in Exchange : active' = x <=> at'[x] = "model"
  BY <1>1, <1>2, <1>3
<1>4. CASE Authorize(e)
  <2>1. \/ Moves(e, "dispatch", 0, {}) \/ Moves(e, "respond", 401, {})
    BY <1>1, <1>4 DEF Authorize, Moves, Goto, Reply, WriteHeader
  <2>2. tokens' \in 0..Burst
    BY <1>1, <1>4 DEF Authorize
  <2>3. QED
    BY <1>1, <1>3, <2>1, <2>2, CostMoves DEF Moves
<1>5. CASE ReadOnly(e)
  <2>0. Answers(request[e]) \subseteq {200, 401, 500, 503}
    BY DEF Answers
  <2>1. \E code \in {200, 401, 500, 503} : Moves(e, "respond", code, {})
    <3>1. PICK code \in Answers(request[e]) : Reply(e, code) /\ UNCHANGED <<request, effects>>
      BY <1>5 DEF ReadOnly
    <3>2. Moves(e, "respond", code, {})
      BY <1>1, <3>1 DEF Moves, Goto, Reply, WriteHeader
    <3>3. QED
      BY <2>0, <3>1, <3>2
  <2>2. tokens' \in 0..Burst
    BY <1>1, <1>5 DEF ReadOnly
  <2>3. PICK code \in {200, 401, 500, 503} : Moves(e, "respond", code, {})
    BY <2>1
  <2>4. at' = [at EXCEPT ![e] = "respond"]
    BY <2>3 DEF Moves
  <2>5. QED
    BY <1>1, <1>3, <2>2, <2>3, <2>4, CostMoves
<1>6. CASE Completions(e)
  <2>0. /\ Refusal(request[e]) \in {0, 400, 405, 500}
        /\ Refusal(request[e]) = 0 => request[e].body # "stream"
    <3>1. CASE ~request[e].post
      BY <3>1 DEF Refusal
    <3>2. CASE request[e].post
      <4>1. CASE request[e].body \in {"malformed", "no question"}
        BY <3>2, <4>1 DEF Refusal
      <4>2. CASE request[e].body = "stream"
        BY <3>2, <4>2 DEF Refusal
      <4>3. CASE request[e].body \notin {"malformed", "no question", "stream"}
        BY <3>2, <4>3 DEF Refusal
      <4>4. QED
        BY <4>1, <4>2, <4>3
    <3>3. QED
      BY <3>1, <3>2
  <2>1. \/ \E code \in {400, 405, 500} : Moves(e, "respond", code, {})
        \/ Moves(e, "charge", 0, {}) /\ request[e].body # "stream"
    BY <1>1, <1>6, <2>0 DEF Completions, Moves, Goto, Reply, WriteHeader
  <2>2. tokens' \in 0..Burst
    BY <1>1, <1>6 DEF Completions
  <2>3. QED
    BY <1>1, <1>3, <2>1, <2>2, CostMoves DEF Moves
<1>7. CASE Flush(e)
  <2>1. \E code \in {200, 500}, done \in {{}, {"flushed"}} :
          Moves(e, "respond", code, done)
    <3>1. CASE Did(e, "flushed")
      <4>1. PICK code \in {200, 500} : Reply(e, code)
        BY <1>7 DEF Flush
      <4>2. Moves(e, "respond", code, {"flushed"})
        BY <1>1, <1>7, <3>1, <4>1 DEF Flush, Moves, Goto, Reply, WriteHeader, Did
      <4>3. QED
        BY <4>2
    <3>2. CASE Reply(e, 500) /\ UNCHANGED effects
      <4>1. Moves(e, "respond", 500, {})
        BY <1>1, <1>7, <3>2 DEF Flush, Moves, Goto, Reply, WriteHeader
      <4>2. QED
        BY <4>1
    <3>3. QED
      BY <1>7, <3>1, <3>2 DEF Flush
  <2>2. tokens' \in 0..Burst
    BY <1>1, <1>7 DEF Flush
  <2>3. PICK code \in {200, 500}, done \in {{}, {"flushed"}} :
          Moves(e, "respond", code, done)
    BY <2>1
  <2>4. at' = [at EXCEPT ![e] = "respond"] /\ request[e].route = "/flush"
    BY <1>7, <2>3 DEF Moves, Flush
  <2>5. QED
    BY <1>1, <1>3, <2>2, <2>3, <2>4, CostMoves
<1>8. CASE Charge(e)
  <2>1. /\ request[e].body # "stream"
        /\ \/ Moves(e, "respond", 500, {})
           \/ Moves(e, "respond", 200, {"charged"})
           \/ Moves(e, "ask", 0, {"charged"})
    BY <1>1, <1>8 DEF Charge, Moves, Goto, Reply, WriteHeader, Did,
                      CostInv, Stages
  <2>2. tokens' \in 0..Burst
    BY <1>1, <1>8, ServerAssumption DEF Charge
  <2>3. QED
    BY <1>1, <1>3, <2>1, <2>2, CostMoves DEF Moves
<1>9. QED
  BY <1>4, <1>5, <1>6, <1>7, <1>8

\* The steps from the chain to the store: the request has been charged.
LEMMA CostAfter ==
  ASSUME CostInv, NEW e \in Exchange,
         Ask(e) \/ Answered(e) \/ Failed(e) \/ StoreUser(e) \/ StoreAssistant(e)
  PROVE  CostInv'
<1>1. /\ at[e] \in {"ask", "model", "user", "assistant"}
      /\ status[e] = 0 /\ "charged" \in effects[e] /\ request[e].body # "stream"
      /\ effects \in [Exchange -> SUBSET {"charged", "asked", "stored", "flushed"}]
      /\ status \in [Exchange -> {0, 200, 400, 401, 405, 500, 503}]
      /\ at \in [Exchange -> {"idle", "authorize", "dispatch", "charge", "ask",
                              "model", "user", "assistant", "respond", "done"}]
      /\ active \in Exchange \cup {None} /\ tokens \in 0..Burst
      /\ \A x \in Exchange : active = x <=> at[x] = "model"
      /\ None \notin Exchange /\ job \in {"none", "running", "cleared"}
  BY ServerAssumption
  DEF CostInv, Stages, ServerTypeOK, Ask, Answered, Failed, Leave, StoreUser,
      StoreAssistant
<1>2. tokens' \in 0..Burst /\ job' \in {"none", "running", "cleared"}
  BY <1>1 DEF Ask, Answered, Failed, StoreUser, StoreAssistant, store
<1>3. CASE Ask(e)
  <2>1. Moves(e, "model", 0, effects[e] \cup {"asked"})
    BY <1>1, <1>3 DEF Ask, Moves, Goto, Did
  <2>2. /\ active' \in Exchange \cup {None}
        /\ \A x \in Exchange : active' = x <=> at'[x] = "model"
    BY <1>1, <1>3 DEF Ask, Goto
  <2>3. QED
    BY <1>1, <1>2, <2>1, <2>2, CostMoves
<1>4. CASE Answered(e) \/ Failed(e)
  <2>1. Moves(e, "user", 0, effects[e]) \/ Moves(e, "respond", 500, effects[e])
    BY <1>1, <1>4 DEF Answered, Failed, Moves, Goto, Reply, WriteHeader
  <2>2. active = e /\ active' = None
    BY <1>4 DEF Answered, Failed, Leave
  <2>3. \A x \in Exchange : active' = x <=> at'[x] = "model"
    BY <1>1, <2>1, <2>2 DEF Moves
  <2>4. QED
    BY <1>1, <1>2, <2>1, <2>2, <2>3, CostMoves
<1>5. CASE StoreUser(e) \/ StoreAssistant(e)
  <2>1. LET done == effects[e] \cup {"stored"}
        IN Moves(e, "assistant", 0, done) \/ Moves(e, "respond", 200, done)
    BY <1>1, <1>5 DEF StoreUser, StoreAssistant, Moves, Goto, Reply, WriteHeader, Did
  <2>2. UNCHANGED active /\ at[e] # "model"
    BY <1>5 DEF StoreUser, StoreAssistant
  <2>3. \A x \in Exchange : active' = x <=> at'[x] = "model"
    BY <1>1, <2>1, <2>2 DEF Moves
  <2>4. QED
    BY <1>1, <1>2, <2>1, <2>2, <2>3, CostMoves
<1>6. QED
  BY <1>3, <1>4, <1>5

\* The response made is sent.
LEMMA CostRespond ==
  ASSUME CostInv, NEW e \in Exchange, Respond(e)
  PROVE  CostInv'
<1>1. /\ ServerTypeOK /\ Stages /\ Untouched
      /\ at[e] = "respond" /\ at' = [at EXCEPT ![e] = "done"]
      /\ UNCHANGED <<request, status, active, tokens, job, effects>>
  BY DEF CostInv, Respond, Goto, config, store
<1>2. at' \in [Exchange -> {"idle", "authorize", "dispatch", "charge", "ask",
                           "model", "user", "assistant", "respond", "done"}]
  BY <1>1 DEF ServerTypeOK
<1>3. \A x \in Exchange : active' = x <=> at'[x] = "model"
  BY <1>1 DEF ServerTypeOK
<1>4. ServerTypeOK'
  BY <1>1, <1>2, <1>3 DEF ServerTypeOK
<1>5. Stages'
  BY <1>1 DEF ServerTypeOK, Stages
<1>6. Untouched'
  BY <1>1 DEF Untouched, Refused
<1>7. QED
  BY <1>4, <1>5, <1>6 DEF CostInv

LEMMA CostStep == CostInv /\ [ServerNext]_<<vars, serverVars>> => CostInv'
<1> SUFFICES ASSUME CostInv, [ServerNext]_<<vars, serverVars>> PROVE CostInv'
  OBVIOUS
<1>1. CASE UNCHANGED serverVars
  BY <1>1 DEF serverVars, CostInv, ServerTypeOK, Stages, Untouched, Refused
<1>2. QED
  BY <1>1, CostClient, CostBefore, CostAfter, CostRespond
  DEF ServerNext, Handler, ChainStep

\* Whoever is refused, for credentials, method, body, rate or a broken store, has
\* cost no token, no model call and no entry, however requests overlap
\* (apiTokenMiddleware, dashAuthMiddleware, handleCompletions in http.go).
THEOREM RefusalsCostNothing == ServerSpec => []RefusedUntouched
<1>1. CostInv => RefusedUntouched
  BY DEF CostInv, Untouched, Refused, RefusedUntouched
<1>2. QED
  BY <1>1, CostInit, CostStep, PTL DEF ServerSpec

-----------------------------------------------------------------------------
(* What the history holds of a request, at each step of its handler: the     *)
(* entries the store took come in order and once each, and the history is    *)
(* the newest of them, the others having gone for a reason.                  *)

Role == {"user", "assistant"}
Entries == {Entry(e, role) : e \in Exchange, role \in Role} \cup {Summary}
Taken(e, role) == \E i \in DOMAIN written : written[i] = Entry(e, role)
Accounted(e, role) == Taken(e, role) \/ Entry(e, role) \in excused

\* The store took no entry twice, but for summaries, and an exchange's question
\* before its answer.
InOrder ==
  /\ written \in Seq(Entries)
  /\ \A i, j \in DOMAIN written : written[i] = written[j] => i = j \/ written[i] = Summary
  /\ \A e \in Exchange : \A i, j \in DOMAIN written :
       written[i] = Entry(e, "user") /\ written[j] = Entry(e, "assistant") => i < j

\* No entry of an exchange is taken before its handler stores it, nor after it
\* failed.
NotYetTaken ==
  \A e \in Exchange :
    /\ (~Over(e) /\ at[e] # "assistant") \/ status[e] \notin {0, 200} => ~Taken(e, "user")
    /\ ~Over(e) \/ status[e] \notin {0, 200} => ~Taken(e, "assistant")

\* The question is stored first, and an answered exchange has stored both.
AllAccounted ==
  \A e \in Exchange :
    /\ at[e] = "assistant" \/ Taken(e, "assistant") => Accounted(e, "user")
    /\ Over(e) /\ status[e] = 200 /\ "asked" \in effects[e] =>
         Accounted(e, "user") /\ Accounted(e, "assistant")

TakenInv == InOrder /\ NotYetTaken /\ AllAccounted

\* The history is what is left of what was taken, when the first d are missing.
Left(d) ==
  /\ Len(written) = d + Len(memory)
  /\ \A j \in 1..Len(memory) : memory[j] = written[d + j]
  /\ \A i \in 1..d : written[i] \in excused \/ Len(written) - i >= MaxStored

HeldInv ==
  /\ memory \in Seq(Entries) /\ written \in Seq(Entries)
  /\ \E d \in Nat : Left(d)

StoreInv == TakenInv /\ HeldInv

LEMMA EntriesDiffer ==
  /\ \A e, x \in Exchange : \A role, other \in Role :
       Entry(e, role) = Entry(x, other) <=> e = x /\ role = other
  /\ \A e \in Exchange : \A role \in Role : Entry(e, role) # Summary
BY DEF Entry, Summary, Role

LEMMA StoreInit == ServerInit => StoreInv
<1> SUFFICES ASSUME ServerInit PROVE StoreInv
  OBVIOUS
<1>1. /\ memory \in Seq(Entries) /\ written \in Seq(Entries)
      /\ Len(memory) = 0 /\ Len(written) = 0 /\ DOMAIN written = {}
  BY DEF ServerInit
<1>2. \A e \in Exchange : at[e] = "idle" /\ status[e] = 0
  BY DEF ServerInit
<1>3. InOrder /\ NotYetTaken /\ AllAccounted
  BY <1>1, <1>2 DEF InOrder, NotYetTaken, AllAccounted, Taken, Over
<1>4. Left(0)
  BY <1>1 DEF Left
<1>5. QED
  BY <1>1, <1>3, <1>4 DEF StoreInv, TakenInv, HeldInv

-----------------------------------------------------------------------------
\* While the store takes nothing, a request may move on as long as it has no answer
\* from the model to account for.
Passes(e) ==
  \/ UNCHANGED <<at[e], status[e], effects[e]>>
  \/ ~Over(e) /\ at[e] # "assistant" /\ at'[e] # "assistant"
     /\ (Over(e)' => ~(status'[e] = 200 /\ "asked" \in effects'[e]))
  \/ Over(e) /\ Over(e)' /\ UNCHANGED <<status[e], effects[e]>>

LEMMA TakenAsWas ==
  ASSUME TakenInv, UNCHANGED written, excused \subseteq excused',
         \A e \in Exchange : Passes(e)
  PROVE  TakenInv'
<1>1. InOrder'
  BY DEF TakenInv, InOrder
<1>2. \A e \in Exchange : \A role \in Role :
        Taken(e, role)' = Taken(e, role) /\ (Accounted(e, role) => Accounted(e, role)')
  BY DEF Taken, Accounted
<1>3. NotYetTaken'
  BY <1>2 DEF TakenInv, NotYetTaken, Passes, Over, Role
<1>4. AllAccounted'
  BY <1>2 DEF TakenInv, AllAccounted, NotYetTaken, Passes, Over, Role
<1>5. QED
  BY <1>1, <1>3, <1>4 DEF TakenInv

\* An entry is taken that was not taken before, a user's while its answer is not;
\* or another summary.
LEMMA TakeOne ==
  ASSUME InOrder, NEW m \in Entries, written' = Append(written, m),
         m # Summary => \A i \in DOMAIN written : written[i] # m,
         \A x \in Exchange : m = Entry(x, "user") => ~Taken(x, "assistant")
  PROVE  /\ InOrder'
         /\ \A x \in Exchange : \A other \in Role :
              Taken(x, other)' <=> Taken(x, other) \/ m = Entry(x, other)
<1>1. /\ written' \in Seq(Entries) /\ Len(written) \in Nat
      /\ DOMAIN written' = 1..(Len(written) + 1) /\ DOMAIN written = 1..Len(written)
      /\ \A i \in 1..Len(written) : written'[i] = written[i]
      /\ written'[Len(written) + 1] = m
  BY AppendProperties DEF InOrder
<1>2. /\ DOMAIN written' = DOMAIN written \cup {Len(written) + 1}
      /\ \A i \in DOMAIN written : i \in Nat /\ i < Len(written) + 1
  BY <1>1
<1>3. \A i \in DOMAIN written : written'[i] = written[i]
  BY <1>1
<1>4. \A x \in Exchange : \A other \in Role :
        Taken(x, other)' <=> Taken(x, other) \/ m = Entry(x, other)
  <2> SUFFICES ASSUME NEW x \in Exchange, NEW other \in Role
               PROVE  Taken(x, other)' <=> Taken(x, other) \/ m = Entry(x, other)
    OBVIOUS
  <2>1. Taken(x, other)' <=> Taken(x, other) \/ written'[Len(written) + 1] = Entry(x, other)
    BY <1>2, <1>3 DEF Taken
  <2>2. QED
    BY <1>1, <2>1
<1>5. \A i, j \in DOMAIN written' :
        written'[i] = written'[j] => i = j \/ written'[i] = Summary
  <2> SUFFICES ASSUME NEW i \in DOMAIN written', NEW j \in DOMAIN written',
                      written'[i] = written'[j], written'[i] # Summary
               PROVE  i = j
    OBVIOUS
  <2>1. CASE i \in DOMAIN written /\ j \in DOMAIN written
    BY <1>3, <2>1 DEF InOrder
  <2>2. CASE i = Len(written) + 1 \/ j = Len(written) + 1
    BY <1>1, <1>2, <1>3, <2>2
  <2>3. QED
    BY <1>2, <2>1, <2>2
<1>6. ASSUME NEW x \in Exchange, NEW i \in DOMAIN written', NEW j \in DOMAIN written',
             written'[i] = Entry(x, "user"), written'[j] = Entry(x, "assistant")
      PROVE  i < j
  <2>1. Entry(x, "user") # Entry(x, "assistant")
    BY EntriesDiffer DEF Role
  <2>2. CASE i \in DOMAIN written /\ j \in DOMAIN written
    BY <1>3, <1>6, <2>2 DEF InOrder
  <2>3. CASE i = Len(written) + 1
    <3>1. m = Entry(x, "user") /\ j \in DOMAIN written
      BY <1>1, <1>2, <1>6, <2>1, <2>3
    <3>2. Taken(x, "assistant")
      BY <1>3, <1>6, <3>1 DEF Taken
    <3>3. QED
      BY <3>1, <3>2
  <2>4. CASE i \in DOMAIN written /\ j = Len(written) + 1
    BY <1>2, <2>4
  <2>5. QED
    BY <1>2, <2>2, <2>3, <2>4
<1>7. QED
  BY <1>1, <1>4, <1>5, <1>6 DEF InOrder

\* The handler of e stores an entry, or the store refuses it.
LEMMA TakenStores ==
  ASSUME TakenInv, CostInv, NEW e \in Exchange, StoreUser(e) \/ StoreAssistant(e)
  PROVE  TakenInv'
<1> DEFINE role == at[e]
           m == Entry(e, role)
<1>0. /\ status[e] = 0 /\ e \in DOMAIN at /\ e \in DOMAIN status
      /\ \A x \in Exchange : x \in DOMAIN at /\ x \in DOMAIN effects
  BY DEF CostInv, ServerTypeOK, Stages, StoreUser, StoreAssistant
<1>1. /\ role \in Role
      /\ role = "user" => at'[e] = "assistant" /\ status'[e] = 0
      /\ role = "assistant" => at'[e] = "respond" /\ status'[e] = 200
      /\ AddMessage(m)
      /\ \A x \in Exchange : x # e =>
           at'[x] = at[x] /\ status'[x] = status[x] /\ effects'[x] = effects[x]
  BY <1>0 DEF StoreUser, StoreAssistant, Did, Reply, WriteHeader, Goto,
              CostInv, ServerTypeOK, Role
<1> HIDE DEF role
<1>2. ~Taken(e, role) /\ ~Taken(e, "assistant") /\ (role = "assistant" => Accounted(e, "user"))
  BY <1>0, <1>1 DEF TakenInv, NotYetTaken, AllAccounted, Over, role, Role
<1>3. /\ InOrder'
      /\ \A x \in Exchange : \A other \in Role :
           /\ Taken(x, other)' => Taken(x, other) \/ (x = e /\ other = role)
           /\ Accounted(x, other) \/ (x = e /\ other = role) => Accounted(x, other)'
  <2>1. CASE written' = Append(written, m) /\ excused \subseteq excused'
    <3>1. m \in Entries /\ \A i \in DOMAIN written : written[i] # m
      BY <1>1, <1>2 DEF Entries, Taken
    <3>2. \A x \in Exchange : \A other \in Role : m = Entry(x, other) <=> x = e /\ other = role
      BY <1>1, EntriesDiffer
    <3>3. \A x \in Exchange : m = Entry(x, "user") => ~Taken(x, "assistant")
      BY <1>2, <3>2 DEF Role
    <3> HIDE DEF m
    <3>4. /\ InOrder'
          /\ \A x \in Exchange : \A other \in Role :
               Taken(x, other)' <=> Taken(x, other) \/ m = Entry(x, other)
      BY <2>1, <3>1, <3>3, TakeOne DEF TakenInv
    <3>5. QED
      BY <2>1, <3>2, <3>4 DEF Accounted
  <2>2. CASE excused' = excused \cup {m} /\ UNCHANGED written
    BY <1>1, <2>2 DEF TakenInv, InOrder, Taken, Accounted
  <2>3. QED
    BY <1>1, <2>1, <2>2 DEF AddMessage
<1>4. NotYetTaken'
  BY <1>0, <1>1, <1>2, <1>3 DEF TakenInv, NotYetTaken, Over, Role
<1>5. AllAccounted'
  BY <1>0, <1>1, <1>2, <1>3 DEF TakenInv, AllAccounted, Over, Role
<1>6. QED
  BY <1>3, <1>4, <1>5 DEF TakenInv

\* The summarizer's job stores a summary, which is no exchange's entry.
LEMMA TakenSummary ==
  ASSUME TakenInv, UNCHANGED <<at, status, effects>>, AddMessage(Summary)
  PROVE  TakenInv'
<1>1. CASE written' = Append(written, Summary) /\ excused \subseteq excused'
  <2>1. \A x \in Exchange : \A other \in Role : Summary # Entry(x, other)
    BY EntriesDiffer
  <2>2. /\ InOrder'
        /\ \A x \in Exchange : \A other \in Role :
             Taken(x, other)' <=> Taken(x, other) \/ Summary = Entry(x, other)
    BY <1>1, <2>1, TakeOne DEF TakenInv, Entries, Role
  <2>3. \A x \in Exchange : \A other \in Role :
          /\ Taken(x, other)' <=> Taken(x, other)
          /\ Accounted(x, other) => Accounted(x, other)'
    BY <1>1, <2>1, <2>2 DEF Accounted
  <2>4. NotYetTaken' /\ AllAccounted'
    BY <2>3 DEF TakenInv, NotYetTaken, AllAccounted, Over, Role
  <2>5. QED
    BY <2>2, <2>4 DEF TakenInv
<1>2. CASE UNCHANGED written /\ excused \subseteq excused'
  BY <1>2, TakenAsWas DEF Passes
<1>3. QED
  BY <1>1, <1>2 DEF AddMessage

-----------------------------------------------------------------------------
\* An entry added, and perhaps the oldest pushed out: of h, the first k.
LEMMA NewestLeft ==
  ASSUME NEW h \in Seq(Entries), NEW r \in {h, Newest(h)}
  PROVE  /\ r \in Seq(Entries)
         /\ \E k \in Nat :
              /\ Len(h) = k + Len(r)
              /\ \A j \in 1..Len(r) : r[j] = h[k + j]
              /\ k = 0 \/ Len(r) = MaxStored
<1>0. MaxStored \in Nat /\ MaxStored > 0 /\ Len(h) \in Nat
  BY ServerAssumption
<1>1. CASE r = h
  <2>1. /\ Len(h) = 0 + Len(r)
        /\ \A j \in 1..Len(r) : r[j] = h[0 + j]
    BY <1>0, <1>1
  <2>2. QED
    BY <1>1, <2>1
<1>2. CASE r = Newest(h) /\ Len(h) > MaxStored
  <2> DEFINE k == Len(h) - MaxStored
  <2>1. /\ k \in Nat /\ k + 1 \in 1..(Len(h) + 1) /\ r = SubSeq(h, k + 1, Len(h))
    BY <1>0, <1>2 DEF Newest
  <2>2. /\ r \in Seq(Entries) /\ Len(r) = MaxStored
        /\ \A j \in 1..Len(r) : r[j] = h[k + j]
    BY <1>0, <2>1, SubSeqProperties
  <2>3. Len(h) = k + Len(r)
    BY <1>0, <2>2
  <2>4. QED
    BY <2>1, <2>2, <2>3
<1>3. CASE r = Newest(h) /\ ~(Len(h) > MaxStored)
  <2>1. r = SubSeq(h, 1, Len(h))
    BY <1>3 DEF Newest
  <2>2. /\ r \in Seq(Entries) /\ Len(r) = Len(h)
        /\ \A j \in 1..Len(r) : r[j] = h[0 + j]
    BY <1>0, <2>1, SubSeqProperties
  <2>3. Len(h) = 0 + Len(r)
    BY <1>0, <2>2
  <2>4. QED
    BY <2>2, <2>3
<1>4. QED
  BY <1>1, <1>2, <1>3

LEMMA HeldAdds ==
  ASSUME HeldInv, NEW m \in Entries, AddMessage(m)
  PROVE  HeldInv'
<1>0. MaxStored \in Nat /\ MaxStored > 0
  BY ServerAssumption
<1>1. CASE UNCHANGED <<memory, written>> /\ excused \subseteq excused'
  BY <1>1 DEF HeldInv, Left
<1>2. CASE /\ written' = Append(written, m) /\ excused \subseteq excused'
           /\ memory' \in {Append(memory, m), Newest(Append(memory, m))}
  <2> DEFINE all == Append(memory, m)
  <2>1. PICK d \in Nat : Left(d)
    BY DEF HeldInv
  <2>2. /\ all \in Seq(Entries) /\ Len(memory) \in Nat /\ Len(all) = Len(memory) + 1
        /\ \A j \in 1..Len(memory) : all[j] = memory[j]
        /\ all[Len(memory) + 1] = m
    BY AppendProperties DEF HeldInv
  <2>3. /\ written' \in Seq(Entries) /\ Len(written) \in Nat
        /\ Len(written') = Len(written) + 1
        /\ \A i \in 1..Len(written) : written'[i] = written[i]
        /\ written'[Len(written) + 1] = m
    BY <1>2, AppendProperties DEF HeldInv
  <2>4. Len(written') = d + Len(all) /\ \A j \in 1..Len(all) : all[j] = written'[d + j]
    <3>1. Len(written) = d + Len(memory)
          /\ \A j \in 1..Len(memory) : memory[j] = written[d + j]
      BY <2>1 DEF Left
    <3>2. \A j \in 1..Len(memory) : all[j] = written'[d + j]
      BY <2>2, <2>3, <3>1
    <3>3. all[Len(memory) + 1] = written'[d + (Len(memory) + 1)]
      BY <2>2, <2>3, <3>1
    <3>4. \A j \in 1..Len(all) : j \in 1..Len(memory) \/ j = Len(memory) + 1
      BY <2>2
    <3>5. Len(written') = d + Len(all)
      BY <2>2, <2>3, <3>1
    <3> HIDE DEF all
    <3>6. QED
      BY <3>2, <3>3, <3>4, <3>5
  <2> HIDE DEF all
  <2>5. /\ memory' \in Seq(Entries)
        /\ \E k \in Nat :
             /\ Len(all) = k + Len(memory')
             /\ \A j \in 1..Len(memory') : memory'[j] = all[k + j]
             /\ k = 0 \/ Len(memory') = MaxStored
    <3>1. memory' \in {all, Newest(all)}
      BY <1>2 DEF all
    <3>2. QED
      BY <2>2, <3>1, NewestLeft
  <2>6. PICK k \in Nat : /\ Len(all) = k + Len(memory')
                         /\ \A j \in 1..Len(memory') : memory'[j] = all[k + j]
                         /\ k = 0 \/ Len(memory') = MaxStored
    BY <2>5
  <2>7. Len(memory') \in Nat
    BY <2>5
  <2>8. Len(written') = (d + k) + Len(memory')
    BY <2>4, <2>6, <2>7
  <2>9. ASSUME NEW j \in 1..Len(memory') PROVE memory'[j] = written'[(d + k) + j]
    <3>1. k + j \in 1..Len(all) /\ d + (k + j) = (d + k) + j
      BY <2>6, <2>7
    <3>2. QED
      BY <2>4, <2>6, <3>1
  <2>10. ASSUME NEW i \in 1..(d + k)
         PROVE  written'[i] \in excused' \/ Len(written') - i >= MaxStored
    <3>1. CASE k = 0
      <4>1. i \in 1..d /\ i \in 1..Len(written)
        BY <2>1, <2>2, <3>1 DEF Left
      <4>2. written[i] \in excused \/ Len(written) - i >= MaxStored
        BY <2>1, <4>1 DEF Left
      <4>3. QED
        BY <1>0, <1>2, <2>3, <4>1, <4>2
    <3>2. CASE Len(memory') = MaxStored
      BY <1>0, <2>8, <3>2
    <3>3. QED
      BY <2>6, <3>1, <3>2
  <2>11. d + k \in Nat /\ Left(d + k)'
    BY <2>8, <2>9, <2>10 DEF Left
  <2>12. QED
    BY <2>3, <2>5, <2>11 DEF HeldInv
<1>3. QED
  BY <1>1, <1>2 DEF AddMessage

\* Nothing is left, and everything has gone.
LEMMA HeldClears ==
  ASSUME HeldInv, ClearHistory
  PROVE  HeldInv'
<1>1. PICK d \in Nat : Left(d)
  BY DEF HeldInv
<1>2. /\ memory' = << >> /\ UNCHANGED written
      /\ excused' = excused \cup {memory[i] : i \in DOMAIN memory}
      /\ memory \in Seq(Entries) /\ Len(memory) \in Nat
      /\ DOMAIN memory = 1..Len(memory)
      /\ Len(written) = d + Len(memory)
  <2>1. memory \in Seq(Entries)
    BY DEF HeldInv
  <2>2. Len(memory) \in Nat /\ DOMAIN memory = 1..Len(memory)
    BY <2>1, LenProperties
  <2>3. Len(written) = d + Len(memory)
    BY <1>1 DEF Left
  <2>4. QED
    BY <2>1, <2>2, <2>3 DEF ClearHistory
<1>3. ASSUME NEW i \in 1..Len(written)
      PROVE  written'[i] \in excused' \/ Len(written') - i >= MaxStored
  <2>1. CASE i \in 1..d
    BY <1>1, <1>2, <2>1 DEF Left
  <2>2. CASE i \notin 1..d
    <3>1. i - d \in DOMAIN memory /\ d + (i - d) = i
      BY <1>2, <2>2
    <3>2. memory[i - d] = written[i]
      BY <1>1, <1>2, <3>1 DEF Left
    <3>3. QED
      BY <1>2, <3>1, <3>2
  <2>3. QED
    BY <2>1, <2>2
<1>4. memory' \in Seq(Entries) /\ Len(memory') = 0 /\ Len(written) \in Nat
  BY <1>2
<1>5. Left(Len(written))'
  BY <1>2, <1>3, <1>4 DEF Left
<1>6. QED
  BY <1>2, <1>4, <1>5 DEF HeldInv

-----------------------------------------------------------------------------
\* A flush, a summary and the time to live take the history away.
LEMMA StoreClears ==
  ASSUME StoreInv, ClearHistory, \A e \in Exchange : Passes(e)
  PROVE  StoreInv'
<1>1. UNCHANGED written /\ excused \subseteq excused'
  BY DEF ClearHistory
<1>2. QED
  BY <1>1, TakenAsWas, HeldClears DEF StoreInv

\* The store is not called, or a clear fails.
LEMMA StoreAsWas ==
  ASSUME StoreInv, UNCHANGED <<memory, written, excused>>, \A e \in Exchange : Passes(e)
  PROVE  StoreInv'
<1>1. HeldInv'
  BY DEF StoreInv, HeldInv, Left
<1>2. QED
  BY <1>1, TakenAsWas DEF StoreInv

LEMMA StoreOne ==
  ASSUME StoreInv, CostInv, NEW e \in Exchange, StoreUser(e) \/ StoreAssistant(e)
  PROVE  StoreInv'
<1>1. \E role \in Role : AddMessage(Entry(e, role)) /\ Entry(e, role) \in Entries
  BY DEF StoreUser, StoreAssistant, Role, Entries
<1>2. QED
  BY <1>1, TakenStores, HeldAdds DEF StoreInv

LEMMA StoreFlush ==
  ASSUME StoreInv, CostInv, NEW e \in Exchange, Flush(e)
  PROVE  StoreInv'
<1>1. \A x \in Exchange : Passes(x)
  BY DEF CostInv, ServerTypeOK, Stages, Flush, Reply, WriteHeader, Goto, Did, Passes, Over
<1>2. CASE UNCHANGED store
  BY <1>1, <1>2, StoreAsWas DEF store
<1>3. QED
  BY <1>1, <1>2, StoreClears DEF Flush

\* The job clears the history, stores its summary, or gives up.
LEMMA StoreJob ==
  ASSUME StoreInv, JobClears \/ JobStores \/ Expire
  PROVE  StoreInv'
<1>1. UNCHANGED <<at, status, effects>> /\ \A e \in Exchange : Passes(e)
  BY DEF JobClears, JobStores, Expire, Passes
<1>2. CASE JobStores
  <2>1. AddMessage(Summary) /\ Summary \in Entries
    BY <1>2 DEF JobStores, Entries
  <2>2. QED
    BY <1>1, <2>1, TakenSummary, HeldAdds DEF StoreInv
<1>3. CASE JobClears \/ Expire
  BY <1>1, <1>3, StoreClears, StoreAsWas DEF JobClears, Expire
<1>4. QED
  BY <1>2, <1>3

\* All other steps of a request leave the store alone.
LEMMA StorePasses ==
  ASSUME StoreInv, CostInv, NEW e \in Exchange,
         \/ Send(e) \/ Disconnect(e) \/ Authorize(e) \/ ReadOnly(e) \/ Completions(e)
         \/ Charge(e) \/ Ask(e) \/ Answered(e) \/ Failed(e) \/ Respond(e)
  PROVE  StoreInv'
<1>0. /\ at \in [Exchange -> {"idle", "authorize", "dispatch", "charge", "ask",
                              "model", "user", "assistant", "respond", "done"}]
      /\ status \in [Exchange -> {0, 200, 400, 401, 405, 500, 503}]
      /\ effects \in [Exchange -> SUBSET {"charged", "asked", "stored", "flushed"}]
      /\ at[e] \in {"idle", "authorize", "dispatch", "charge"} => effects[e] = {}
      /\ at[e] \in {"ask", "model"} => status[e] = 0
      /\ active = e => at[e] = "model"
  BY DEF CostInv, ServerTypeOK, Stages
<1>1. UNCHANGED store
  BY DEF Send, Disconnect, Authorize, ReadOnly, Completions, Charge, Ask, Answered,
         Failed, Respond, store, serverVars
<1>2. \A x \in Exchange : x # e => Passes(x)
  BY <1>0 DEF Send, Disconnect, Authorize, ReadOnly, Completions, Charge, Ask, Answered,
     Failed, Respond, Passes, Reply, WriteHeader, Goto, Did, serverVars
<1>3. Passes(e)
  <2> USE <1>0 DEF Passes, Over, Reply, WriteHeader, Goto, Did
  <2>1. CASE Send(e) \/ Disconnect(e)
    BY <2>1 DEF Send, Disconnect, serverVars
  <2>2. CASE Authorize(e) \/ ReadOnly(e) \/ Completions(e)
    BY <2>2 DEF Authorize, ReadOnly, Completions
  <2>3. CASE Charge(e)
    BY <2>3 DEF Charge
  <2>4. CASE Ask(e)
    BY <2>4 DEF Ask
  <2>5. CASE Answered(e) \/ Failed(e)
    BY <2>5 DEF Answered, Failed, Leave
  <2>6. CASE Respond(e)
    BY <2>6 DEF Respond
  <2>7. QED
    BY <2>1, <2>2, <2>3, <2>4, <2>5, <2>6
<1>4. QED
  BY <1>1, <1>2, <1>3, StoreAsWas DEF store

LEMMA StoreStep ==
  StoreInv /\ CostInv /\ [ServerNext]_<<vars, serverVars>> => StoreInv'
<1> SUFFICES ASSUME StoreInv, CostInv, [ServerNext]_<<vars, serverVars>>
             PROVE  StoreInv'
  OBVIOUS
<1>1. CASE UNCHANGED <<at, status, memory, effects, written, excused>>
  BY <1>1, StoreAsWas DEF Passes
<1>2. CASE UNCHANGED serverVars \/ ChainStep \/ Refill
  BY <1>1, <1>2 DEF serverVars, ChainStep, Refill, store
<1>3. ASSUME NEW e \in Exchange, Send(e) \/ Handler(e) \/ Disconnect(e)
      PROVE  StoreInv'
  BY <1>3, StoreOne, StoreFlush, StorePasses DEF Handler
<1>4. QED
  BY <1>2, <1>3, StoreJob DEF ServerNext

-----------------------------------------------------------------------------
\* An entry in the history was taken, at its place; one that was taken is there or
\* gone.
LEMMA HeldIsTaken ==
  ASSUME StoreInv, NEW e \in Exchange, NEW role \in Role
  PROVE  /\ Positions(Entry(e, role)) # {} => Taken(e, role)
         /\ Accounted(e, role) /\ Positions(Entry(e, role)) = {} => Gone(Entry(e, role))
         /\ Cardinality(Positions(Entry(e, role))) <= 1
<1> DEFINE m == Entry(e, role)
           where == Positions(m)
<1>0. /\ memory \in Seq(Entries) /\ written \in Seq(Entries)
      /\ DOMAIN memory = 1..Len(memory) /\ DOMAIN written = 1..Len(written)
      /\ Len(memory) \in Nat /\ Len(written) \in Nat /\ m # Summary
  BY EntriesDiffer DEF StoreInv, HeldInv
<1> HIDE DEF m
<1>1. PICK d \in Nat : Left(d)
  BY DEF StoreInv, HeldInv
<1>2. ASSUME NEW i \in where
      PROVE  i \in 1..Len(memory) /\ d + i \in DOMAIN written /\ written[d + i] = m
  BY <1>0, <1>1 DEF Positions, Left
<1>3. where # {} => Taken(e, role)
  BY <1>2 DEF Taken, m
<1>4. \A i, j \in where : i = j
  <2> SUFFICES ASSUME NEW i \in where, NEW j \in where PROVE i = j
    OBVIOUS
  <2>1. d + i = d + j
    BY <1>0, <1>2 DEF StoreInv, TakenInv, InOrder
  <2>2. QED
    BY <1>0, <1>2, <2>1
<1>5. ASSUME Accounted(e, role), where = {} PROVE Gone(m)
  <2>1. CASE m \in excused
    BY <2>1 DEF Gone
  <2>2. CASE Taken(e, role)
    <3>1. PICK i \in DOMAIN written : written[i] = m
      BY <2>2 DEF Taken, m
    <3>2. i \in 1..d
      <4> SUFFICES ASSUME i \notin 1..d PROVE FALSE
        OBVIOUS
      <4>1. i - d \in 1..Len(memory) /\ d + (i - d) = i
        BY <1>0, <1>1, <3>1 DEF Left
      <4>2. memory[i - d] = m
        BY <1>1, <3>1, <4>1 DEF Left
      <4>3. QED
        BY <1>0, <1>5, <4>1, <4>2 DEF Positions
    <3>3. QED
      BY <1>1, <3>1, <3>2 DEF Left, Gone
  <2>3. QED
    BY <1>5, <2>1, <2>2 DEF Accounted, m
<1> HIDE DEF where
<1>6. Cardinality(where) <= 1
  <2>1. CASE where = {}
    BY <2>1, FS_EmptySet
  <2>2. CASE where # {}
    <3>1. PICK i \in where : where = {i}
      BY <1>4, <2>2
    <3>2. Cardinality(where) = 1
      BY <3>1, FS_Singleton
    <3>3. QED
      BY <3>2
  <2>3. QED
    BY <2>1, <2>2
<1>7. QED
  BY <1>3, <1>5, <1>6 DEF m, where

\* What the history holds of a request agrees with its response, for any number of
\* requests that overlap, any cap of the store and any job of the summarizer: a
\* failed one leaves no entry, an answered one its question and then its answer,
\* once each, but for what the store failed on, what a flush, a summary or the time
\* to live removed, and what MaxStored newer entries pushed out (ProcessMessage in
\* router.go, handleCompletions in http.go).
THEOREM HistoryTellsResponses == ServerSpec => []MemoryMatchesStatus
<1>1. StoreInv /\ CostInv => MemoryMatchesStatus
  <2> SUFFICES ASSUME StoreInv, CostInv, NEW e \in Exchange
               PROVE  LET user == Positions(Entry(e, "user"))
                          assistant == Positions(Entry(e, "assistant"))
                      IN /\ status[e] \notin {0, 200} => user \cup assistant = {}
                         /\ Cardinality(user) <= 1 /\ Cardinality(assistant) <= 1
                         /\ \A i \in user, j \in assistant : i < j
                         /\ assistant # {} => user # {} \/ Gone(Entry(e, "user"))
                         /\ Over(e) /\ status[e] = 200 /\ "asked" \in effects[e] =>
                              \A role \in {"user", "assistant"} :
                                Positions(Entry(e, role)) = {} => Gone(Entry(e, role))
    BY DEF MemoryMatchesStatus
  <2>1. \A role \in Role :
          /\ Positions(Entry(e, role)) # {} => Taken(e, role)
          /\ Accounted(e, role) /\ Positions(Entry(e, role)) = {} => Gone(Entry(e, role))
          /\ Cardinality(Positions(Entry(e, role))) <= 1
    BY HeldIsTaken
  <2>2. ASSUME NEW i \in Positions(Entry(e, "user")),
               NEW j \in Positions(Entry(e, "assistant"))
        PROVE  i < j
    <3>1. PICK d \in Nat : Left(d)
      BY DEF StoreInv, HeldInv
    <3>2. /\ memory \in Seq(Entries) /\ written \in Seq(Entries)
          /\ DOMAIN memory = 1..Len(memory) /\ DOMAIN written = 1..Len(written)
          /\ Len(memory) \in Nat
      <4>1. memory \in Seq(Entries) /\ written \in Seq(Entries)
        BY DEF StoreInv, HeldInv
      <4>2. QED
        BY <4>1, LenProperties
    <3>3. Len(written) = d + Len(memory)
      BY <3>1 DEF Left
    <3>4. /\ i \in 1..Len(memory) /\ memory[i] = Entry(e, "user")
          /\ j \in 1..Len(memory) /\ memory[j] = Entry(e, "assistant")
      BY <3>2 DEF Positions
    <3>5. /\ d + i \in DOMAIN written /\ written[d + i] = Entry(e, "user")
          /\ d + j \in DOMAIN written /\ written[d + j] = Entry(e, "assistant")
      BY <3>1, <3>2, <3>3, <3>4 DEF Left
    <3>6. d + i < d + j
      BY <3>5 DEF StoreInv, TakenInv, InOrder
    <3>7. QED
      BY <3>4, <3>6
  <2>3. QED
    BY <2>1, <2>2 DEF StoreInv, TakenInv, NotYetTaken, AllAccounted, Role
<1>2. QED
  BY <1>1, CostInit, CostStep, StoreInit, StoreStep, PTL DEF ServerSpec
=============================================================================
