----------------------------- MODULE HTTPServer -----------------------------
(***************************************************************************)
(* The HTTP server (internal/gateway/http.go): the middleware, the         *)
(* dispatch to the handlers, and the two handlers that change state,       *)
(* POST /v1/chat/completions and GET /admin/memory/{user}/flush, with the  *)
(* part of ProcessMessage (router.go) they run, down to the model chain    *)
(* (LLMChain), the memory store and the summarizer.                        *)
(*                                                                         *)
(* An exchange is one request and its response; a client that retries      *)
(* starts another.  Requests that name no user share the history and the   *)
(* rate limit of the user "completions-api": the one user here.  Rate      *)
(* limiting is enabled.                                                    *)
(*                                                                         *)
(* Each request runs the chain on its own; the wrappers share no state, so *)
(* one request at a time in the chain shows every outcome there is.        *)
(***************************************************************************)
EXTENDS LLMChain, Sequences

CONSTANTS
  Exchange,  \* bound: the requests sent, numbered in that order
  Request,   \* what clients may send: route, method, header and body
  Burst,     \* the rate limiter's bucket
  MaxStored, \* the entries a capped store keeps for a user
  None

Route == {"/ready", "/status", "/dashboard/data", "/api/ws", "/flush", "/completions"}
Header == {"none", "token", "password"}
Body == {"malformed", "no question", "question", "/system", "stream"}

ASSUME ServerAssumption ==
  /\ Request \subseteq [route : Route, post : BOOLEAN, header : Header, body : Body]
  /\ Exchange \subseteq Nat
  /\ Burst \in Nat
  /\ MaxStored \in Nat \ {0}
  /\ None \notin Exchange

VARIABLES
  apiToken,     \* whether an API token ...
  dashAuthHash, \* ... and a dashboard password are configured
  request,      \* exchange -> its request
  at,           \* exchange -> where its handler is
  status,       \* exchange -> the status of its response, 0 before it has one
  active,       \* the exchange whose request is in the chain, or None
  tokens,       \* the rate limiter's tokens
  memory,       \* the history of the user: entries of exchanges, and summaries
  job,          \* where the summarizer's job for the user is
  effects,      \* history: exchange -> what it did beyond its own response
  written,      \* history: every entry the store took, oldest first
  excused       \* history: entries storing which failed, or which were wiped

serverVars == <<apiToken, dashAuthHash, request, at, status, active, tokens,
                memory, job, effects, written, excused>>
config == <<apiToken, dashAuthHash>>
store == <<memory, job, written, excused>>

ServerInit ==
  /\ Init
  /\ apiToken \in BOOLEAN /\ dashAuthHash \in BOOLEAN
  /\ request = [e \in Exchange |-> None]
  /\ at = [e \in Exchange |-> "idle"]
  /\ status = [e \in Exchange |-> 0]
  /\ active = None
  /\ tokens = Burst
  /\ memory = << >>
  /\ job = "none"
  /\ effects = [e \in Exchange |-> {}]
  /\ written = << >>
  /\ excused = {}

Goto(e, label) == at' = [at EXCEPT ![e] = label]

\* The first WriteHeader counts.
WriteHeader(e, code) == status' = [status EXCEPT ![e] = IF @ = 0 THEN code ELSE @]

Reply(e, code) == WriteHeader(e, code) /\ Goto(e, "respond")
Did(e, what) == effects' = [effects EXCEPT ![e] = @ \cup {what}]

-----------------------------------------------------------------------------
Send(e) ==
  /\ at[e] = "idle"
  /\ \A x \in Exchange : x < e => at[x] # "idle"
  /\ \E r \in Request : request' = [request EXCEPT ![e] = r]
  /\ Goto(e, "authorize")
  /\ UNCHANGED <<vars, config, status, active, tokens, store, effects>>

\* A client gives up, and the context of its request is cancelled.  Until the
\* request is in the chain nothing looks at it; after that only the store is called
\* with it, and may fail in any case.
Disconnect(e) ==
  /\ active = e
  /\ Cancel
  /\ UNCHANGED serverVars

Refill ==
  /\ tokens < Burst
  /\ tokens' = tokens + 1
  /\ UNCHANGED <<vars, config, request, at, status, active, store, effects>>

-----------------------------------------------------------------------------
\* apiTokenMiddleware: probes need no token.
TokenAccepted(r) == ~apiToken \/ r.route = "/ready" \/ r.header = "token"

\* dashAuthMiddleware, inside: the same header must hold the password.
PasswordAccepted(r) == ~dashAuthHash \/ r.header = "password"

\* A mutant: the middleware does not return after its 401.
AuthorizeGoesOn(e) ==
  /\ at[e] = "authorize"
  /\ IF TokenAccepted(request[e])
     THEN UNCHANGED status
     ELSE WriteHeader(e, 401)
  /\ Goto(e, "dispatch")
  /\ UNCHANGED <<vars, config, request, active, tokens, store, effects>>

Authorize(e) ==
  /\ at[e] = "authorize"
  /\ IF TokenAccepted(request[e])
     THEN Goto(e, "dispatch") /\ UNCHANGED status
     ELSE Reply(e, 401)
  /\ UNCHANGED <<vars, config, request, active, tokens, store, effects>>

\* Handlers that only read answer at once: the probes; "/status" and the like,
\* of which /health may say 503; the dashboard.  The logging middleware's wrapper
\* hides the connection, so no dashboard is ever upgraded to a WebSocket.
Answers(r) ==
  IF r.route \in {"/ready", "/status"} THEN {200, 503}
  ELSE IF ~PasswordAccepted(r) THEN {401}
  ELSE IF r.route = "/dashboard/data" THEN {200} ELSE {500}

ReadOnly(e) ==
  /\ at[e] = "dispatch"
  /\ request[e].route \in {"/ready", "/status", "/dashboard/data", "/api/ws"}
  /\ \E code \in Answers(request[e]) : Reply(e, code)
  /\ UNCHANGED <<vars, config, request, active, tokens, store, effects>>

\* handleCompletions refuses all but a POST with a question; and a stream, as
\* the wrapper hides Flush as well.
Refusal(r) ==
  IF ~r.post THEN 405
  ELSE IF r.body \in {"malformed", "no question"} THEN 400
  ELSE IF r.body = "stream" THEN 500 ELSE 0

Completions(e) ==
  /\ at[e] = "dispatch"
  /\ request[e].route = "/completions"
  /\ IF Refusal(request[e]) # 0
     THEN Reply(e, Refusal(request[e]))
     ELSE Goto(e, "charge") /\ UNCHANGED status
  /\ UNCHANGED <<vars, config, request, active, tokens, store, effects>>

\* A mutant: the request waits for a token.
ChargeWaits(e) ==
  /\ at[e] = "charge"
  /\ tokens > 0
  /\ tokens' = tokens - 1
  /\ Did(e, "charged")
  /\ IF request[e].body = "/system"
     THEN Reply(e, 200)
     ELSE Goto(e, "ask") /\ UNCHANGED status
  /\ UNCHANGED <<vars, config, request, active, store>>

\* ProcessMessage: out of tokens is an error like any other; a /system command
\* is answered by the router itself.
Charge(e) ==
  /\ at[e] = "charge"
  /\ \/ /\ tokens = 0
        /\ Reply(e, 500)
        /\ UNCHANGED <<tokens, effects>>
     \/ /\ tokens > 0
        /\ tokens' = tokens - 1
        /\ Did(e, "charged")
        /\ IF request[e].body = "/system"
           THEN Reply(e, 200)
           ELSE Goto(e, "ask") /\ UNCHANGED status
  /\ UNCHANGED <<vars, config, request, active, store>>

\* The request enters the chain, which is as at first, with its own context.
Ask(e) ==
  /\ at[e] = "ask"
  /\ active = None
  /\ active' = e
  /\ cancelled' \in BOOLEAN
  /\ Did(e, "asked")
  /\ Goto(e, "model")
  /\ UNCHANGED <<provider, pc, calls, last, config, request, status, tokens, store>>

\* It leaves the chain, which keeps nothing of it.
Leave(e) ==
  /\ active = e
  /\ active' = None
  /\ provider' = 1
  /\ pc' = "call"
  /\ calls' = [p \in Provider |-> 0]
  /\ last' = [p \in Provider |-> {}]
  /\ cancelled' = FALSE

ChainStep ==
  /\ active # None
  /\ Step
  /\ UNCHANGED serverVars

Answered(e) ==
  /\ Leave(e)
  /\ pc = "answered"
  /\ Goto(e, "user")
  /\ UNCHANGED <<config, request, status, tokens, store, effects>>

\* A mutant: the turn of a failed request is stored.
FailedGoesOn(e) ==
  /\ Leave(e)
  /\ pc = "error"
  /\ WriteHeader(e, 500)
  /\ Goto(e, "user")
  /\ UNCHANGED <<config, request, tokens, store, effects>>

Failed(e) ==
  /\ Leave(e)
  /\ pc = "error"
  /\ Reply(e, 500)
  /\ UNCHANGED <<config, request, tokens, store, effects>>

Entry(e, role) == [exchange |-> e, role |-> role]
Summary == Entry(None, "summary")

Newest(h) == SubSeq(h, IF Len(h) > MaxStored THEN Len(h) - MaxStored + 1 ELSE 1, Len(h))

\* AddMessage appends the entry and keeps the newest ones, unless the store has no
\* cap or pruning fails.  It may report an error, having stored the entry or not,
\* which is only logged.
AddMessage(entry) ==
  \/ /\ written' = Append(written, entry)
     /\ memory' \in {Append(memory, entry), Newest(Append(memory, entry))}
     /\ excused' \in {excused, excused \cup {entry}}
  \/ /\ excused' = excused \cup {entry}
     /\ UNCHANGED <<memory, written>>

\* ClearHistory removes whatever is there.
ClearHistory ==
  /\ memory' = << >>
  /\ excused' = excused \cup {memory[i] : i \in DOMAIN memory}
  /\ UNCHANGED written

StoreUser(e) ==
  /\ at[e] = "user"
  /\ AddMessage(Entry(e, "user"))
  /\ Did(e, "stored")
  /\ Goto(e, "assistant")
  /\ UNCHANGED <<vars, config, request, status, active, tokens, job>>

\* The answer is stored, and MaybeSummarize may start a job, unless one runs.
StoreAssistant(e) ==
  /\ at[e] = "assistant"
  /\ AddMessage(Entry(e, "assistant"))
  /\ Did(e, "stored")
  /\ job' \in {job, IF job = "none" THEN "running" ELSE job}
  /\ Reply(e, 200)
  /\ UNCHANGED <<vars, config, request, active, tokens>>

\* The job's goroutine: with the summary from the model it clears the history,
\* and stores the summary.  Every error ends it, after a clear that was done too.
JobClears ==
  /\ job = "running"
  /\ \/ ClearHistory /\ job' \in {"cleared", "none"}
     \/ job' = "none" /\ UNCHANGED <<memory, written, excused>>
  /\ UNCHANGED <<vars, config, request, at, status, active, tokens, effects>>

JobStores ==
  /\ job = "cleared"
  /\ job' = "none"
  /\ AddMessage(Summary)
  /\ UNCHANGED <<vars, config, request, at, status, active, tokens, effects>>

\* The time to live of a Redis key runs out.
Expire ==
  /\ ClearHistory
  /\ UNCHANGED <<vars, config, request, at, status, active, tokens, effects, job>>

\* handleAdminMemoryFlush: ClearHistory may fail, or report an error when it is
\* done.
Flush(e) ==
  /\ at[e] = "dispatch"
  /\ request[e].route = "/flush"
  /\ \/ /\ ClearHistory
        /\ Did(e, "flushed")
        /\ \E code \in {200, 500} : Reply(e, code)
        /\ UNCHANGED job
     \/ /\ Reply(e, 500)
        /\ UNCHANGED <<store, effects>>
  /\ UNCHANGED <<vars, config, request, active, tokens>>

\* The response is sent.  Whether it reaches the client, who may have left, or for
\* whom WriteTimeout may have passed since the request was read, the handler does
\* not notice.
Respond(e) ==
  /\ at[e] = "respond"
  /\ Goto(e, "done")
  /\ UNCHANGED <<vars, config, request, status, active, tokens, store, effects>>

Handler(e) ==
  \/ Authorize(e) \/ ReadOnly(e) \/ Completions(e) \/ Flush(e) \/ Charge(e)
  \/ Ask(e) \/ Answered(e) \/ Failed(e)
  \/ StoreUser(e) \/ StoreAssistant(e) \/ Respond(e)

ServerNext ==
  \/ \E e \in Exchange : Send(e) \/ Handler(e) \/ Disconnect(e)
  \/ ChainStep
  \/ Refill
  \/ JobClears \/ JobStores \/ Expire

\* Handlers run, and calls to models and stores return.
ServerSpec ==
  /\ ServerInit /\ [][ServerNext]_<<vars, serverVars>>
  /\ WF_<<vars, serverVars>>(ChainStep)
  /\ \A e \in Exchange : WF_<<vars, serverVars>>(Handler(e))

-----------------------------------------------------------------------------
ServerTypeOK ==
  /\ request \in [Exchange -> Request \cup {None}]
  /\ at \in [Exchange -> {"idle", "authorize", "dispatch", "charge", "ask", "model",
                          "user", "assistant", "respond", "done"}]
  /\ status \in [Exchange -> {0, 200, 400, 401, 405, 500, 503}]
  /\ active \in Exchange \cup {None}
  /\ \A e \in Exchange : active = e <=> at[e] = "model"
  /\ tokens \in 0..Burst
  /\ effects \in [Exchange -> SUBSET {"charged", "asked", "stored", "flushed"}]
  /\ job \in {"none", "running", "cleared"}

\* A request refused for its credentials, its method or its body, or because it
\* wants a stream, has cost nothing and changed nothing: no token taken, no model
\* asked, no entry stored or cleared, however requests overlap.  (A flush that
\* reports an error is no refusal: it may have been done.)
RefusedUntouched ==
  /\ ServerTypeOK
  /\ \A e \in Exchange :
       \/ status[e] \in {400, 401, 405}
       \/ /\ status[e] = 500 /\ request[e].route # "/flush"
          /\ request[e].body = "stream" \/ "charged" \notin effects[e]
       => effects[e] = {}

Positions(entry) == {i \in DOMAIN memory : memory[i] = entry}
Over(e) == at[e] \in {"respond", "done"}

\* Why an entry that was to be stored may be missing: the store reported an error,
\* a flush, a summary or the key's time to live removed it, or MaxStored newer
\* entries pushed it out.
Gone(entry) ==
  \/ entry \in excused
  \/ \E i \in DOMAIN written : written[i] = entry /\ Len(written) - i >= MaxStored

\* The response tells what the history holds, whoever else writes to it
\* meanwhile: a failed request leaves no entry; an answered one leaves its user's
\* entry and then the assistant's, once each, until they are gone, and the user's
\* is not gone before the assistant's without such a reason of its own.  This
\* holds of the response made, delivered or not: a client whose answer came too
\* late and who asks again is stored again.
MemoryMatchesStatus ==
  \A e \in Exchange :
    LET user == Positions(Entry(e, "user"))
        assistant == Positions(Entry(e, "assistant"))
    IN /\ status[e] \notin {0, 200} => user \cup assistant = {}
       /\ Cardinality(user) <= 1 /\ Cardinality(assistant) <= 1
       /\ \A i \in user, j \in assistant : i < j
       /\ assistant # {} => user # {} \/ Gone(Entry(e, "user"))
       /\ Over(e) /\ status[e] = 200 /\ "asked" \in effects[e] =>
            \A role \in {"user", "assistant"} :
              Positions(Entry(e, role)) = {} => Gone(Entry(e, role))

\* Every request is answered, whatever the model, the store, the limiter, the
\* client and the other requests do; though not always in time.
RequestEnds == \A e \in Exchange : at[e] # "idle" ~> at[e] = "done"
=============================================================================
