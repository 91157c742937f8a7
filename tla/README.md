# BuckTooth in TLA+

BuckTooth is a gateway between chat platforms and language models: channel
adapters receive messages, a router runs an agent turn for each, and the reply
goes back to the platform in chunks. Turns also come from cron jobs, an
OpenAI-compatible HTTP endpoint and a WebSocket server. Everything is one Go
process with many goroutines, a memory store behind it and no transactions
between them. This directory holds TLA+ models of the parts where order and
failure matter, the TLC runs that check them, and TLAPS proofs, for every value of the
constants, of all safety properties that the passing runs check.

Paths below are relative to the repository; `gateway/` stands for
`internal/gateway/`, and likewise for the other directories of `internal/`.

## 1. Inventory

| Component | Source | State it keeps | Operations | Correct when |
|---|---|---|---|---|
| Duplicate filter | `gateway/deduplicator.go` | ring of keys, index key → time, head; one mutex | `Seen` | drops a message only within TTL of a recording of its key; a key new to the ring is guarded for the window |
| Router, agent cache, `/system` | `gateway/router.go`, `gateway/userprefs.go` | agent per user, prompt per user; two separate locks | `ProcessMessage`, `StreamMessage`, `handleSystemCommand`, `getOrCreateAgent` | an agent carries the prompt in force; one agent per user; nobody waits on the lock for ever |
| Memory store | `memory/{inmemory,sqlite,redis,hybrid,vector}.go` | messages per user, at most `max_history` | `AddMessage`, `GetHistory`, `ClearHistory` | what was acknowledged stays until newer messages push it out; reads are in order |
| Summarizer | `memory/summarizer.go` | users with a job in progress | `MaybeSummarize`, `summarize` | one job per user; no message told twice; nothing forgotten without a reason |
| Channel adapters | `channels/base.go`, `channels/*/` | queue of 100, connected flag, health; the platform's session | `Connect`, callbacks, `SendMessage`, `Disconnect` | accepted messages are handed over once, in order; a stop is quiet |
| Signal adapter | `channels/signal/signal.go` | the connection, the same flags | receive loop with redial, send, `Disconnect` | one connection; a lost one is replaced; the loop ends |
| Gateway pipeline | `gateway/gateway.go`, `eventbus.go`, `stats.go` | per loop: the message in hand; counters | `receiveMessages`, `handleMessageReceived` | each key handled once; replies whole and in order; statistics agree |
| Model chain | `gateway/retryllm.go`, `fallbackllm.go` | none between requests | `Complete` | right number of attempts, next provider for a reason only, honest outcome |
| WebSocket server, rate limiter | `gateway/websocket.go`, `ratelimiter.go` | clients, token bucket per user | connection handlers, stop | one last frame per answer, nothing of an aborted stream stored, bucket respected |
| Start, stop, scheduler | `cmd/.../start.go`, `gateway/gateway.go`, `cron/scheduler.go`, `http.go` | context, wait group, servers, tickers, store, MCP clients | `runStart`, `New`, `Start`, `Stop` | stop releases everything, ends, and does not pull the store from under what it waits for |
| HTTP server | `gateway/http.go` | API token, dashboard password | middleware, probes, completions, admin flush | a refused request costs nothing; the response tells what the history holds; every request ends |
| Teams bearer token | `channels/teams/teams.go` | token and its expiry; one mutex | `getBearerToken`, `SendMessage` | no reply carries an expired token |
| Calendar tool | `tools/calendar.go` | events in one JSON file, no lock | `list`, `create`, `delete` | what was reported done is in the file; a file that does not parse is not written over |
| Planning mode | `agents/planning.go`, `gateway/router.go` | none | `ToolStepExecutor.Execute`, `ProcessMessage` | every turn ends; nothing of a failed one is stored |
| Cost tracker, chunker, skills, other tools, configuration, observability, signatures, dashboard page | see `PROJECT.json` | little or none | | not modelled: single library calls, pure functions of texts, floating point |

How they interact:

* An adapter's **callback** puts a message into the channel's **queue** without
  blocking; the gateway's receive loop takes it out. `Publish` on the event bus
  waits for all handlers, so a loop handles one message at a time; loops, cron
  jobs, HTTP requests and WebSocket handlers run **concurrently** and meet in the
  duplicate filter, the agent cache, the preferences, the statistics, the
  buckets, the calendar's file and the memory store.
* A **completions request** goes through the middleware, the user's bucket, the model
  chain and the store in its own goroutine, with a context its client cancels by leaving.
* A turn stores its two messages and may leave a **summary job** behind, a
  goroutine nobody waits for.
* `Stop` cancels the context, disconnects the channels, waits for a **wait group**
  that counts the receive loops and the servers (not jobs, hijacked handlers or
  summaries) up to `ShutdownTimeout`, and closes the store.

What is hard: look-ups under a read lock acted on under a write lock; a preference
and a cache changed in two steps; history read, then a model call of seconds, then
the history cleared; a Go channel closed while callbacks send on it; a reconnect
that races a disconnect; text-matched error classes; two-statement writes without
a transaction and Redis pipelines that break in the middle; a file that is emptied
before it is written, by several writers; a token refreshed against the clock; clients
that leave, or are cut off, while their request goes on; streams cut off in the middle; a stop that waits for some goroutines only. `PROJECT.json` lists each as a
hazard at its line with the properties that would notice it going wrong.

## 2. Modules

| Module | Models | Run by |
|---|---|---|
| `Deduplicator` | the filter, one action per outcome of `Seen`, and the clock | `MCDeduplicator` |
| `InboundProofs` | theorems about `Deduplicator` and `Signal` | |
| `AgentCache` | turns of the router against the cache, prompts and history | itself |
| `RouterProofs` | theorems about `AgentCache`, `Calendar` and `Planning` | |
| `Summarizer` | turns, summary jobs, flush and crash over one store | `MCSummarizer` |
| `SummarizerProofs` | theorems about it | |
| `Inbox` | abstract: what a queue promises | implemented by `Channel` |
| `Channel` | six adapters with their loop and their part of the stop | `MCChannel`, and with `Teams` |
| `Teams` | the Teams adapter's replies and token, over `Channel` | `MCTeams` |
| `ChannelProofs` | theorems about `Channel`, `Teams` and `Stream` | |
| `Signal` | the seventh adapter | itself |
| `LLMChain` | one request through retries and fallbacks | with `HTTPServer` |
| `HTTPServer` | HTTP requests and their clients, over `LLMChain` | `MCHTTPServer` |
| `HTTPServerProofs` | theorems about both | |
| `Calendar` | overlapping calls of the calendar tool, and its file | with `Planning` |
| `Planning` | turns in planning mode, over `Calendar` | itself |
| `Gateway` | pipeline of several channels and jobs | `MCGateway` |
| `GatewayProofs` | theorems about it | |
| `Stream` | WebSocket connections, streamed turns, buckets | `MCStream` |
| `History` | abstract: what a store promises of one user's history | implemented by `Stores` |
| `Stores` | the five backends, each statement or command a step | `MCStores` |
| `StoresProofs` | theorems about it | |
| `Lifecycle` | the process from command line to exit | `MCLifecycle` |
| `LifecycleProofs` | theorems about it | |

`Gateway` uses the duplicate filter by what `Deduplicator` establishes within one
window (a set of keys), `Lifecycle` uses turns by their last use of the store, and
`Summarizer` takes a write to the store as one step, with its pruning. `PROJECT.json` maps every definition to the lines it stands for.

### Correspondence with the code

**Deduplicator.** `index`, `ring`, `head` are the struct's fields.
`SeenDuplicate` and `SeenFirst` are the two returns of `Seen`, each a single step
because the whole call runs under the mutex. An expired entry is not removed when
it is found, only overwritten; its old ring slot stays, which is why the index is
not simply "the ring's keys". The SHA-256 of channel, user and content stands for
those three.

**AgentCache.** A turn goes `StartTurn` → `LookUp` (read lock) → `LockAndCheck`
(write lock, second look, prompt read) → `InsertAgent` → `Process` → `Store`;
`Process` appends a turn to the
conversation of its agent, which drops the oldest beyond `MaxHistory`; a turn that
overlapped another on the same agent may append to the conversation it came to, as
nothing makes the agent safe for two at once.
`StartStream`/`EndStream` is the streamed turn, which builds an agent of its own and
never touches the cache; `SystemCommand` writes the preference and `evictAgent`, a
later step, the cache. An agent is named after the turn that built it.
`MaxHistory` counts turns, as `docs/configuration-reference.md:105` does; should the
library count messages, only the number differs.

**Summarizer.** `AddUser`, `AddAssistant` are the turn's writes; `CheckTrigger`,
`StartJob` are `MaybeSummarize` with its `LoadOrStore` guard; `JobGetHistory`,
`JobComplete`, `JobClearHistory`, `JobAddSummary`, `JobRelease` the goroutine.
Every store and model call may fail when `Faults`. `Crash` restarts the process over
a store that outlives it. An entry of the history is the set of messages it tells.

**Channel.** `conn` is where `startChannel` is, `session` whether the platform can
call back, `QueueMessage` the non-blocking send (a full queue refuses, a closed one
panics), `TakeMessage`, `PublishReturns`, `LoopEnds` the receive loop, and
`CloseSession`, `CloseQueue`, `WaitForLoop` what `Gateway.Stop` does with this channel. What differs between adapters is
how a session is opened and closed, and who runs the callbacks.

**Signal.** The receive loop as in the code: look at the context, fetch the
connection under the lock, read outside it, and on an error report, back off, dial,
install. A send takes the connection under the lock and writes outside it.

**LLMChain.** An error is the set of the marker strings its text contains, which is all
that `isRetryableError` and `isFallbackableError` look at.

**HTTPServer.** An exchange is a request and its handler: `Authorize` is the API token's
middleware, `ReadOnly`, `Completions`, `Flush` the handlers up to what they answer at
once, `Charge` and `Ask` the way into `ProcessMessage` and the chain, `Answered` and
`Failed` the way out, `StoreUser` and `StoreAssistant` the store, which keeps the newest
`MaxStored` entries (`AddMessage`), `Respond` the response. `StoreAssistant` may leave a
summary job, which clears the history and then stores its summary (`JobClears`,
`JobStores`, each of which may fail); `Expire` is the time to live of the Redis key. A
flush may report an error and have been done. `Disconnect` is a client's leaving while
its request is in the chain; one that left earlier is a request that enters it
cancelled. The chain's
wrappers keep nothing between requests, so requests pass it one after the other; all
other steps of requests interleave.

**Teams.** `Fresh`, `Request`, `FetchReturns`, `FetchFails` are `getBearerToken`,
`PostReturns` one chunk's exchange, `GiveUp` the end of a reply after an error. They run
while the channel's loop is publishing, as `SendMessage` does. `Issue` is Microsoft's
endpoint, which makes the token at some time between request and answer; `Tick` the
clock, which the HTTP client's timeout bounds while an exchange is under way.

**Calendar, Planning.** `LoadEvents`, `OpenFile`, `WriteFile`, `WriteFails` are the
steps the file system sees: `os.WriteFile` truncates, then writes at offset zero, so the
bytes of two writers mix; an error on closing comes after all is written. An event is its UUID, made before the file is read. A turn's
`CalendarStepBegins`/`Ends` and `OtherStepBegins`/`Ends` are the executor's; the agent
around them (agenkit's) chooses what to do next in every way it may.

**Gateway.** One worker per receive loop and per job. `Receive`, `Dedup`, `Start`,
`Answer`/`Fail`, `Resolve`, `SendChunk`…, `Finish` follow `handleMessageReceived`;
`Publish` waits for its handlers, so a publication is one step. `CopyRecent` and
`LoadCounters` are the two halves of a dashboard request's snapshot. A reply is a number of
chunks; the platform's part is whether the channel can address it.

**Stream.** A handler's `Read`, then per kind of request `Process`/`OpenStream`,
`Relay`, `Single`, `Store`, and a `Write` per frame that the client receives or not.
`Charge` and `Process` spend tokens where the code calls `Allow`, which a streamed
request that needs tools does twice. `CancelServer`, `CloseClients` are the server's stop.

**Stores.** `Insert`, `Prune`, `SetExpiry`, `AddVector`, `Ack`, `Fail` are the steps of
`AddMessage` that the backend takes one by one: SQLite two statements, Redis a
pipeline's commands, the hybrid store memory then index, the vector store one call. `Wipe` covers
`ClearHistory`, the key's expiry and a restart of a store in memory.

**Lifecycle.** `pc` is where `runStart` is, `todo` what its present loop has left. A
worker is a goroutine that runs turns; it is `busy` until its turn's last use of the
store. `wg` is the wait group's members, `late` records who used a closed store.

## 3. Runs

Each run is complete for its bounds; deadlock checking is off where behaviours end
(the bounds are used up, a request has its outcome, a stop has ended).

| Run | Shows | Bounds, and why they are enough |
|---|---|---|
| `Deduplicator` | `IndexExact`: a key is in the index exactly when neither its own slot nor a slot with an older, expired recording of it has been rewritten since; `DropsOnlyRecent`; `FreshKeyGuarded` | ring of 2, TTL 2, clock to 4, 5 recordings, 4 messages: the ring wraps twice and a key can expire, be recorded again and be evicted through its old slot; proved for all values |
| `AgentCache` | prompt in force, settled turns, `OneConversation` (an agent remembers turns of its user only, and each until `MaxHistory` newer ones have pushed it out), agents evicted and never replaced, every turn ends | 3 turns, 2 users, 2 prompts: two builders and a command of one user meet; an agent of 2 turns forgets the first of three; proved for all values but for the liveness |
| `Summarizer` | `JobInv` (one job per user, no message told twice), `ForgottenOnlyWithReason`, `GuardReleased` | 1 user (users share nothing), 2 turns of two messages, threshold 2, store of 3, one crash: a second turn's writes fall between any two steps of the first one's job; safety proved for all values |
| `Channel` | `QueueInv`: accepted messages are handed over once and in order, a callback meets a closed queue only once `Stop` has closed it, and the stores close only when the loop is out or the timeout has fired; `TokenLive`; `InboxPromise` (implements `Inbox`); `QueuedIsHandled` | every adapter, 3 messages, queue of 2: the queue is full with one message in hand; timeout 1, margin 2, lives of 2 and 4, clock to 4: a token refused by the margin, kept, refreshed and expiring in flight; all but `QueuedIsHandled` proved for all values |
| `HTTPServer` | `ChainInv`: attempts bounded, no provider asked ahead of its turn or left without a reason, honest outcome; `RefusedUntouched`; `MemoryMatchesStatus`; `RequestEnds` | 2 requests of 10 kinds, numbered as they are sent, with and without token and password, 2 providers with 3 and 1 attempts, errors with either, both and no kind of marker, bucket of 1, a store of 2 entries: two requests meet in bucket, store, flush and summary, and the second pushes out the first; safety proved for all values |
| `Planning` | `PlanInv`: the calendar loses events only of calls that overlapped, is unreadable only after a write went wrong, and nothing of a failed turn is stored; `TornKept`; `PlanEnds` | 2 turns of up to 2 steps, 2 events, one crash: two writers overlap at every step, before and after a torn file; safety proved for all values |
| `Signal` | `ConnectionInv`: never two connections up; `LoopLives`: a lost connection is replaced, and the loop ends with the gateway | 3 connections, 2 messages: one redial that is broken again, and one that races the stop; safety proved for all values |
| `Gateway` | `EventInv` (a message is run once, its events in order), `RepliesInOrder` (within one and between those of a conversation), `StatsAgree`, `SnapshotCounts`, `EveryMessageHandled` | 2 channels, 1 job, 3 arrivals of 2 messages, replies of up to 2 chunks, a list of 1 recent message: a redelivery during handling, a job's reply among a channel's; safety proved for all values |
| `Stream` | `ServerInv` (the stop closes what was registered; answers whole and in order), `AbortedNotStored`, `TurnsWithinBudget`, `ClosedHandlerEnds` | 2 connections of one user with 2 and 1 requests of the five kinds, bucket of 1 and one refill, 1 chunk: the bucket is contended and runs dry; safety proved for all values |
| `Lifecycle` | `ClosedUnderWaitedOnlyLate`, `StopReleasesAll`, `NoRunAfterSchedulerStop`, `StopEnds` | two channels and one of each other worker, 3 turns; safety proved for all values |
| `Stores` | `HistoryInv` (cap, order, the key expires), `AckedKept`, `KeepsPromise` (implements `History`) | 5 backends, 2 writers, 4 messages, cap 2, one wipe: a second writer between insert and prune, with the cap reached twice; proved for all values |
| `ChannelSendOnClosed` (violation) | a callback under way while `Disconnect` closes the queue sends on a closed Go channel, which panics; `channels/channel.go:45` promises a graceful close | smallest instance that shows it |

Bounds named in the modules (`MaxClock`, `MaxAccepted`, `MaxCrashes`, `MaxConns`,
`MaxMessages`, `MaxArrivals`, `MaxChunks`, `MaxRelayed`, `MaxRequests`, `MaxRefills`, `MaxStored`,
`MaxWipes`, `MaxTurns`, `MaxTime`, `Exchange`, `Event`) stop the environment; the code has no such limit.

### Fairness

* `AgentCache`, `Summarizer`, `Gateway`, `Channel`, `Stream`, `HTTPServer`, `Planning`: weak fairness of each
  goroutine's own steps. The Go scheduler runs every runnable goroutine, and the
  clients of models and platforms return (they have timeouts). Nothing is assumed of
  arrivals, commands, flushes, crashes, cancellation or clients.
* `Channel`: none of the shutdown timeout, so that the loop's end does not rest on it.
* `Signal`: in addition strong fairness of a successful dial, as a loop that dials for
  ever gets through to a server that is up again and again. `LoopLives` is about a
  server that comes back and assumes no more than that.
* `Lifecycle`: only `runStart`'s own steps, the timeout among them. No worker is relied
  on: `StopEnds` holds however long a turn takes.
* `Channel` with `Teams`: the exchanges of a reply end in time, as the HTTP client has a
  timeout; the clock is bounded and not fair.
* `Deduplicator`, `Stores`: none; they have safety properties only.

## 4. Proofs

All proofs are checked by TLAPS from the modules' named assumptions on constants
(positive sizes, distinct special values, kinds of workers that do not overlap), for
every value of the constants.

**InboundProofs.** `FilterExact`: `Spec => []FilterInv`, where `FilterInv`
conjoins the type invariant, `RingIsRecentHistory` (the ring is the last `Size`
recordings, at the positions head implies), `IndexExact`, that every key recorded has a
latest recording, and that no recording is in the future. `DropsOnlyRecent` is not
inductive: that the index tells the time of the *latest* recording needs to know which
recordings the eviction has removed, hence the exact account. `NoFalseDrop` and
`FreshKeysGuarded` then state the two guarantees: the second because an entry younger
than TTL and fewer than `Size` recordings old is, by `IndexExact`, still there, so
`Seen` would have reported a duplicate. `IndexAlwaysExact` is the exact account itself.
`OneConnectionOnly` is about `Signal`: the loop dials only after the connection it read
was lost, and what it read was the newest one made, the only one that could be up
(`ReadsNewest`, `NewestAlive`); the adapter's own connection lags behind only while a
new one is being put in its place (`CurrentNewest`).

**RouterProofs.** `CacheInvariant`: `Spec => []CacheInv`. `CachedPromptCurrent`
depends on the turn that is building under the write lock having read the present
prompt or a command being about to evict (`BuilderPromptCurrent`), on the lock having
one holder (`LockDiscipline`), and settled turns on no command being pending
(`SettledMeansNoCommand`). `NoStaleAgent`, `SettledTurnsAnsweredUnderPrompt` and, as an
action property, `AgentsOnlyEvicted` follow. `ConversationsKept` needs more: that a turn
only ever holds an agent of its own user (`OwnAgents`), so that what agents remember is
of theirs (`OwnTurns`); that turns which are with one agent together are known to have overlapped
(`OverlapsKnown`); and that a turn which has been answered, and was alone with its agent,
stands in the agent's conversation with no more turns behind it than have been answered
since, or `MaxHistory` have, and likewise in what any turn then with the agent has seen
of it (`Remembered`). A settled turn keeps its agent because only a command evicts
(`SettledKeepsAgent`).
`PlansCorrect` says of planning mode that the calendar loses only by overlap. That is
not inductive: between loading and writing, a call's copy is what has been reported
changed by its own operation, but for the events of overlapping calls
(`CopyCurrent`), and of two calls between loading and writing each is marked as
overlapping (`OverlapsMarked`). `TornFileKept` needs only that a call on its way to
write has loaded a file that parses.

**HTTPServerProofs.** `ChainCorrect`: `Spec => []ChainInv` for one request by itself. The
strengthening says of the provider in hand that an attempt is left while it is tried
(`AttemptLeft`), that it is given up with an error that is final or has used up the
attempts (`GivenUp`), that a backoff follows a call (`Retried`), that only an answer
ends the request as answered (`AnswerEnds`), and why an error reaches the caller
(`Exhausted`). `ServedChainCorrect` is the same under the server: each of its steps is a
step of the chain, a stutter of it, or the start of the next request's.
`RefusalsCostNothing` goes by the stages of an exchange: what it may have spent or stored
is bounded by where its handler is (`Stages`), and refusals are answered before it is charged.
`HistoryTellsResponses` goes by everything the store ever took, which is only added to:
there no entry is twice and the question stands before the answer (`InOrder`), none is
before its handler stores it or after the request failed (`NotYetTaken`), and what an
answered exchange lacks the store refused (`AllAccounted`). The history is this without
a beginning, every entry of which was wiped (by a flush, a summary or the time to live),
or had its writing reported as failed, or has `MaxStored` newer ones behind it (`HeldInv`);
so whatever an answered exchange lacks is `Gone`.

**SummarizerProofs.** `JobsCorrect` and `NothingForgotten`. Neither `NothingToldTwice` nor
`ForgottenOnlyWithReason` is inductive: a turn's write tells nothing twice because
messages not yet stored are in no history and no job has read them (`UnsaidNowhere`); a
summary tells nothing twice because what a job has cleared and what came since are apart
(`SummaryApart`); and a clear loses nothing without a reason because all it finds was
read by the job or came in the window between (`WindowExcused`).

**ChannelProofs.** `QueueCorrect` adds to `QueueInv` that the stop begins after the start
has ended, that the queue is closed by its last step but one, and that the loop runs only
on a started channel: otherwise a callback could meet a queue closed by nobody.
`QueueImplementsInbox` is the step simulation: queueing maps to `Accept`, the return of
`Publish` to `Deliver`, `CloseQueue` to `Close`, every other step to a stutter; a
message in hand is the first one pending. `TeamsQueueCorrect` carries both over to the
composition with the replies, which hold up the loop but touch nothing of it.
`TokensLive` rests on the assumption that the margin is at least two timeouts (60 s and
15 s in the code): a token's life is counted from the answer though it began at the
request, so the adapter may hold it for one exchange too long (`LifeBegan`, `KeptMargin`),
and the post takes another (`PostInTime`).
For the WebSocket server, `AnswersWholeAndInOrder` follows a conversation: by the place
of its handler the client has the answers to all requests before the one in hand, and of
that one a beginning or the whole (`UpToDate`), of the kind the request calls for
(`RightPlace`). `NothingOfAborted`: a conversational request is stored or given up at one place,
and never taken up again (`Past`); one with tools or a plan has been stored whole before
its only chunk is relayed, and the property says so. `BudgetHolds` counts the handlers
that have paid for a turn and not begun it (`Paid`), of which there are finitely many even if
connections are not.

**GatewayProofs.** The invariant follows each message. It has one owner, the inbox or a
worker, and inboxes are in order of arrival (`Owned`); its events and chunks are exactly
those up to its worker's place (`EventsSoFar`, `ChunksSoFar`), none while it is queued
(`QueuedFresh`); of the messages with one key only one has passed the filter
(`KeysOnce`); a loop has sent nothing for messages behind its own (`SentInOrder`); and
a message is counted before it is listed (`ListedCounted`). `StatsAgree` is about the two
counters; of the list of recent messages the theorems say only `SnapshotCounts`. `EventsInOrder`,
`OrderlyReplies`, `StatsCount` and `SnapshotCovered` follow. They hold of any number of
channels, jobs and redeliveries, any preferences, and a list of any length.

**StoresProofs.** The rows are always the newest messages without a gap (`Contiguous`),
as each statement cuts off a prefix whatever other writers have done; what is gone was
wiped or has `MaxHistory` newer ones (`Covered`); and a Redis writer about to
acknowledge has set the expiry of the key it wrote to (`Expiring`). `StoresCorrect` and
`AcknowledgedIsKept` follow. `StoresKeepPromise` maps an insert to `Enter`, pruning and
wiping to `Leave`, the rest to stutters.

**LifecycleProofs.** `StopInvariant`: `Spec => []StopInv`. Until it gives up, the wait
group covers every receive loop (`LoopsCounted`) and the HTTP server
(`ServerCounted`); a server that is gone leaves no request unless it gave up draining
(`RequestsUnderServer`); after a wait that did not give up the group is empty
(`QuietAfterWait`); nothing runs before `Start` (`NotStarted`); and `Progress` says
what each step of the stop has released. `WaitedForBeforeClose`, `StopReleases` and,
as an action property, `NoLateRun` follow.

Only model-checked: all liveness (`EveryTurnEnds`, `GuardReleased`, `QueuedIsHandled`,
`LoopLives`, `RequestEnds`, `PlanEnds`, `EveryMessageHandled`, `ClosedHandlerEnds`,
`StopEnds`), as the prover has neither `ENABLED` nor fairness. Every invariant, action
property and refinement that a passing run checks is a theorem. No module declares a
RECURSIVE operator. Induction over data (what a fold or a recursive function returns for every
input) is out of the prover's reach; for that reason `Gateway` picks a reply's chunks by
their positions and not by a filter of the sequence, and proofs use of the library only
what its theorems state.

## 5. Divergences met

One is a run (`ChannelSendOnClosed`, section 3). Others, met while modelling, no run states:

* A duplicate may be processed again although it was seen within TTL: an expired key
  recorded again holds two ring slots, and the older slot's eviction removes the new
  entry (`gateway/deduplicator.go:54`; comment at line 38). The key of a message is its
  ID alone (`deduplicator.go:68`), and Telegram numbers messages per chat
  (`channels/telegram/telegram.go:117`): one with a number that was seen within TTL in
  another chat, or on another platform, is dropped as a duplicate. Messages without an ID that
  repeat a text within TTL are dropped though they are distinct.
* `retry_attempts: 0` means three attempts (`gateway/router.go:114`), where
  `config/config.go:104` says "0 = disabled"; and a non-retryable error falls back only
  when its text has one of three markers, where `config.go:106` says it does.
* Signal: a late send error overwrites the health a reconnect has just set; a dial that
  ends after `Disconnect` leaves its connection open (`signal.go:97`, comment at 103).
  A reply to a preferred channel other than the sender's goes to an address that is not
  one of that platform (`gateway.go:600`).
* `agent.completed` is published before the reply is delivered (`gateway.go:598`), the
  reverse of `docs/architecture.md:153-155`.
* A summary clears whatever was stored while the model wrote it, so it does not stand
  for the full history that `memory/summarizer.go:20-21` says it replaces; a flush
  during a summary is undone by it.
* A cached agent starts from its prompt alone: the stored history is not in its context
  (`gateway/router.go:546`), where `docs/architecture.md:146-147` says the router
  retrieves it and passes it with the message. What an agent does remember is what
  `OneConversation` says: of the turns of its user that it answered itself since it was
  built, and that ran beside no other, the newest `max_history` (`router.go:362`).
* `CHANGELOG.md:134` says that an agent per user cured the sharing of one that was not
  safe for concurrent use; turns of one user, over several channels or requests, still
  overlap on one agent, and what such a turn leaves in its memory is nobody's promise.
* A streamed request with tools or a plan is stored before its one chunk is relayed
  (`router.go:617-636`): when the relay fails the client has an error, or nothing, and
  the memory has question and answer. An error of the provider in the middle of a
  conversational stream just ends it (`router.go:693-727`): it is stored, and closed by a
  final frame, as if it had been complete.
* `channels/teams/teams.go:112` says that `Disconnect` drains the message queue; it closes
  it, and what is in it may stay there once the context is cancelled.
* Streamed completions are refused with 500 whenever they are asked for: the logging
  middleware's wrapper has no `Flush` (`http.go:995-1003`, check at 667), where the
  comment at `http.go:611` and `CHANGELOG.md:52` say the mode is supported. For the same
  reason, no `Hijack`, the dashboard's WebSocket (`docs/architecture.md:121`) is not upgraded.
* The API token and the dashboard password are both read from `Authorization`, so no
  request satisfies both when both are set; neither does a Teams activity its signature
  and the token, as `/channels/teams/messages` is on the same server (`start.go:145`).
* A refusal by the rate limiter is reported as 500 (`http.go:721`). An answer that takes
  longer than `WriteTimeout` (10 s, `http.go:890`) is stored although it is not
  delivered, and a client that asks again stores it twice.
* `stats.go:96` promises a "consistent point-in-time copy"; a snapshot may count
  messages its list lacks, though it never lists one it has not counted (`SnapshotCounts`).
* A planning step hands its prose to the tool (`agents/planning.go`), and the calendar
  takes JSON, so such a step fails as an unknown operation unless the plan is worded so.
* A calendar file cut short makes every later call fail (`PlanInv`, `TornKept`): nothing is
  lost further, and nothing repairs it.
* A Teams token that lives for no more than twice the client's timeout may expire on its
  way, and nothing tries again; `TokenLive` says that any other arrives valid.
* `gateway.go:378` logs that all goroutines have stopped while jobs, WebSocket handlers,
  summaries and requests the drain gave up on may still run.

## 6. What the models leave out

Text of any kind (prompts, formatting, chunk boundaries, JSON); costs; tracing;
similarity scores, for which `Stores` allows any order they could produce, and of the
library's vector memory asked without a query any selection; go-redis's retries of a
broken pipeline (in `Stores` such a retry is a failed call followed by another `Insert`;
elsewhere a write enters once at most); a second writer on Signal's connection
(`Disconnect` writes its Close frame beside a `SendMessage`, and the library allows one
writer at a time); the ReAct
branch of `ProcessMessage`, which differs from the planning one in the library that
calls the tools; how many calls of the model a turn makes (a plan one for itself and one
per free-form step, ReAct up to five, retries and fallbacks more), so that
`TurnsWithinBudget` is about turns, as the bucket is; attachments; platform payloads; event subscribers other than the
statistics; WebSocket requests of several users on one connection; crashes other than
in `Summarizer`, `Planning` and restarts in `Stores`.

Some properties bound what goes wrong in a window of the code rather than deny it:
`ForgottenOnlyWithReason` excuses the messages of the summarizer's windows,
`LostOnlyByOverlap` the events of overlapping calls, `QueuedIsHandled` what is in the
queue when the context is cancelled; they say that nothing else is lost. `ChainInv` does
not forbid an attempt for a caller who has left, as the code makes one (a first attempt is
not preceded by a look at the context), and takes the marker lists of `retryllm.go` and
`fallbackllm.go` as they are. Nothing checked depends on Signal's health, which a failed
write sets on a connection that is up as well.

Not modelled, and why: the body of a streamed completion and the dashboard hub, which are
never reached (section 5); the audit report and the skills reload, which read, or replace
one value; the tools other than the calendar, each one call to a library, a process or a
service with no state; configuration, formatting, chunk boundaries, BM25 and signatures,
pure functions of texts; observability, which nothing depends on.

## 7. Mutants

Each property of a passing run has a mutant in `PROJECT.json`: a definition of the model
changed as a plausible bug would change the code (a dropped re-check under the lock, an
uncounted goroutine, an off-by-one in the prune, a missing release), under which TLC
finds the property violated. The mutants stand before the definitions they replace.

## 8. Plan

Done: the modules of section 2 and the proofs of section 4. Next:

1. Proofs: of the abstract modules, what their users rely on (`History` keeps the newest,
   `Inbox` delivers what it has accepted unless closed), carried over to `Stores` and
   `Channel` through the refinements.
2. Composition: `Gateway` over `Channel` inboxes, and `Summarizer` over `Stores`.
