----------------------------- MODULE Lifecycle ------------------------------
(***************************************************************************)
(* From the command line to the end of the process                         *)
(* (cmd/bucktooth/cmd/start.go, internal/gateway/gateway.go,               *)
(* internal/cron/scheduler.go, HTTPServer.Start): how the gateway is put   *)
(* together, what goroutines it starts, which of them Stop waits for, and  *)
(* who still uses the memory store when Stop closes it.                    *)
(*                                                                         *)
(* A worker is a goroutine that runs agent turns: a channel's receive      *)
(* loop, a cron job, an HTTP request, a WebSocket handler, a summary job.  *)
(* The last thing a turn does is to use the memory store; what else it     *)
(* does is in Gateway, AgentCache, Stream and Summarizer.  The WebSocket   *)
(* server's connections are in Stream.                                     *)
(***************************************************************************)
EXTENDS Naturals, FiniteSets

CONSTANTS
  Channel,   \* the channels the configuration enables
  Skippable, \* those that are skipped when their settings are missing
  Server,    \* the MCP servers it lists
  Job,       \* its enabled cron jobs
  Request, Socket, Summary, \* HTTP requests, WebSocket handlers, summary jobs
  MaxTurns   \* bound: turns begun

Worker == Channel \cup Job \cup Request \cup Socket \cup Summary

ASSUME LifecycleAssumption ==
  /\ MaxTurns \in Nat
  /\ Skippable \subseteq Channel
  /\ "http" \notin Channel /\ "ws" \notin Channel
  /\ Channel \cap (Job \cup Request \cup Socket \cup Summary) = {}
  /\ Request \cap (Job \cup Socket \cup Summary) = {}
  /\ Summary \cap (Job \cup Socket) = {}
  /\ Job \cap Socket = {}

VARIABLES
  pc,           \* where runStart is
  todo,         \* what the loop it is in has left
  store,        \* the memory store: "none", "open" or "closed"
  clients,      \* MCP clients open
  ticking,      \* jobs whose ticker runs
  registered, disconnected, \* channels
  cancelled,    \* the gateway's context
  wg,           \* goroutines the gateway's wait group counts
  http, ws,     \* the servers
  work,         \* worker -> "off", "idle", "busy" or "gone"
  turns,        \* turns begun
  timedOut, gaveUp, \* history: Stop's wait, the HTTP server's drain gave up
  late          \* history: workers that used the store once it was closed

vars == <<pc, todo, store, clients, ticking, registered, disconnected, cancelled,
          wg, http, ws, work, turns, timedOut, gaveUp, late>>

\* What runStart keeps, and what the workers keep.
build == <<store, clients, ticking, registered>>
stop == <<disconnected, cancelled, timedOut>>
run == <<wg, http, ws, work, turns, gaveUp, late>>

Init ==
  /\ pc = "load" /\ todo = {}
  /\ store = "none" /\ clients = {} /\ ticking = {}
  /\ registered = {} /\ disconnected = {}
  /\ cancelled = FALSE
  /\ wg = {} /\ http = "off" /\ ws = "off"
  /\ work = [w \in Worker |-> "off"]
  /\ turns = 0
  /\ timedOut = FALSE /\ gaveUp = FALSE /\ late = {}

Building == {"load", "store", "tools", "mcp", "assemble", "register", "channels",
             "notify"}

\* main has returned, or the signal has ended the process: no goroutine runs.
Ended == pc \in {"failed", "killed", "exit"}

-----------------------------------------------------------------------------
\* The configuration is read, the log and the tracer are set up.
Load ==
  /\ pc = "load"
  /\ pc' \in {"store", "failed"}
  /\ UNCHANGED <<todo, build, stop, run>>

\* The memory store the configuration names; an unknown name, or a database
\* that does not answer, ends the start.
OpenStore ==
  /\ pc = "store"
  /\ \/ pc' = "tools" /\ store' = "open"
     \/ pc' = "failed" /\ UNCHANGED store
  /\ UNCHANGED <<todo, clients, ticking, registered, stop, run>>

BuildTools ==
  /\ pc = "tools"
  /\ \/ pc' = "mcp" /\ todo' = Server
     \/ pc' = "failed" /\ UNCHANGED todo
  /\ UNCHANGED <<build, stop, run>>

\* The clients open after an attempt to connect to s: it is open when its tools
\* could be listed, and not or no longer when anything failed.
Connected(s) == {clients, clients \cup {s}}

\* A server that cannot be used is logged and skipped.
ConnectServer(s) ==
  /\ pc = "mcp" /\ s \in todo
  /\ todo' = todo \ {s}
  /\ clients' \in Connected(s)
  /\ UNCHANGED <<pc, store, ticking, registered, stop, run>>

\* The agent router with its model chain and skills.  An error from here on
\* leaves the store and the clients as they are to the end of the process.
BuildRouter ==
  /\ pc = "mcp" /\ todo = {}
  /\ pc' \in {"assemble", "failed"}
  /\ UNCHANGED <<todo, build, stop, run>>

\* All that is wired to it; among it the scheduler, whose tickers run from here
\* on and whose schedules may be wrong.
Assemble ==
  /\ pc = "assemble"
  /\ \/ pc' = "register" /\ todo' = Channel /\ ticking' = Job
     \/ pc' = "failed" /\ UNCHANGED <<todo, ticking>>
  /\ UNCHANGED <<store, clients, registered, stop, run>>

\* An enabled channel that cannot be built ends the start; Signal without its
\* settings is left out.
Register(c) ==
  /\ pc = "register" /\ c \in todo
  /\ \/ UNCHANGED pc /\ todo' = todo \ {c} /\ registered' = registered \cup {c}
     \/ c \in Skippable /\ UNCHANGED <<pc, registered>> /\ todo' = todo \ {c}
     \/ pc' = "failed" /\ UNCHANGED <<todo, registered>>
  /\ UNCHANGED <<store, clients, ticking, stop, run>>

\* Gateway.Start: the servers' goroutines first.
StartServers ==
  /\ pc = "register" /\ todo = {}
  /\ pc' = "channels" /\ todo' = Channel
  /\ wg' = {"http", "ws"} /\ http' = "starting" /\ ws' = "starting"
  /\ UNCHANGED <<build, stop, work, turns, gaveUp, late>>

\* Mutants of StartChannel: the receive loop is not counted.
StartChannelUncounted(c) ==
  /\ pc = "channels" /\ c \in todo
  /\ todo' = todo \ {c}
  /\ \/ c \in registered /\ work' = [work EXCEPT ![c] = "idle"]
     \/ UNCHANGED work
  /\ UNCHANGED <<pc, build, stop, wg, http, ws, turns, gaveUp, late>>

\* A channel that is registered and connects gets its receive loop; one that is
\* not, or fails to connect, is passed over.
StartChannel(c) ==
  /\ pc = "channels" /\ c \in todo
  /\ todo' = todo \ {c}
  /\ \/ /\ c \in registered
        /\ wg' = wg \cup {c}
        /\ work' = [work EXCEPT ![c] = "idle"]
     \/ UNCHANGED <<wg, work>>
  /\ UNCHANGED <<pc, build, stop, http, ws, turns, gaveUp, late>>

StartScheduler ==
  /\ pc = "channels" /\ todo = {}
  /\ pc' = "notify"
  /\ work' = [w \in Worker |-> IF w \in Job THEN "idle" ELSE work[w]]
  /\ UNCHANGED <<todo, build, stop, wg, http, ws, turns, gaveUp, late>>

Notify ==
  /\ pc = "notify"
  /\ pc' = "running"
  /\ UNCHANGED <<todo, build, stop, run>>

\* An interrupt: before signal.Notify it kills the process, then it begins the
\* stop; one that comes during the stop stays in the channel.
Signal ==
  /\ \/ pc = "running" /\ pc' = "stop"
     \/ pc \in Building /\ pc' = "killed"
  /\ UNCHANGED <<todo, build, stop, run>>

-----------------------------------------------------------------------------
\* Gateway.Stop.
Cancel ==
  /\ pc = "stop"
  /\ pc' = "disconnect" /\ todo' = registered
  /\ cancelled' = TRUE
  /\ UNCHANGED <<build, disconnected, timedOut, run>>

\* A mutant: the first channel that fails to disconnect ends the loop.
DisconnectOrBreak(c) ==
  /\ pc = "disconnect" /\ c \in todo
  /\ \/ todo' = todo \ {c} /\ disconnected' = disconnected \cup {c}
     \/ todo' = {} /\ UNCHANGED disconnected
  /\ UNCHANGED <<pc, build, cancelled, timedOut, run>>

\* Every registered channel, connected or not; a failure is logged.
Disconnect(c) ==
  /\ pc = "disconnect" /\ c \in todo
  /\ todo' = todo \ {c}
  /\ disconnected' = disconnected \cup {c}
  /\ UNCHANGED <<pc, build, cancelled, timedOut, run>>

BeginWait ==
  /\ pc = "disconnect" /\ todo = {}
  /\ pc' = "wait"
  /\ UNCHANGED <<todo, build, stop, run>>

WaitDone ==
  /\ pc = "wait" /\ wg = {}
  /\ pc' = "scheduler"
  /\ UNCHANGED <<todo, build, stop, run>>

\* A mutant: the wait has no limit.
NeverTimesOut == WaitDone

\* ShutdownTimeout passes first.
WaitTimesOut ==
  /\ pc = "wait"
  /\ pc' = "scheduler"
  /\ timedOut' = TRUE
  /\ UNCHANGED <<todo, build, disconnected, cancelled, run>>

\* A mutant: the goroutines are told to stop, the tickers go on.
StopSchedulerKeepsTickers ==
  /\ pc = "scheduler"
  /\ pc' = "clients" /\ todo' = clients
  /\ UNCHANGED <<build, stop, run>>

\* The jobs' tickers stop and their goroutines are told to; none is waited for.
StopScheduler ==
  /\ pc = "scheduler"
  /\ pc' = "clients" /\ todo' = clients
  /\ ticking' = {}
  /\ UNCHANGED <<store, clients, registered, stop, run>>

CloseClient(s) ==
  /\ pc = "clients" /\ s \in todo
  /\ todo' = todo \ {s}
  /\ clients' = clients \ {s}
  /\ UNCHANGED <<pc, store, ticking, registered, stop, run>>

\* The router has nothing to close; the store is closed and main returns once
\* Stop does.
CloseStore ==
  /\ pc = "clients" /\ todo = {}
  /\ pc' = "return"
  /\ store' = "closed"
  /\ UNCHANGED <<todo, clients, ticking, registered, stop, run>>

Return ==
  /\ pc = "return"
  /\ pc' = "exit"
  /\ UNCHANGED <<todo, build, stop, run>>

-----------------------------------------------------------------------------
\* A server listens, or cannot and its goroutine ends: the gateway runs on
\* without it.
Listen ==
  /\ http = "starting"
  /\ \/ http' = "serving" /\ UNCHANGED wg
     \/ http' = "gone" /\ wg' = wg \ {"http"}
  /\ UNCHANGED <<pc, todo, build, stop, ws, work, turns, gaveUp, late>>

WSListens ==
  /\ ws = "starting"
  /\ \/ ws' = "serving" /\ UNCHANGED wg
     \/ ws' = "gone" /\ wg' = wg \ {"ws"}
  /\ UNCHANGED <<pc, todo, build, stop, http, work, turns, gaveUp, late>>

\* The context is cancelled: no new requests.
Drain ==
  /\ http \in {"starting", "serving"}
  /\ cancelled
  /\ http' = "draining"
  /\ UNCHANGED <<pc, todo, build, stop, wg, ws, work, turns, gaveUp, late>>

\* Shutdown waits for the requests under way, five seconds at most.
Drained ==
  /\ http = "draining"
  /\ gaveUp' = \E r \in Request : work[r] = "busy"
  /\ http' = "gone"
  /\ wg' = wg \ {"http"}
  /\ UNCHANGED <<pc, todo, build, stop, ws, work, turns, late>>

\* The WebSocket server closes its connections; their handlers are hijacked
\* and Shutdown does not wait for them.
WSStops ==
  /\ ws \in {"starting", "serving"}
  /\ cancelled
  /\ ws' = "gone"
  /\ wg' = wg \ {"ws"}
  /\ UNCHANGED <<pc, todo, build, stop, http, work, turns, gaveUp, late>>

-----------------------------------------------------------------------------
\* A worker takes a message: a loop or a job from its channel or ticker, also
\* when its context is already cancelled, as select chooses among what is
\* ready; a request or a handler while its server takes connections.
BeginTurn(w) ==
  /\ turns < MaxTurns
  /\ \/ w \in Channel /\ work[w] = "idle"
     \/ w \in Job /\ work[w] = "idle" /\ w \in ticking
     \/ w \in Request /\ work[w] = "off" /\ http = "serving"
     \/ w \in Socket /\ work[w] = "off" /\ ws = "serving"
  /\ work' = [work EXCEPT ![w] = "busy"]
  /\ turns' = turns + 1
  /\ UNCHANGED <<pc, todo, build, stop, wg, http, ws, gaveUp, late>>

\* A receive loop sees the cancelled context, or its closed queue, between two
\* messages.
LoopLeaves(c) ==
  /\ work[c] = "idle"
  /\ cancelled
  /\ wg' = wg \ {c}
  /\ work' = [work EXCEPT ![c] = "gone"]
  /\ UNCHANGED <<pc, todo, build, stop, http, ws, turns, gaveUp, late>>

JobLeaves(j) ==
  /\ work[j] = "idle"
  /\ cancelled
  /\ work' = [work EXCEPT ![j] = "gone"]
  /\ UNCHANGED <<pc, todo, build, stop, wg, http, ws, turns, gaveUp, late>>

After(w) == IF w \in Channel \cup Job THEN "idle" ELSE "off"

\* A turn's, or a summary's, last use of the store.  A turn may leave a summary
\* job behind.
EndTurn(w) ==
  /\ work[w] = "busy"
  /\ late' = IF store = "closed" THEN late \cup {w} ELSE late
  /\ \/ work' = [work EXCEPT ![w] = After(w)]
     \/ \E k \in Summary :
          /\ w \notin Summary /\ work[k] = "off"
          /\ work' = [work EXCEPT ![w] = After(w), ![k] = "busy"]
  /\ UNCHANGED <<pc, todo, build, stop, wg, http, ws, turns, gaveUp>>

Main ==
  \/ Load \/ OpenStore \/ BuildTools \/ BuildRouter \/ Assemble \/ StartServers
  \/ StartScheduler \/ Notify \/ Cancel \/ BeginWait \/ WaitDone \/ WaitTimesOut
  \/ StopScheduler \/ CloseStore \/ Return
  \/ \E s \in Server : ConnectServer(s) \/ CloseClient(s)
  \/ \E c \in Channel : Register(c) \/ StartChannel(c) \/ Disconnect(c)

Others ==
  /\ ~Ended
  /\ \/ Listen \/ WSListens \/ Drain \/ Drained \/ WSStops
     \/ \E w \in Worker : BeginTurn(w) \/ EndTurn(w)
     \/ \E c \in Channel : LoopLeaves(c)
     \/ \E j \in Job : JobLeaves(j)

Next == Main \/ Signal \/ Others

Spec == Init /\ [][Next]_vars

\* runStart's own steps run; no goroutine is relied on, not even to end its
\* turn, as a model call may last longer than the shutdown timeout.
FairSpec == Spec /\ WF_vars(Main)

-----------------------------------------------------------------------------
Stopping == {"stop", "disconnect", "wait", "scheduler", "clients", "return"}

\* Type correctness, and what exists when: the store from its opening on, the
\* gateway's goroutines from Start on.
TypeOK ==
  /\ pc \in Building \cup Stopping \cup {"running", "failed", "killed", "exit"}
  /\ todo \subseteq Server \cup Channel
  /\ store \in {"none", "open", "closed"}
  /\ store = "none" => pc \in {"load", "store", "failed", "killed"}
  /\ store = "closed" => pc \in {"return", "exit"}
  /\ clients \subseteq Server /\ ticking \subseteq Job
  /\ disconnected \subseteq registered /\ registered \subseteq Channel
  /\ cancelled \in BOOLEAN /\ timedOut \in BOOLEAN /\ gaveUp \in BOOLEAN
  /\ wg \subseteq {"http", "ws"} \cup Channel
  /\ \A c \in Channel : c \in wg => work[c] \in {"idle", "busy"}
  /\ http \in {"off", "starting", "serving", "draining", "gone"}
  /\ ws \in {"off", "starting", "serving", "gone"}
  /\ work \in [Worker -> {"off", "idle", "busy", "gone"}]
  /\ turns \in 0..MaxTurns
  /\ late \subseteq Worker

\* Stop closes the store under the goroutines it waits for only when it has
\* stopped waiting: a receive loop's turn meets a closed store only after the
\* shutdown timeout, an HTTP request's only after that or after the server gave
\* up draining.  Cron jobs, WebSocket handlers and summaries are not waited for.
ClosedUnderWaitedOnlyLate ==
  /\ late \cap Channel # {} => timedOut
  /\ late \cap Request # {} => timedOut \/ gaveUp

\* Whatever failed on the way, a stop that returns has cancelled the context,
\* asked every registered channel to disconnect, closed every MCP client that
\* was kept and the store, and stopped the tickers.
StopReleasesAll ==
  pc = "exit" =>
    /\ cancelled
    /\ disconnected = registered
    /\ clients = {} /\ ticking = {}
    /\ store = "closed"

\* A cron job does not begin another run once the scheduler has been stopped,
\* although its goroutine may not have seen yet that it is to leave.
NoRunAfterSchedulerStop ==
  [][\A j \in Job :
       work[j] = "idle" /\ work'[j] = "busy" =>
         pc \notin {"clients", "return", "exit"}]_vars

\* Once it has the signal, the process ends, however long its turns take.
StopEnds == pc = "stop" ~> pc = "exit"
=============================================================================
