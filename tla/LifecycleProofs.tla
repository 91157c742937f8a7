-------------------------- MODULE LifecycleProofs ---------------------------
(***************************************************************************)
(* Proofs about the stop, for any sets of channels, jobs, requests,        *)
(* handlers, summaries and MCP servers.  The argument: until it gives up,  *)
(* the wait group covers every receive loop and the HTTP server, and a     *)
(* server that is gone has no request left unless it gave up draining; so  *)
(* an empty wait group means that no turn Stop answers for is running, and *)
(* none begins any more, as what begins turns is gone.                     *)
(***************************************************************************)
EXTENDS Lifecycle, TLAPS

AfterWait == {"scheduler", "clients", "return", "exit"}
AfterCancel == {"disconnect", "wait"} \cup AfterWait

\* The wait group covers the receive loops and the HTTP server.
LoopsCounted == \A c \in Channel : work[c] \in {"idle", "busy"} => c \in wg
ServerCounted == http \in {"starting", "serving", "draining"} => "http" \in wg

\* Requests run only under the server, which leaves none behind but by giving up.
RequestsUnderServer ==
  /\ gaveUp => http = "gone"
  /\ http \in {"off", "starting"} \/ (http = "gone" /\ ~gaveUp) =>
       \A r \in Request : work[r] # "busy"

\* Nothing runs before Start.
NotStarted ==
  pc \in {"load", "store", "tools", "mcp", "assemble", "register"} =>
    http = "off" /\ ws = "off" /\ work = [w \in Worker |-> "off"]

\* What is behind a wait that did not give up.
QuietAfterWait == pc \in AfterWait /\ ~timedOut => wg = {}

\* What the stop has released by the time it is at pc.
Progress ==
  /\ pc \in AfterCancel => cancelled
  /\ pc = "disconnect" => todo \cup disconnected = registered
  /\ pc \in {"wait"} \cup AfterWait => disconnected = registered
  /\ pc \in {"clients", "return", "exit"} => ticking = {}
  /\ pc = "clients" => todo = clients
  /\ pc \in {"return", "exit"} => clients = {} /\ store = "closed"

StopInv ==
  /\ TypeOK
  /\ LoopsCounted /\ ServerCounted /\ RequestsUnderServer
  /\ NotStarted /\ QuietAfterWait
  /\ Progress
  /\ ClosedUnderWaitedOnlyLate

-----------------------------------------------------------------------------
\* Nothing runs at first.
LEMMA InitStopInv == Init => StopInv
<1> SUFFICES ASSUME Init PROVE StopInv
  OBVIOUS
<1>1. TypeOK
  <2>1. cancelled \in BOOLEAN /\ timedOut \in BOOLEAN /\ gaveUp \in BOOLEAN
    BY DEF Init
  <2>2. work \in [Worker -> {"off", "idle", "busy", "gone"}] /\ turns \in 0..MaxTurns
    BY LifecycleAssumption DEF Init
  <2>3. QED
    BY <2>1, <2>2 DEF Init, TypeOK, Building, Stopping
<1>2. LoopsCounted /\ ServerCounted /\ RequestsUnderServer
  BY DEF Init, LoopsCounted, ServerCounted, RequestsUnderServer, Worker
<1>3. NotStarted /\ QuietAfterWait /\ Progress /\ ClosedUnderWaitedOnlyLate
  BY DEF Init, NotStarted, QuietAfterWait, Progress, ClosedUnderWaitedOnlyLate, AfterWait,
         AfterCancel
<1>4. QED
  BY <1>1, <1>2, <1>3 DEF StopInv

\* The steps of runStart that touch neither the workers nor the wait group.
MainAlone ==
  \/ Load \/ OpenStore \/ BuildTools \/ BuildRouter \/ Assemble \/ Notify
  \/ Signal \/ Cancel \/ BeginWait \/ WaitDone \/ WaitTimesOut
  \/ StopScheduler \/ CloseStore \/ Return
  \/ (\E s \in Server : ConnectServer(s) \/ CloseClient(s))
  \/ (\E c \in Channel : Register(c) \/ Disconnect(c))

\* They keep the state well typed.
LEMMA TypeMainAlone == TypeOK /\ Progress /\ MainAlone => TypeOK'
<1> SUFFICES ASSUME TypeOK, Progress, MainAlone PROVE TypeOK'
  OBVIOUS
<1> USE LifecycleAssumption DEF build, stop, run
<1>1. UNCHANGED <<wg, http, ws, work, turns, gaveUp, late>>
  BY DEF MainAlone, Load, OpenStore, BuildTools, BuildRouter, Assemble,
           Notify, Signal, Cancel, BeginWait, WaitDone, WaitTimesOut,
           StopScheduler, CloseStore, Return, ConnectServer, CloseClient,
           Register, Disconnect
<1>2. todo' \subseteq Server \cup Channel
  BY DEF TypeOK, MainAlone, Load, OpenStore, BuildTools, BuildRouter, Assemble,
           Notify, Signal, Cancel, BeginWait, WaitDone, WaitTimesOut,
           StopScheduler, CloseStore, Return, ConnectServer, CloseClient,
           Register, Disconnect
<1>3. /\ pc' \in Building \cup Stopping \cup {"running", "failed", "killed", "exit"}
      /\ store' \in {"none", "open", "closed"}
      /\ store' = "none" => pc' \in {"load", "store", "failed", "killed"}
      /\ store' = "closed" => pc' \in {"return", "exit"}
  BY DEF TypeOK, Building, Stopping, MainAlone, Load, OpenStore, BuildTools, BuildRouter, Assemble,
           Notify, Signal, Cancel, BeginWait, WaitDone, WaitTimesOut,
           StopScheduler, CloseStore, Return, ConnectServer, CloseClient,
           Register, Disconnect
<1>4. clients' \subseteq Server /\ ticking' \subseteq Job
  BY DEF TypeOK, Connected, MainAlone, Load, OpenStore, BuildTools, BuildRouter, Assemble,
           Notify, Signal, Cancel, BeginWait, WaitDone, WaitTimesOut,
           StopScheduler, CloseStore, Return, ConnectServer, CloseClient,
           Register, Disconnect
<1>5. disconnected' \subseteq registered' /\ registered' \subseteq Channel
  BY DEF TypeOK, Progress, MainAlone, Load, OpenStore, BuildTools, BuildRouter, Assemble,
           Notify, Signal, Cancel, BeginWait, WaitDone, WaitTimesOut,
           StopScheduler, CloseStore, Return, ConnectServer, CloseClient,
           Register, Disconnect
<1>6. CASE Cancel \/ WaitTimesOut
  <2>1. /\ cancelled' = cancelled \/ cancelled' = TRUE
        /\ timedOut' = timedOut \/ timedOut' = TRUE
    BY <1>6 DEF Cancel, WaitTimesOut
  <2>2. QED
    BY <2>1, <1>1, <1>2, <1>3, <1>4, <1>5 DEF TypeOK
<1>7. CASE UNCHANGED <<cancelled, timedOut>>
  BY <1>7, <1>1, <1>2, <1>3, <1>4, <1>5 DEF TypeOK
<1>8. QED
  BY <1>6, <1>7 DEF MainAlone, Load, OpenStore, BuildTools, BuildRouter, Assemble,
           Notify, Signal, Cancel, BeginWait, WaitDone, WaitTimesOut,
           StopScheduler, CloseStore, Return, ConnectServer, CloseClient,
           Register, Disconnect

\* They leave what the wait group covers alone; the wait ends with the group
\* empty or with timedOut.
LEMMA StepMainAlone == StopInv /\ MainAlone => StopInv'
<1> SUFFICES ASSUME StopInv, MainAlone PROVE StopInv'
  OBVIOUS
<1> USE DEF StopInv, build, stop, run
<1>0. UNCHANGED <<wg, http, ws, work, turns, gaveUp, late>>
  BY DEF MainAlone, Load, OpenStore, BuildTools, BuildRouter, Assemble,
           Notify, Signal, Cancel, BeginWait, WaitDone, WaitTimesOut,
           StopScheduler, CloseStore, Return, ConnectServer, CloseClient,
           Register, Disconnect
<1>1. TypeOK'
  BY TypeMainAlone
<1>2. LoopsCounted' /\ ServerCounted' /\ RequestsUnderServer'
  BY <1>0 DEF LoopsCounted, ServerCounted, RequestsUnderServer
<1>3. timedOut => timedOut'
  BY DEF MainAlone, Load, OpenStore, BuildTools, BuildRouter, Assemble,
           Notify, Signal, Cancel, BeginWait, WaitDone, WaitTimesOut,
           StopScheduler, CloseStore, Return, ConnectServer, CloseClient,
           Register, Disconnect
<1>4. ClosedUnderWaitedOnlyLate'
  BY <1>0, <1>3 DEF ClosedUnderWaitedOnlyLate
<1>5. Progress'
  <2>1. pc' \in AfterCancel => cancelled'
    <3>1. CASE Cancel
      BY <3>1 DEF Cancel
    <3>2. CASE ~Cancel
      <4>1. pc' \in AfterCancel => pc \in AfterCancel
        BY <3>2 DEF AfterCancel, AfterWait, MainAlone, Load, OpenStore, BuildTools, BuildRouter, Assemble,
           Notify, Signal, Cancel, BeginWait, WaitDone, WaitTimesOut,
           StopScheduler, CloseStore, Return, ConnectServer, CloseClient,
           Register, Disconnect
      <4>2. cancelled' = cancelled
        BY <3>2 DEF MainAlone, Load, OpenStore, BuildTools, BuildRouter, Assemble,
           Notify, Signal, Cancel, BeginWait, WaitDone, WaitTimesOut,
           StopScheduler, CloseStore, Return, ConnectServer, CloseClient,
           Register, Disconnect
      <4>3. QED
        BY <4>1, <4>2 DEF Progress
    <3>3. QED
      BY <3>1, <3>2
  <2>2. /\ pc' = "disconnect" => todo' \cup disconnected' = registered'
        /\ pc' \in {"wait"} \cup AfterWait => disconnected' = registered'
    BY DEF Progress, TypeOK, AfterWait, MainAlone, Load, OpenStore, BuildTools, BuildRouter, Assemble,
           Notify, Signal, Cancel, BeginWait, WaitDone, WaitTimesOut,
           StopScheduler, CloseStore, Return, ConnectServer, CloseClient,
           Register, Disconnect
  <2>3. /\ pc' \in {"clients", "return", "exit"} => ticking' = {}
        /\ pc' = "clients" => todo' = clients'
        /\ pc' \in {"return", "exit"} => clients' = {} /\ store' = "closed"
    BY DEF Progress, MainAlone, Load, OpenStore, BuildTools, BuildRouter, Assemble,
           Notify, Signal, Cancel, BeginWait, WaitDone, WaitTimesOut,
           StopScheduler, CloseStore, Return, ConnectServer, CloseClient,
           Register, Disconnect
  <2>4. QED
    BY <2>1, <2>2, <2>3 DEF Progress
<1>6. QuietAfterWait'
  BY <1>0 DEF QuietAfterWait, AfterWait, MainAlone, Load, OpenStore, BuildTools, BuildRouter, Assemble,
           Notify, Signal, Cancel, BeginWait, WaitDone, WaitTimesOut,
           StopScheduler, CloseStore, Return, ConnectServer, CloseClient,
           Register, Disconnect
<1>7. NotStarted'
  BY <1>0 DEF NotStarted, MainAlone, Load, OpenStore, BuildTools, BuildRouter, Assemble,
           Notify, Signal, Cancel, BeginWait, WaitDone, WaitTimesOut,
           StopScheduler, CloseStore, Return, ConnectServer, CloseClient,
           Register, Disconnect
<1>8. QED
  BY <1>1, <1>2, <1>4, <1>5, <1>6, <1>7

-----------------------------------------------------------------------------
\* Starting the servers counts them.
LEMMA StepStartServers == StopInv /\ StartServers => StopInv'
<1> SUFFICES ASSUME StopInv, StartServers PROVE StopInv'
  OBVIOUS
<1> USE LifecycleAssumption DEF StopInv, StartServers, build, stop
<1>1. TypeOK'
  BY DEF TypeOK, Building, Stopping
<1>2. LoopsCounted' /\ ServerCounted' /\ RequestsUnderServer'
  BY DEF LoopsCounted, ServerCounted, RequestsUnderServer, NotStarted, TypeOK, Worker
<1>3. NotStarted' /\ QuietAfterWait' /\ Progress' /\ ClosedUnderWaitedOnlyLate'
  BY DEF NotStarted, QuietAfterWait, Progress, ClosedUnderWaitedOnlyLate, AfterWait, AfterCancel
<1>4. QED
  BY <1>1, <1>2, <1>3

\* A receive loop is counted as it starts.
LEMMA StepStartChannel ==
  ASSUME StopInv, NEW c \in Channel, StartChannel(c)
  PROVE  StopInv'
<1> USE LifecycleAssumption DEF StopInv, StartChannel, build, stop, Worker
<1>1. TypeOK'
  <2>1. work' \in [Worker -> {"off", "idle", "busy", "gone"}]
    BY DEF TypeOK
  <2>2. wg' \subseteq {"http", "ws"} \cup Channel
    <3> DEFINE Counted == {"http", "ws"} \cup Channel
    <3>1. wg \subseteq Counted /\ c \in Counted
      BY DEF TypeOK
    <3>2. wg' = wg \/ wg' = wg \cup {c}
      OBVIOUS
    <3> HIDE DEF Counted
    <3>3. wg' \subseteq Counted
      BY <3>1, <3>2
    <3>4. QED
      BY <3>3 DEF Counted
  <2>3. \A d \in Channel : d \in wg' => work'[d] \in {"idle", "busy"}
    BY DEF TypeOK
  <2>4. QED
    BY <2>1, <2>2, <2>3 DEF TypeOK
<1>2. LoopsCounted' /\ ServerCounted' /\ RequestsUnderServer'
  BY DEF LoopsCounted, ServerCounted, RequestsUnderServer, TypeOK
<1>3. NotStarted' /\ QuietAfterWait' /\ Progress' /\ ClosedUnderWaitedOnlyLate'
  BY DEF NotStarted, QuietAfterWait, Progress, ClosedUnderWaitedOnlyLate, AfterWait, AfterCancel
<1>4. QED
  BY <1>1, <1>2, <1>3

\* The jobs' goroutines are nothing the wait group covers.
LEMMA StepStartScheduler == StopInv /\ StartScheduler => StopInv'
<1> SUFFICES ASSUME StopInv, StartScheduler PROVE StopInv'
  OBVIOUS
<1> USE LifecycleAssumption DEF StopInv, StartScheduler, build, stop, Worker
<1>1. TypeOK'
  BY DEF TypeOK, Building, Stopping
<1>2. LoopsCounted' /\ ServerCounted' /\ RequestsUnderServer'
  BY DEF LoopsCounted, ServerCounted, RequestsUnderServer, TypeOK
<1>3. NotStarted' /\ QuietAfterWait' /\ Progress' /\ ClosedUnderWaitedOnlyLate'
  BY DEF NotStarted, QuietAfterWait, Progress, ClosedUnderWaitedOnlyLate, AfterWait, AfterCancel
<1>4. QED
  BY <1>1, <1>2, <1>3

-----------------------------------------------------------------------------
\* The servers begin, drain and end; only the HTTP server's end takes it out of
\* the wait group, and gaveUp records what it leaves behind.
LEMMA StepServers ==
  ASSUME StopInv, Listen \/ WSListens \/ Drain \/ Drained \/ WSStops
  PROVE  StopInv'
<1> USE LifecycleAssumption DEF StopInv, build, stop
<1>0. UNCHANGED <<pc, todo, build, stop, work, turns, late>>
  BY DEF Listen, WSListens, Drain, Drained, WSStops
<1>1. TypeOK'
  <2>1. gaveUp' \in BOOLEAN
    BY DEF TypeOK, Listen, WSListens, Drain, Drained, WSStops
  <2>2. wg' \subseteq wg
    BY DEF Listen, WSListens, Drain, Drained, WSStops
  <2>3. /\ http' \in {"off", "starting", "serving", "draining", "gone"}
        /\ ws' \in {"off", "starting", "serving", "gone"}
    BY DEF TypeOK, Listen, WSListens, Drain, Drained, WSStops
  <2>4. QED
    BY <1>0, <2>1, <2>2, <2>3 DEF TypeOK
<1>2. LoopsCounted'
  BY <1>0 DEF LoopsCounted, Listen, WSListens, Drain, Drained, WSStops
<1>3. ServerCounted'
  BY DEF ServerCounted, Listen, WSListens, Drain, Drained, WSStops
<1>4. RequestsUnderServer'
  <2>1. CASE Drained
    BY <2>1, <1>0 DEF RequestsUnderServer, Drained
  <2>2. CASE Listen \/ WSListens \/ Drain \/ WSStops
    <3>1. gaveUp' = gaveUp
      BY <2>2 DEF Listen, WSListens, Drain, WSStops
    <3>2. QED
      BY <2>2, <3>1, <1>0
      DEF RequestsUnderServer, Listen, WSListens, Drain, WSStops
  <2>3. QED
    BY <2>1, <2>2
<1>5. NotStarted' /\ QuietAfterWait' /\ Progress'
  BY <1>0 DEF NotStarted, QuietAfterWait, Progress, AfterWait, AfterCancel, Listen,
              WSListens, Drain, Drained, WSStops
<1>6. ClosedUnderWaitedOnlyLate'
  BY <1>0 DEF ClosedUnderWaitedOnlyLate, RequestsUnderServer, Listen, WSListens, Drain,
              Drained, WSStops
<1>7. QED
  BY <1>1, <1>2, <1>3, <1>4, <1>5, <1>6

\* A turn begins with a receive loop that is counted, or with a server that is.
LEMMA StepBeginTurn ==
  ASSUME StopInv, NEW w \in Worker, BeginTurn(w)
  PROVE  StopInv'
<1> USE LifecycleAssumption DEF StopInv, BeginTurn, build, stop, Worker
<1>1. TypeOK'
  BY DEF TypeOK
<1>2. LoopsCounted' /\ ServerCounted' /\ RequestsUnderServer'
  BY DEF LoopsCounted, ServerCounted, RequestsUnderServer, TypeOK
<1>3. NotStarted' /\ QuietAfterWait' /\ Progress' /\ ClosedUnderWaitedOnlyLate'
  BY DEF NotStarted, QuietAfterWait, Progress, ClosedUnderWaitedOnlyLate, AfterWait, AfterCancel
<1>4. QED
  BY <1>1, <1>2, <1>3

\* A loop leaves the wait group as it ends.
LEMMA StepLeave ==
  ASSUME StopInv,
         (\E c \in Channel : LoopLeaves(c)) \/ (\E j \in Job : JobLeaves(j))
  PROVE  StopInv'
<1> USE LifecycleAssumption DEF StopInv, LoopLeaves, JobLeaves, build, stop, Worker
<1>1. TypeOK'
  <2>1. work' \in [Worker -> {"off", "idle", "busy", "gone"}]
    BY DEF TypeOK
  <2>2. wg' \subseteq {"http", "ws"} \cup Channel
    <3>1. wg' \subseteq wg
      OBVIOUS
    <3>2. wg \subseteq {"http", "ws"} \cup Channel
      BY DEF TypeOK
    <3>3. QED
      BY <3>1, <3>2
  <2>3. \A d \in Channel : d \in wg' => work'[d] \in {"idle", "busy"}
    BY DEF TypeOK
  <2>4. QED
    BY <2>1, <2>2, <2>3 DEF TypeOK
<1>2. LoopsCounted' /\ ServerCounted' /\ RequestsUnderServer'
  BY DEF LoopsCounted, ServerCounted, RequestsUnderServer, TypeOK
<1>3. NotStarted' /\ QuietAfterWait' /\ Progress' /\ ClosedUnderWaitedOnlyLate'
  BY DEF NotStarted, QuietAfterWait, Progress, ClosedUnderWaitedOnlyLate, AfterWait, AfterCancel
<1>4. QED
  BY <1>1, <1>2, <1>3

\* A turn that ends on a closed store is a receive loop's or a request's only if
\* the wait group was not empty when the store went, or the drain gave up.
LEMMA StepEndTurn ==
  ASSUME StopInv, NEW w \in Worker, EndTurn(w)
  PROVE  StopInv'
<1> USE LifecycleAssumption DEF StopInv, EndTurn, After, build, stop, Worker
<1>1. TypeOK'
  BY DEF TypeOK
<1>2. LoopsCounted' /\ ServerCounted' /\ RequestsUnderServer'
  BY DEF LoopsCounted, ServerCounted, RequestsUnderServer, TypeOK
<1>3. NotStarted' /\ QuietAfterWait' /\ Progress'
  BY DEF NotStarted, QuietAfterWait, Progress, AfterWait, AfterCancel
<1>4. store = "closed" /\ ~timedOut => wg = {}
  BY DEF TypeOK, QuietAfterWait, AfterWait
<1>5. store = "closed" /\ w \in Channel => timedOut
  BY <1>4 DEF LoopsCounted
<1>6. store = "closed" /\ w \in Request => timedOut \/ gaveUp
  BY <1>4 DEF ServerCounted, RequestsUnderServer, TypeOK
<1>7. ClosedUnderWaitedOnlyLate'
  BY <1>5, <1>6 DEF ClosedUnderWaitedOnlyLate
<1>8. QED
  BY <1>1, <1>2, <1>3, <1>7

-----------------------------------------------------------------------------
\* The inductive invariant of start and stop (gateway.go:300-400): types, the
\* wait group's coverage, and what the stop has released so far.
THEOREM StopInvariant == Spec => []StopInv
<1>1. StopInv /\ [Next]_vars => StopInv'
  <2> SUFFICES ASSUME StopInv, [Next]_vars PROVE StopInv'
    OBVIOUS
  <2>1. CASE MainAlone
    BY <2>1, StepMainAlone
  <2>2. CASE StartServers \/ StartScheduler \/ (\E c \in Channel : StartChannel(c))
    BY <2>2, StepStartServers, StepStartScheduler, StepStartChannel
  <2>3. CASE Others
    BY <2>3, StepServers, StepBeginTurn, StepEndTurn, StepLeave DEF Others
  <2>4. CASE UNCHANGED vars
    BY <2>4 DEF vars, StopInv, TypeOK, LoopsCounted, ServerCounted,
                RequestsUnderServer, NotStarted, QuietAfterWait, Progress,
                ClosedUnderWaitedOnlyLate
  <2>5. QED
    BY <2>1, <2>2, <2>3, <2>4 DEF Next, Main, MainAlone
<1>2. QED
  BY <1>1, InitStopInv, PTL DEF Spec

\* A receive loop's turn meets a closed store only after the shutdown timeout, an
\* HTTP request's only after that or after the server gave up draining.
THEOREM WaitedForBeforeClose == Spec => []ClosedUnderWaitedOnlyLate
BY StopInvariant, PTL DEF StopInv

\* A stop that returns has released everything, whatever failed on the way.
THEOREM StopReleases == Spec => []StopReleasesAll
<1>1. StopInv => StopReleasesAll
  BY DEF StopInv, Progress, StopReleasesAll, AfterCancel, AfterWait
<1>2. QED
  BY <1>1, StopInvariant, PTL

\* Once the scheduler has stopped its tickers no cron job begins another run.
THEOREM NoLateRun == Spec => NoRunAfterSchedulerStop
<1> DEFINE Quiet ==
      \A j \in Job : work[j] = "idle" /\ work'[j] = "busy" =>
                      pc \notin {"clients", "return", "exit"}
<1>1. StopInv /\ [Next]_vars => [Quiet]_vars
  <2> SUFFICES ASSUME StopInv, [Next]_vars, ~UNCHANGED vars,
                      NEW j \in Job, work[j] = "idle", work'[j] = "busy"
               PROVE  pc \notin {"clients", "return", "exit"}
    OBVIOUS
  <2> USE LifecycleAssumption DEF StopInv, TypeOK, Worker
  <2>1. CASE MainAlone
    <3>1. work' = work
      BY <2>1 DEF build, stop, run, MainAlone, Load, OpenStore, BuildTools, BuildRouter, Assemble,
           Notify, Signal, Cancel, BeginWait, WaitDone, WaitTimesOut,
           StopScheduler, CloseStore, Return, ConnectServer, CloseClient,
           Register, Disconnect
    <3>2. QED
      BY <3>1
  <2>2. CASE StartServers \/ StartScheduler \/ (\E c \in Channel : StartChannel(c))
    BY <2>2 DEF StartServers, StartScheduler, StartChannel
  <2>3. ASSUME NEW w \in Worker, BeginTurn(w)
        PROVE  pc \notin {"clients", "return", "exit"}
    <3>1. w = j
      BY <2>3 DEF BeginTurn
    <3>2. j \in ticking
      BY <2>3, <3>1 DEF BeginTurn
    <3>3. QED
      BY <3>2 DEF Progress
  <2>4. ASSUME NEW w \in Worker, EndTurn(w) PROVE FALSE
    BY <2>4 DEF EndTurn, After
  <2>5. CASE \/ Listen \/ WSListens \/ Drain \/ Drained \/ WSStops
             \/ (\E c \in Channel : LoopLeaves(c)) \/ (\E i \in Job : JobLeaves(i))
    <3>1. CASE Listen \/ WSListens \/ Drain \/ Drained \/ WSStops
      BY <3>1 DEF Listen, WSListens, Drain, Drained, WSStops
    <3>2. ASSUME NEW w \in Worker, work' = [work EXCEPT ![w] = "gone"] PROVE FALSE
      <4>1. work \in [Worker -> {"off", "idle", "busy", "gone"}] /\ j \in Worker
        OBVIOUS
      <4>2. work'[j] = work[j] \/ work'[j] = "gone"
        BY <3>2, <4>1
      <4>3. QED
        BY <4>2
    <3>3. CASE (\E c \in Channel : LoopLeaves(c)) \/ (\E i \in Job : JobLeaves(i))
      BY <3>2, <3>3 DEF LoopLeaves, JobLeaves
    <3>4. QED
      BY <2>5, <3>1, <3>3
  <2>6. QED
    BY <2>1, <2>2, <2>3, <2>4, <2>5 DEF Next, Main, MainAlone, Others
<1>2. QED
  BY <1>1, StopInvariant, PTL DEF Spec, NoRunAfterSchedulerStop
=============================================================================
