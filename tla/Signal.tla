------------------------------- MODULE Signal -------------------------------
(***************************************************************************)
(* The Signal adapter (internal/channels/signal/signal.go), from a         *)
(* successful Connect on: its receive loop reads from the WebSocket to     *)
(* signal-cli and dials again when it is lost, replies are sent over the   *)
(* same connection, and Stop disconnects the adapter.  All three run       *)
(* concurrently and share the connection, the connected flag, the health   *)
(* status and the queue.                                                   *)
(***************************************************************************)
EXTENDS Naturals, FiniteSets

CONSTANTS
  MaxConns,   \* bound: connections dialled
  MaxMessages \* bound: messages received

ASSUME SignalAssumption == MaxConns \in Nat \ {0} /\ MaxMessages \in Nat

Conn == 1..MaxConns
NoConn == 0

VARIABLES
  dialled,    \* connections made so far: numbered 1, 2, ...
  alive,      \* the connections that are up
  conn,       \* the adapter's current connection
  connected, health, \* what IsConnected and Health report
  closed,     \* the queue is closed
  loop, reading, \* the receive loop, and the connection it reads
  sender, sending, \* a reply being sent, and the connection it goes over
  received,   \* messages read so far
  cancelled, stop, taken, \* the context, Disconnect, the connection it took
  crashed     \* the receive loop has sent on the closed queue

signalVars == <<dialled, alive, conn, connected, health, closed, loop, reading,
          sender, sending, received, cancelled, stop, taken, crashed>>

\* Connect has dialled and startChannel has started the loop.
SignalInit ==
  /\ dialled = 1 /\ alive = {1} /\ conn = 1
  /\ connected = TRUE /\ health = "connected"
  /\ closed = FALSE
  /\ loop = "check" /\ reading = NoConn
  /\ sender = "idle" /\ sending = NoConn
  /\ received = 0
  /\ cancelled = FALSE /\ stop = "no" /\ taken = NoConn
  /\ crashed = FALSE

net == <<dialled, alive>>
status == <<connected, health>>
sends == <<sender, sending>>
stops == <<cancelled, stop, taken, closed>>

-----------------------------------------------------------------------------
\* The daemon goes away, or the network does.
Break(c) ==
  /\ ~crashed
  /\ c \in alive
  /\ alive' = alive \ {c}
  /\ UNCHANGED <<dialled, conn, status, loop, reading, sends, received, stops, crashed>>

\* The loop, and readMessages, look at the context, then fetch the connection.
LoopChecks ==
  /\ ~crashed
  /\ loop = "check"
  /\ loop' = IF cancelled THEN "gone" ELSE "fetch"
  /\ UNCHANGED <<net, conn, status, reading, sends, received, stops, crashed>>

LoopFetches ==
  /\ ~crashed
  /\ loop = "fetch"
  /\ reading' = conn
  /\ loop' = IF conn = NoConn THEN "lost" ELSE "read"
  /\ UNCHANGED <<net, conn, status, sends, received, stops, crashed>>

\* A message is read and queued; a full queue drops it.  A closed queue panics.
LoopReads ==
  /\ ~crashed
  /\ loop = "read"
  /\ reading \in alive
  /\ received < MaxMessages
  /\ received' = received + 1
  /\ loop' = "queue"
  /\ UNCHANGED <<net, conn, status, reading, sends, stops, crashed>>

\* A mutant: a message that cannot be queued is taken for a lost connection.
LoopQueueErrorLoses ==
  /\ ~crashed
  /\ loop = "queue"
  /\ loop' \in {"check", "lost"}
  /\ crashed' = closed
  /\ reading' = NoConn
  /\ UNCHANGED <<net, conn, status, sends, received, stops>>

LoopQueues ==
  /\ ~crashed
  /\ loop = "queue"
  /\ loop' = "check"
  /\ crashed' = closed
  /\ reading' = NoConn
  /\ UNCHANGED <<net, conn, status, sends, received, stops>>

\* Reading fails when the connection is down.
LoopLoses ==
  /\ ~crashed
  /\ loop = "read"
  /\ reading \notin alive
  /\ loop' = "lost"
  /\ reading' = NoConn
  /\ UNCHANGED <<net, conn, status, sends, received, stops, crashed>>

LoopReportsLoss ==
  /\ ~crashed
  /\ loop = "lost"
  /\ IF cancelled THEN loop' = "gone" /\ UNCHANGED health
     ELSE loop' = "backoff" /\ health' = "reconnecting"
  /\ UNCHANGED <<net, conn, connected, reading, sends, received, stops, crashed>>

\* The backoff ends by its timer or by the context.
BackoffEnds ==
  /\ ~crashed
  /\ loop = "backoff"
  /\ \/ loop' = "dial"
     \/ cancelled /\ loop' = "gone"
  /\ UNCHANGED <<net, conn, status, reading, sends, received, stops, crashed>>

\* A mutant: a failed dial ends the loop.
DialFailsForGood ==
  /\ ~crashed
  /\ loop = "dial"
  /\ loop' = "gone"
  /\ UNCHANGED <<net, conn, status, reading, sends, received, stops, crashed>>

DialFails ==
  /\ ~crashed
  /\ loop = "dial"
  /\ loop' = "check"
  /\ UNCHANGED <<net, conn, status, reading, sends, received, stops, crashed>>

\* The handshake succeeds, unless the context is done ...
DialSucceeds ==
  /\ ~crashed
  /\ loop = "dial"
  /\ ~cancelled
  /\ dialled < MaxConns
  /\ dialled' = dialled + 1
  /\ alive' = alive \cup {dialled'}
  /\ reading' = dialled'
  /\ loop' = "install"
  /\ UNCHANGED <<conn, status, sends, received, stops, crashed>>

\* ... and the connection becomes the adapter's, whatever has happened since.
InstallConn ==
  /\ ~crashed
  /\ loop = "install"
  /\ conn' = reading
  /\ reading' = NoConn
  /\ loop' = "report"
  /\ UNCHANGED <<net, status, sends, received, stops, crashed>>

ReportReconnected ==
  /\ ~crashed
  /\ loop = "report"
  /\ connected' = TRUE
  /\ health' = "connected"
  /\ loop' = "check"
  /\ UNCHANGED <<net, conn, reading, sends, received, stops, crashed>>

-----------------------------------------------------------------------------
\* SendMessage fetches the connection, then writes to it.
StartSend ==
  /\ ~crashed
  /\ sender = "idle"
  /\ conn # NoConn
  /\ sender' = "write"
  /\ sending' = conn
  /\ UNCHANGED <<net, conn, status, loop, reading, received, stops, crashed>>

\* A write may fail on a connection that is up, and may seem to work on one that is
\* lost.
EndSend ==
  /\ ~crashed
  /\ sender = "write"
  /\ sender' \in {"idle", "failed"}
  /\ UNCHANGED <<net, conn, status, loop, reading, sending, received, stops, crashed>>

ReportSendError ==
  /\ ~crashed
  /\ sender = "failed"
  /\ sender' = "idle"
  /\ health' = "sendError"
  /\ UNCHANGED <<net, conn, connected, loop, reading, sending, received, stops, crashed>>

-----------------------------------------------------------------------------
\* Stop cancels the context and disconnects the adapter.
Cancel ==
  /\ ~crashed
  /\ stop = "no"
  /\ cancelled' = TRUE
  /\ stop' = "take"
  /\ UNCHANGED <<net, conn, status, loop, reading, sends, received, taken,
                 closed, crashed>>

TakeConn ==
  /\ ~crashed
  /\ stop = "take"
  /\ taken' = conn
  /\ conn' = NoConn
  /\ stop' = "report"
  /\ UNCHANGED <<net, status, loop, reading, sends, received, cancelled,
                 closed, crashed>>

ReportDisconnected ==
  /\ ~crashed
  /\ stop = "report"
  /\ connected' = FALSE
  /\ health' = "disconnected"
  /\ stop' = "closeConn"
  /\ UNCHANGED <<net, conn, loop, reading, sends, received, cancelled, taken,
                 closed, crashed>>

\* The Close frame, sent before, changes nothing here: whether it goes out or fails,
\* the connection is closed.
CloseConn ==
  /\ ~crashed
  /\ stop = "closeConn"
  /\ alive' = alive \ {taken}
  /\ stop' = "closeQueue"
  /\ UNCHANGED <<dialled, conn, status, loop, reading, sends, received,
                 cancelled, taken, closed, crashed>>

CloseQueue ==
  /\ ~crashed
  /\ stop = "closeQueue"
  /\ closed' = TRUE
  /\ stop' = "done"
  /\ UNCHANGED <<net, conn, status, loop, reading, sends, received, cancelled,
                 taken, crashed>>

LoopStep ==
  \/ LoopChecks \/ LoopFetches \/ LoopQueues \/ LoopLoses \/ LoopReportsLoss
  \/ BackoffEnds \/ DialFails \/ DialSucceeds \/ InstallConn
  \/ ReportReconnected

SendStep == EndSend \/ ReportSendError
StopStep == TakeConn \/ ReportDisconnected \/ CloseConn \/ CloseQueue

SignalNext ==
  \/ LoopStep \/ LoopReads \/ SendStep \/ StopStep \/ StartSend \/ Cancel
  \/ \E c \in Conn : Break(c)

SignalSpec == SignalInit /\ [][SignalNext]_signalVars

\* Goroutines run and timers fire; dialling again and again succeeds at last.
SignalFairSpec ==
  /\ SignalSpec
  /\ WF_signalVars(LoopStep) /\ WF_signalVars(SendStep) /\ WF_signalVars(StopStep)
  /\ SF_signalVars(DialSucceeds)

-----------------------------------------------------------------------------
\* Type correctness.
SignalTypeOK ==
  /\ dialled \in Conn
  /\ alive \in SUBSET (1..dialled)
  /\ conn \in 0..dialled
  /\ connected \in BOOLEAN
  /\ health \in {"connected", "reconnecting", "sendError", "disconnected"}
  /\ closed \in BOOLEAN
  /\ loop \in {"check", "fetch", "read", "queue", "lost", "backoff", "dial",
               "install", "report", "gone"}
  /\ reading \in 0..dialled
  /\ loop \in {"read", "queue", "install"} => reading # NoConn
  /\ sender \in {"idle", "write", "failed"} /\ sending \in 0..dialled
  /\ received \in 0..MaxMessages
  /\ cancelled \in BOOLEAN
  /\ stop \in {"no", "take", "report", "closeConn", "closeQueue", "done"}
  /\ taken \in 0..dialled
  /\ crashed \in BOOLEAN

\* The adapter never holds two connections that are up, whatever is lost, sent
\* and disconnected meanwhile: signal-cli would deliver to either.
OneConnection == \A c, d \in alive : c = d

\* The state is well formed, and at most one connection is up.
ConnectionInv == SignalTypeOK /\ OneConnection

\* The loop lives exactly as long as it should.  A lost connection is replaced
\* and reading goes on, unless the gateway stops or the connections of the model
\* are used up; and the loop ends when the gateway stops, because Disconnect
\* closes the connection it may be blocked on.
LoopLives ==
  /\ loop = "lost" ~> (loop = "read" \/ cancelled \/ dialled = MaxConns)
  /\ cancelled ~> (loop = "gone" \/ crashed)
=============================================================================
