------------------------------ MODULE Channel -------------------------------
(***************************************************************************)
(* One channel of the gateway from Connect to Stop: the platform adapter   *)
(* (internal/channels/<adapter>), the queue it shares with the gateway     *)
(* (internal/channels/base.go), the gateway's receive loop for it, and the *)
(* part of Gateway.Stop that concerns it (internal/gateway/gateway.go).    *)
(* The adapter's callbacks, the loop and Stop run concurrently.            *)
(* The signal adapter, which reconnects, has a module of its own.          *)
(***************************************************************************)
EXTENDS Naturals, Sequences, FiniteSets

CONSTANTS
  Platforms, \* which adapters are considered, one at a time
  Message,  \* messages the platform delivers, each once
  Capacity, \* size of the queue
  NoMessage

Webhook == {"teams", "test"}    \* messages arrive in HTTP handlers
Polling == {"telegram", "slack"} \* ... in a goroutine of the adapter
Socket == {"discord", "whatsapp"} \* ... in callbacks of the client library

ASSUME ChannelAssumption ==
  /\ Platforms \subseteq Webhook \cup Polling \cup Socket
  /\ Capacity \in Nat \ {0}
  /\ NoMessage \notin Message

VARIABLES
  platform,  \* which adapter this channel has; it never changes
  conn,      \* where startChannel is: off, open, connected, receiving, failed
  session,   \* can the platform call back: none, up, down
  connected, health, \* what IsConnected and Health report
  queue, closed,     \* the queue, and whether it was closed
  arrived,   \* messages the platform has delivered
  callbacks, \* messages whose callback has not reached QueueMessage yet
  loop, handling, \* the receive loop, and the message it is publishing
  cancelled, \* the gateway's context
  stop,      \* where Gateway.Stop is with this channel
  timedOut,  \* Stop gave up waiting
  panicked,  \* callbacks that sent on the closed queue
  accepted, handled \* history: messages queued and messages published

vars == <<platform, conn, session, connected, health, queue, closed, arrived,
          callbacks, loop, handling, cancelled, stop, timedOut, panicked, accepted, handled>>

adapter == <<platform, conn, session, connected, health>>
inbox == <<queue, closed, arrived, callbacks, panicked, accepted>>
receiver == <<loop, handling, handled>>
stopping == <<cancelled, stop, timedOut>>

\* The HTTP server is up before any channel is started.
Init ==
  /\ platform \in Platforms
  /\ conn = "off"
  /\ session = IF platform \in Webhook THEN "up" ELSE "none"
  /\ connected = FALSE /\ health = "disconnected"
  /\ queue = << >> /\ closed = FALSE
  /\ arrived = {} /\ callbacks = {}
  /\ loop = "off" /\ handling = NoMessage
  /\ cancelled = FALSE /\ stop = "no" /\ timedOut = FALSE
  /\ panicked = {}
  /\ accepted = << >> /\ handled = << >>

\* A panic in an adapter's goroutine ends the process; in an HTTP handler it
\* is recovered by the server and only ends the request.
Alive == platform \in Webhook \/ panicked = {}

-----------------------------------------------------------------------------
\* startChannel: the adapter opens its session, then reports being connected,
\* then the receive loop starts.
OpenSession ==
  /\ Alive
  /\ conn = "off"
  /\ conn' = "open"
  /\ session' = IF platform \in Socket THEN "up" ELSE session
  /\ UNCHANGED <<platform, connected, health>>
  /\ UNCHANGED <<inbox, receiver, stopping>>

\* WhatsApp may fail after its client has connected, and tells Health nothing.
ConnectFails ==
  /\ Alive
  /\ conn = "off"
  /\ platform \notin Webhook \cup {"slack"}
  /\ conn' = "failed"
  /\ health' = IF platform = "whatsapp" THEN health ELSE "failed"
  /\ session' \in {"none"} \cup (IF platform = "whatsapp" THEN {"up"} ELSE {})
  /\ UNCHANGED <<platform, connected>>
  /\ UNCHANGED <<inbox, receiver, stopping>>

ReportConnected ==
  /\ Alive
  /\ conn = "open"
  /\ conn' = "connected"
  /\ connected' = TRUE
  /\ health' = "connected"
  /\ session' = IF platform \in Polling THEN "up" ELSE session
  /\ UNCHANGED platform
  /\ UNCHANGED <<inbox, receiver, stopping>>

\* ReceiveMessages hands the queue over and the receive loop starts.
StartReceiving ==
  /\ Alive
  /\ conn = "connected"
  /\ conn' = "receiving"
  /\ loop' = "select"
  /\ UNCHANGED <<platform, session, connected, health, handling, handled>>
  /\ UNCHANGED <<inbox, stopping>>

-----------------------------------------------------------------------------
\* The platform delivers a message: a callback is under way.
Arrive(m) ==
  /\ Alive
  /\ session = "up"
  /\ m \notin arrived
  /\ arrived' = arrived \cup {m}
  /\ callbacks' = callbacks \cup {m}
  /\ UNCHANGED <<queue, closed, panicked, accepted>>
  /\ UNCHANGED <<adapter, receiver, stopping>>

\* A mutant of QueueMessage: it puts the message in front.
QueueInFront(m) ==
  /\ Alive
  /\ m \in callbacks
  /\ callbacks' = callbacks \ {m}
  /\ ~closed /\ Len(queue) < Capacity
  /\ queue' = <<m>> \o queue
  /\ accepted' = Append(accepted, m)
  /\ UNCHANGED <<closed, arrived, panicked>>
  /\ UNCHANGED <<adapter, receiver, stopping>>

\* QueueMessage never blocks: a full queue drops the message.
QueueMessage(m) ==
  /\ Alive
  /\ m \in callbacks
  /\ callbacks' = callbacks \ {m}
  /\ \/ /\ closed
        /\ panicked' = panicked \cup {m}
        /\ UNCHANGED <<queue, accepted>>
     \/ /\ ~closed /\ Len(queue) < Capacity
        /\ queue' = Append(queue, m)
        /\ accepted' = Append(accepted, m)
        /\ UNCHANGED panicked
     \/ /\ ~closed /\ Len(queue) = Capacity
        /\ UNCHANGED <<queue, panicked, accepted>>
  /\ UNCHANGED <<closed, arrived>>
  /\ UNCHANGED <<adapter, receiver, stopping>>

-----------------------------------------------------------------------------
\* The receive loop selects between the queue and the context; when both are
\* ready either may win.
TakeMessage ==
  /\ Alive
  /\ loop = "select"
  /\ queue # << >>
  /\ loop' = "publish"
  /\ handling' = Head(queue)
  /\ queue' = Tail(queue)
  /\ UNCHANGED <<closed, arrived, callbacks, panicked, accepted, handled>>
  /\ UNCHANGED <<adapter, stopping>>

\* A mutant: the loop ends after one message.
PublishEndsLoop ==
  /\ Alive
  /\ loop = "publish"
  /\ loop' = "gone"
  /\ handled' = Append(handled, handling)
  /\ handling' = NoMessage
  /\ UNCHANGED <<adapter, inbox, stopping>>

\* Publish returns when every handler of the message has.
PublishReturns ==
  /\ Alive
  /\ loop = "publish"
  /\ loop' = "select"
  /\ handled' = Append(handled, handling)
  /\ handling' = NoMessage
  /\ UNCHANGED <<adapter, inbox, stopping>>

LoopEnds ==
  /\ Alive
  /\ loop = "select"
  /\ cancelled \/ (closed /\ queue = << >>)
  /\ loop' = "gone"
  /\ UNCHANGED <<handling, handled>>
  /\ UNCHANGED <<adapter, inbox, stopping>>

-----------------------------------------------------------------------------
\* Stop runs after Start has returned, and cancels the context first ...
Cancel ==
  /\ Alive
  /\ stop = "no"
  /\ conn \in {"receiving", "failed"}
  /\ cancelled' = TRUE
  /\ stop' = "disconnect"
  /\ UNCHANGED timedOut
  /\ UNCHANGED <<adapter, inbox, receiver>>

\* ... which also ends polling loops and the HTTP server, in their own time.
SessionEnds ==
  /\ Alive
  /\ cancelled
  /\ session = "up"
  /\ platform \notin Socket
  /\ session' = "down"
  /\ UNCHANGED <<platform, conn, connected, health>>
  /\ UNCHANGED <<inbox, receiver, stopping>>

\* Disconnect: nothing to do unless connected (teams and test do not look).
SkipDisconnect ==
  /\ Alive
  /\ stop = "disconnect"
  /\ ~connected /\ platform \notin Webhook
  /\ stop' = "wait"
  /\ UNCHANGED <<cancelled, timedOut>>
  /\ UNCHANGED <<adapter, inbox, receiver>>

\* A mutant: the queue is closed before anything else.
CloseSessionAndQueue ==
  /\ Alive
  /\ stop = "disconnect"
  /\ connected \/ platform \in Webhook
  /\ session' = IF platform \in Socket THEN "down" ELSE session
  /\ closed' = TRUE
  /\ stop' = "report"
  /\ UNCHANGED <<queue, arrived, callbacks, panicked, accepted>>
  /\ UNCHANGED <<platform, conn, connected, health, cancelled, timedOut>>
  /\ UNCHANGED receiver

\* The client library's session is closed, where there is one.  Discord may
\* report an error, and Disconnect then gives up.
CloseSession ==
  /\ Alive
  /\ stop = "disconnect"
  /\ connected \/ platform \in Webhook
  /\ session' = IF platform \in Socket THEN "down" ELSE session
  /\ stop' \in {"report"} \cup (IF platform = "discord" THEN {"wait"} ELSE {})
  /\ UNCHANGED <<platform, conn, connected, health, cancelled, timedOut>>
  /\ UNCHANGED <<inbox, receiver>>

ReportDisconnected ==
  /\ Alive
  /\ stop = "report"
  /\ connected' = FALSE
  /\ health' = "disconnected"
  /\ stop' = "close"
  /\ UNCHANGED <<platform, conn, session, cancelled, timedOut>>
  /\ UNCHANGED <<inbox, receiver>>

CloseQueue ==
  /\ Alive
  /\ stop = "close"
  /\ closed' = TRUE
  /\ stop' = "wait"
  /\ UNCHANGED <<queue, arrived, callbacks, panicked, accepted, cancelled, timedOut>>
  /\ UNCHANGED <<adapter, receiver>>

\* Stop waits for the loop, or until ShutdownTimeout; then it closes the
\* stores the handlers use.
WaitForLoop ==
  /\ Alive
  /\ stop = "wait"
  /\ loop \in {"off", "gone"}
  /\ stop' = "done"
  /\ UNCHANGED <<cancelled, timedOut>>
  /\ UNCHANGED <<adapter, inbox, receiver>>

ShutdownTimeout ==
  /\ Alive
  /\ stop = "wait"
  /\ stop' = "done"
  /\ timedOut' = TRUE
  /\ UNCHANGED cancelled
  /\ UNCHANGED <<adapter, inbox, receiver>>

StartStep == OpenSession \/ ConnectFails \/ ReportConnected \/ StartReceiving

LoopStep == TakeMessage \/ PublishReturns \/ LoopEnds

StopStep ==
  \/ SkipDisconnect \/ CloseSession \/ ReportDisconnected \/ CloseQueue
  \/ WaitForLoop

Next ==
  \/ StartStep \/ LoopStep \/ StopStep
  \/ Cancel \/ SessionEnds \/ ShutdownTimeout
  \/ \E m \in Message : Arrive(m) \/ QueueMessage(m)

Spec == Init /\ [][Next]_vars

\* Goroutines run, connecting and handlers return, and Stop goes on.
FairSpec == Spec /\ WF_vars(StartStep) /\ WF_vars(LoopStep) /\ WF_vars(StopStep)

-----------------------------------------------------------------------------
InHand == IF handling = NoMessage THEN << >> ELSE <<handling>>

\* Type correctness.
TypeOK ==
  /\ platform \in Platforms
  /\ conn \in {"off", "open", "connected", "receiving", "failed"}
  /\ session \in {"none", "up", "down"}
  /\ connected \in BOOLEAN
  /\ health \in {"disconnected", "connected", "failed"}
  /\ queue \in Seq(Message) /\ Len(queue) <= Capacity
  /\ closed \in BOOLEAN
  /\ arrived \in SUBSET Message /\ callbacks \in SUBSET arrived
  /\ loop \in {"off", "select", "publish", "gone"}
  /\ handling \in Message \cup {NoMessage}
  /\ handling = NoMessage <=> loop # "publish"
  /\ cancelled \in BOOLEAN
  /\ stop \in {"no", "disconnect", "report", "close", "wait", "done"}
  /\ timedOut \in BOOLEAN
  /\ panicked \in SUBSET arrived
  /\ accepted \in Seq(Message) /\ handled \in Seq(Message)

\* No message that QueueMessage accepted is lost, doubled or overtaken: at
\* every moment the accepted messages are those published, the one being
\* published and those queued, in that order.
AcceptedInOrder == accepted = handled \o InHand \o queue

Contents == InHand \o queue
Promise == INSTANCE Inbox WITH
  Bound <- Capacity + 1, pending <- Contents, delivered <- handled,
  open <- ~closed

\* The queue and the loop implement the inbox.
InboxPromise == Promise!Spec

\* Nothing sends on a closed queue before Stop has taken the channel down.
PanicsOnlyWhileStopping == panicked # {} => stop \in {"wait", "done"} /\ closed

\* Unless it gave up waiting, Stop closes the stores only when no message of
\* the channel is being handled, and none will be.
QuietAfterStop ==
  stop = "done" /\ ~timedOut => loop \in {"off", "gone"} /\ handling = NoMessage

\* The state is well formed, the queue loses, doubles and swaps nothing, it
\* closes under no callback but at the stop, and after the stop all is quiet.
QueueInv ==
  TypeOK /\ AcceptedInOrder /\ PanicsOnlyWhileStopping /\ QuietAfterStop

\* A queued message is handled, unless the gateway is stopped first or the
\* channel failed to start (WhatsApp's callbacks may then still queue).
QueuedIsHandled ==
  \A m \in Message :
    (\E i \in DOMAIN queue : queue[i] = m)
      ~> ((\E i \in DOMAIN handled : handled[i] = m) \/ cancelled \/ conn = "failed")

\* "Disconnect closes the connection gracefully" (channel.go:45): no callback
\* of the adapter panics on the closed queue.
NoSendOnClosed == panicked = {}
=============================================================================
