--------------------------- MODULE ChannelProofs ----------------------------
(***************************************************************************)
(* Proofs about a channel's queue and receive loop (Channel), about the    *)
(* replies of the Teams adapter (Teams), and about the WebSocket server    *)
(* with its streamed answers (Stream): for every adapter, any messages,    *)
(* any capacity, any timeouts and lives of tokens, any connections, users  *)
(* and requests.  The queue and the loop are shown to implement Inbox by   *)
(* step simulation.                                                        *)
(***************************************************************************)
EXTENDS Teams, Stream, FiniteSetTheorems, SequenceTheorems, TLAPS

\* What the type invariant and AcceptedInOrder do not say of the stop: it begins
\* after the start has ended, and the queue is closed by its last step but one.
StopAfterStart == stop # "no" => conn \in {"receiving", "failed"}

ClosedLate == closed => stop \in {"wait", "done"}

\* The loop runs only on a channel that has been started.
LoopStarted == loop # "off" => conn = "receiving"

IInv == QueueInv /\ StopAfterStart /\ ClosedLate /\ LoopStarted

-----------------------------------------------------------------------------
\* A message put at the end of the queue is at the end of all that was accepted.
LEMMA EndOfConcat ==
  ASSUME NEW s \in Seq(Message), NEW q \in Seq(Message), NEW m \in Message
  PROVE  Append(s \o q, m) = s \o Append(q, m)
<1>1. <<m>> \in Seq(Message)
  OBVIOUS
<1>2. /\ Append(q, m) = q \o <<m>>
      /\ s \o q \in Seq(Message)
      /\ Append(s \o q, m) = (s \o q) \o <<m>>
  BY AppendIsConcat, ConcatProperties
<1>3. QED
  BY <1>1, <1>2, ConcatAssociative

\* The first message and the rest make the queue.
LEMMA HeadAndTail ==
  ASSUME NEW q \in Seq(Message), q # << >>
  PROVE  /\ Head(q) \in Message /\ Tail(q) \in Seq(Message)
         /\ Len(Tail(q)) = Len(q) - 1
         /\ q = <<Head(q)>> \o Tail(q)
<1>1. /\ Head(q) \in Message /\ Tail(q) \in Seq(Message)
      /\ Len(Tail(q)) = Len(q) - 1
      /\ \A i \in 1..Len(Tail(q)) : Tail(q)[i] = q[i + 1]
  BY HeadTailProperties
<1>2. Len(q) \in Nat /\ Len(q) > 0 /\ Head(q) = q[1]
  OBVIOUS
<1> DEFINE r == <<Head(q)>> \o Tail(q)
<1>3. /\ <<Head(q)>> \in Seq(Message) /\ Len(<<Head(q)>>) = 1
      /\ <<Head(q)>>[1] = Head(q)
  BY <1>1
<1>4. /\ r \in Seq(Message) /\ Len(r) = 1 + (Len(q) - 1)
      /\ \A i \in 1..(1 + (Len(q) - 1)) :
           r[i] = IF i <= 1 THEN <<Head(q)>>[i] ELSE Tail(q)[i - 1]
  BY <1>1, <1>3, ConcatProperties
<1>5. Len(r) = Len(q)
  BY <1>2, <1>4
<1>6. \A i \in 1..Len(q) : r[i] = q[i]
  BY <1>1, <1>2, <1>3, <1>4
<1>7. q = r
  BY <1>4, <1>5, <1>6, SeqEqual
<1>8. QED
  BY <1>1, <1>7

\* A sequence followed by one more message and the rest may be split before it.
LEMMA SplitConcat ==
  ASSUME NEW s \in Seq(Message), NEW q \in Seq(Message), NEW m \in Message
  PROVE  (s \o <<m>>) \o q = s \o (<<m>> \o q) /\ Append(s, m) = s \o <<m>>
BY ConcatAssociative, AppendIsConcat

-----------------------------------------------------------------------------
\* A channel that has not been connected has neither accepted nor closed.
LEMMA InitInv == Init => IInv
<1> SUFFICES ASSUME Init PROVE IInv
  OBVIOUS
<1>1. TypeOK
  <2>1. session \in {"none", "up", "down"}
    BY DEF Init
  <2>2. queue \in Seq(Message) /\ Len(queue) <= Capacity
    BY ChannelAssumption DEF Init
  <2>3. accepted \in Seq(Message) /\ handled \in Seq(Message)
    BY DEF Init
  <2>4. QED
    BY <2>1, <2>2, <2>3 DEF Init, TypeOK
<1>2. AcceptedInOrder
  BY DEF Init, AcceptedInOrder, InHand
<1>3. PanicsOnlyWhileStopping /\ QuietAfterStop /\ StopAfterStart /\ ClosedLate /\ LoopStarted
  BY DEF Init, PanicsOnlyWhileStopping, QuietAfterStop, StopAfterStart, ClosedLate,
         LoopStarted
<1>4. QED
  BY <1>1, <1>2, <1>3 DEF IInv, QueueInv

\* Connecting leaves the queue alone, and the loop starts before any stop.
LEMMA StartInv == ASSUME IInv, StartStep PROVE IInv'
<1> USE DEF IInv, QueueInv
<1>1. UNCHANGED <<inbox, stopping, handling, handled>> /\ UNCHANGED platform
  BY DEF StartStep, OpenSession, ConnectFails, ReportConnected, StartReceiving,
         receiver
<1>2. /\ conn \notin {"receiving", "failed"}
      /\ loop' # loop => conn' = "receiving" /\ loop' = "select"
      /\ loop = "off"
  BY DEF StartStep, OpenSession, ConnectFails, ReportConnected, StartReceiving,
         receiver, LoopStarted, TypeOK
<1>3. /\ conn' \in {"off", "open", "connected", "receiving", "failed"}
      /\ session' \in {"none", "up", "down"}
      /\ connected' \in BOOLEAN
      /\ health' \in {"disconnected", "connected", "failed"}
      /\ loop' \in {"off", "select"}
      /\ handling' = NoMessage
  <2>1. CASE OpenSession
    BY <1>2, <2>1 DEF OpenSession, receiver, TypeOK
  <2>2. CASE ConnectFails
    BY <1>2, <2>2 DEF ConnectFails, receiver, TypeOK
  <2>3. CASE ReportConnected
    BY <1>2, <2>3 DEF ReportConnected, receiver, TypeOK
  <2>4. CASE StartReceiving
    BY <1>2, <2>4 DEF StartReceiving, TypeOK
  <2>5. QED
    BY <2>1, <2>2, <2>3, <2>4 DEF StartStep
<1>9. TypeOK'
  BY <1>1, <1>3 DEF TypeOK, inbox, stopping
<1>4. AcceptedInOrder' /\ PanicsOnlyWhileStopping' /\ ClosedLate'
  BY <1>1 DEF AcceptedInOrder, InHand, PanicsOnlyWhileStopping, ClosedLate, inbox,
              stopping
<1>5. QuietAfterStop' /\ StopAfterStart' /\ LoopStarted'
  BY <1>1, <1>2 DEF QuietAfterStop, StopAfterStart, LoopStarted, stopping, TypeOK
<1>6. QED
  BY <1>4, <1>5, <1>9

\* A callback queues its message at the end, drops it, or panics on a closed queue.
LEMMA CallbackInv ==
  ASSUME IInv, NEW m \in Message, Arrive(m) \/ QueueMessage(m)
  PROVE  IInv'
<1> USE DEF IInv, QueueInv
<1>1. UNCHANGED <<adapter, receiver, stopping, closed>>
  BY DEF Arrive, QueueMessage
<1>2. TypeOK'
  <2>1. /\ arrived' \in SUBSET Message /\ callbacks' \in SUBSET arrived'
        /\ panicked' \in SUBSET arrived'
    BY DEF TypeOK, Arrive, QueueMessage
  <2>2. /\ accepted \in Seq(Message) /\ queue \in Seq(Message)
        /\ Len(queue) <= Capacity /\ Capacity \in Nat
    BY ChannelAssumption DEF TypeOK
  <2>3. /\ accepted' \in Seq(Message) /\ queue' \in Seq(Message)
        /\ Len(queue') <= Capacity
    <3>1. CASE UNCHANGED <<accepted, queue>>
      BY <2>2, <3>1
    <3>2. CASE /\ accepted' = Append(accepted, m) /\ queue' = Append(queue, m)
               /\ Len(queue) < Capacity
      BY <2>2, <3>2, AppendProperties
    <3>3. QED
      BY <3>1, <3>2 DEF Arrive, QueueMessage
  <2>4. QED
    BY <1>1, <2>1, <2>2, <2>3 DEF TypeOK, adapter, receiver, stopping
<1>3. AcceptedInOrder'
  <2>1. CASE UNCHANGED <<accepted, queue>>
    BY <1>1, <2>1 DEF AcceptedInOrder, InHand, receiver
  <2>2. CASE accepted' = Append(accepted, m) /\ queue' = Append(queue, m)
    <3>1. handled \o InHand \in Seq(Message) /\ queue \in Seq(Message)
      BY ConcatProperties DEF TypeOK, InHand
    <3>2. QED
      BY <1>1, <2>2, <3>1, EndOfConcat DEF AcceptedInOrder, InHand, receiver
  <2>3. QED
    BY <2>1, <2>2 DEF Arrive, QueueMessage
<1>4. PanicsOnlyWhileStopping'
  BY <1>1 DEF PanicsOnlyWhileStopping, ClosedLate, Arrive, QueueMessage, stopping
<1>5. QuietAfterStop' /\ StopAfterStart' /\ ClosedLate' /\ LoopStarted'
  BY <1>1 DEF QuietAfterStop, StopAfterStart, ClosedLate, LoopStarted, adapter,
              receiver, stopping
<1>6. QED
  BY <1>2, <1>3, <1>4, <1>5

\* What the loop takes from the front goes through its hand to the end of what was
\* published.
LEMMA LoopInv == ASSUME IInv, LoopStep PROVE IInv'
<1> USE DEF IInv, QueueInv
<1>1. UNCHANGED <<adapter, stopping, closed, panicked, accepted>>
  BY DEF LoopStep, TakeMessage, PublishReturns, LoopEnds, inbox
<1>2. handled \in Seq(Message) /\ queue \in Seq(Message) /\ NoMessage \notin Message
  BY ChannelAssumption DEF TypeOK
<1>3. TypeOK' /\ AcceptedInOrder'
  <2>1. CASE TakeMessage
    <3>1. /\ InHand = << >>
          /\ queue # << >> /\ handling' = Head(queue) /\ queue' = Tail(queue)
          /\ UNCHANGED <<handled, arrived, callbacks>> /\ loop' = "publish"
      BY <2>1 DEF TakeMessage, InHand, TypeOK
    <3>2. /\ Head(queue) \in Message /\ Tail(queue) \in Seq(Message)
          /\ Len(Tail(queue)) = Len(queue) - 1
          /\ queue = <<Head(queue)>> \o Tail(queue)
      BY <1>2, <3>1, HeadAndTail
    <3>8. Len(queue') <= Capacity /\ handling' \in Message
      BY <3>1, <3>2, ChannelAssumption DEF TypeOK
    <3>3. TypeOK'
      BY <1>1, <1>2, <3>1, <3>2, <3>8 DEF TypeOK, adapter, stopping
    <3>4. InHand' = <<Head(queue)>>
      BY <1>2, <3>1, <3>2 DEF InHand
    <3>5. accepted = handled \o queue
      BY <1>2, <3>1, ConcatEmptySeq DEF AcceptedInOrder
    <3>6. accepted = (handled \o <<Head(queue)>>) \o Tail(queue)
      BY <1>2, <3>2, <3>5, SplitConcat
    <3>7. QED
      BY <1>1, <3>1, <3>3, <3>4, <3>6 DEF AcceptedInOrder
  <2>2. CASE PublishReturns
    <3>1. /\ handling \in Message /\ InHand = <<handling>>
          /\ handling' = NoMessage /\ InHand' = << >> /\ loop' = "select"
          /\ handled' = Append(handled, handling)
          /\ UNCHANGED <<queue, arrived, callbacks>>
      BY <2>2 DEF PublishReturns, InHand, TypeOK, inbox
    <3>2. handled' = handled \o <<handling>> /\ handled' \in Seq(Message)
      BY <1>2, <3>1, SplitConcat, AppendProperties
    <3>3. TypeOK'
      BY <1>1, <1>2, <3>1, <3>2 DEF TypeOK, adapter, stopping
    <3>4. handled' \o << >> = handled'
      BY <3>2, ConcatEmptySeq
    <3>5. QED
      BY <1>1, <3>1, <3>2, <3>3, <3>4 DEF AcceptedInOrder
  <2>3. CASE LoopEnds
    BY <2>3 DEF LoopEnds, TypeOK, AcceptedInOrder, InHand, adapter, inbox, stopping
  <2>4. QED
    BY <2>1, <2>2, <2>3 DEF LoopStep
<1>4. PanicsOnlyWhileStopping' /\ StopAfterStart' /\ ClosedLate'
  BY <1>1 DEF PanicsOnlyWhileStopping, StopAfterStart, ClosedLate, adapter, stopping
<1>5. loop \notin {"off", "gone"}
  BY DEF LoopStep, TakeMessage, PublishReturns, LoopEnds
<1>6. QuietAfterStop' /\ LoopStarted'
  BY <1>1, <1>5 DEF QuietAfterStop, LoopStarted, adapter, stopping
<1>7. QED
  BY <1>3, <1>4, <1>6

\* The stop closes the queue at its end, and waits for the loop or gives up.
LEMMA StopInv ==
  ASSUME IInv, StopStep \/ Cancel \/ SessionEnds \/ ShutdownTimeout
  PROVE  IInv'
<1> USE DEF IInv, QueueInv
<1> USE DEF StopStep, SkipDisconnect, CloseSession, ReportDisconnected, CloseQueue,
            WaitForLoop, Cancel, SessionEnds, ShutdownTimeout
<1>1. UNCHANGED <<receiver, queue, arrived, callbacks, panicked, accepted, conn, platform>>
  BY DEF adapter, inbox
<1>2. TypeOK'
  <2>1. /\ session' \in {"none", "up", "down"}
        /\ connected' \in BOOLEAN
        /\ health' \in {"disconnected", "connected", "failed"}
    BY DEF TypeOK, adapter
  <2>2. /\ cancelled' \in BOOLEAN /\ timedOut' \in BOOLEAN
        /\ closed' \in BOOLEAN
    BY DEF TypeOK, inbox, stopping
  <2>3. stop' \in {"no", "disconnect", "report", "close", "wait", "done"}
    BY DEF TypeOK, stopping
  <2>4. QED
    BY <1>1, <2>1, <2>2, <2>3 DEF TypeOK, receiver
<1>3. AcceptedInOrder'
  BY <1>1 DEF AcceptedInOrder, InHand, receiver
<1>4. PanicsOnlyWhileStopping' /\ ClosedLate'
  BY <1>1 DEF PanicsOnlyWhileStopping, ClosedLate, adapter, inbox, stopping
<1>5. QuietAfterStop'
  BY <1>1 DEF QuietAfterStop, TypeOK, adapter, inbox, receiver, stopping
<1>6. StopAfterStart' /\ LoopStarted'
  BY <1>1 DEF StopAfterStart, LoopStarted, receiver, stopping
<1>7. QED
  BY <1>2, <1>3, <1>4, <1>5, <1>6

LEMMA StepInv == IInv /\ [Next]_vars => IInv'
<1> SUFFICES ASSUME IInv, [Next]_vars PROVE IInv'
  OBVIOUS
<1>1. CASE UNCHANGED vars
  BY <1>1 DEF vars, IInv, QueueInv, TypeOK, AcceptedInOrder, InHand,
              PanicsOnlyWhileStopping, QuietAfterStop, StopAfterStart, ClosedLate,
              LoopStarted
<1>2. QED
  BY <1>1, StartInv, CallbackInv, LoopInv, StopInv DEF Next

\* No message that an adapter's callback has queued is lost, doubled or overtaken
\* on its way through the loop; nothing sends on the closed queue before the stop
\* has closed it, and after a stop that did not give up the loop is out
\* (base.go, receiveMessages and Stop in gateway.go).
THEOREM QueueCorrect == Spec => []QueueInv
<1>1. IInv => QueueInv
  BY DEF IInv
<1>2. QED
  BY <1>1, InitInv, StepInv, PTL DEF Spec

-----------------------------------------------------------------------------
(* The queue and the loop implement the inbox.                               *)

\* Nothing is pending when nothing has been connected.
LEMMA InitPromise == Init => Promise!Init
<1> SUFFICES ASSUME Init PROVE Promise!Init
  OBVIOUS
<1>1. Contents = << >>
  BY DEF Init, Contents, InHand
<1>2. QED
  BY <1>1 DEF Init, Promise!Init

\* Queueing a message accepts it, the return of Publish delivers one, closing the
\* queue closes the inbox; all other steps, the loop's taking a message among
\* them, are none of its.
LEMMA StepPromise ==
  ASSUME IInv, [Next]_vars
  PROVE  [Promise!Next]_<<Contents, handled, ~closed>>
<1> DEFINE View == <<Contents, handled, ~closed>>
<1>0. /\ handled \in Seq(Message) /\ queue \in Seq(Message)
      /\ Len(queue) \in Nat /\ Len(queue) <= Capacity /\ Capacity \in Nat
      /\ InHand \in Seq(Message) /\ Len(InHand) \in Nat /\ Len(InHand) <= 1
  <2>1. TypeOK /\ Capacity \in Nat
    BY ChannelAssumption DEF IInv, QueueInv
  <2>2. InHand \in Seq(Message) /\ Len(InHand) \in Nat /\ Len(InHand) <= 1
    <3>1. CASE InHand = << >>
      BY <3>1
    <3>2. CASE handling \in Message /\ InHand = <<handling>>
      BY <3>2
    <3>3. QED
      BY <2>1, <3>1, <3>2 DEF TypeOK, InHand
  <2>3. QED
    BY <2>1, <2>2 DEF TypeOK
<1>1. CASE UNCHANGED <<queue, handling, handled, closed>>
  BY <1>1 DEF Contents, InHand
<1>2. ASSUME NEW m \in Message, QueueMessage(m)
      PROVE  Promise!Accept(m) \/ UNCHANGED View
  <2>1. UNCHANGED <<handling, handled, closed>>
    BY <1>2 DEF QueueMessage, receiver
  <2>2. CASE UNCHANGED queue
    BY <2>1, <2>2 DEF Contents, InHand
  <2>3. CASE ~closed /\ Len(queue) < Capacity /\ queue' = Append(queue, m)
    <3>1. Contents' = Append(Contents, m)
      BY <1>0, <2>1, <2>3, EndOfConcat DEF Contents, InHand
    <3>2. Len(Contents) < Capacity + 1
      <4>1. Len(Contents) = Len(InHand) + Len(queue)
        BY <1>0, ConcatProperties DEF Contents
      <4>2. Len(InHand) \in Nat /\ Len(InHand) <= 1
        BY <1>0
      <4>3. QED
        BY <1>0, <2>3, <4>1, <4>2
    <3>3. QED
      BY <2>1, <2>3, <3>1, <3>2 DEF Promise!Accept
  <2>4. QED
    BY <1>2, <2>2, <2>3 DEF QueueMessage
<1>3. CASE TakeMessage
  <2>1. /\ InHand = << >> /\ queue # << >> /\ handling' = Head(queue)
        /\ queue' = Tail(queue) /\ UNCHANGED <<handled, closed>>
    BY <1>3 DEF TakeMessage, InHand, IInv, QueueInv, TypeOK
  <2>2. Head(queue) \in Message /\ queue = <<Head(queue)>> \o Tail(queue)
    BY <1>0, <2>1, HeadAndTail
  <2>3. Contents' = Contents
    BY <1>0, <2>1, <2>2, ChannelAssumption, ConcatEmptySeq DEF Contents, InHand
  <2>4. QED
    BY <2>1, <2>3
<1>4. CASE PublishReturns
  <2>1. /\ handling \in Message /\ InHand = <<handling>> /\ InHand' = << >>
        /\ handled' = Append(handled, handling) /\ UNCHANGED <<queue, closed>>
    BY <1>4 DEF PublishReturns, InHand, IInv, QueueInv, TypeOK, inbox
  <2>2. Contents' = queue
    BY <1>0, <2>1, ConcatEmptySeq DEF Contents
  <2>3. /\ Contents # << >> /\ Head(Contents) = handling /\ Tail(Contents) = queue
    <3> DEFINE r == <<handling>> \o queue
    <3>1. /\ r \in Seq(Message) /\ Len(r) = 1 + Len(queue)
          /\ \A i \in 1..(1 + Len(queue)) :
               r[i] = IF i <= 1 THEN <<handling>>[i] ELSE queue[i - 1]
      BY <1>0, <2>1, ConcatProperties
    <3>2. r # << >> /\ Head(r) = handling
      BY <1>0, <3>1
    <3>3. /\ Tail(r) \in Seq(Message) /\ Len(Tail(r)) = Len(queue)
          /\ \A i \in 1..Len(queue) : Tail(r)[i] = queue[i]
      BY <1>0, <3>1, <3>2, HeadTailProperties
    <3>4. Tail(r) = queue
      BY <1>0, <3>3, SeqEqual
    <3>5. QED
      BY <2>1, <3>2, <3>4 DEF Contents
  <2>4. QED
    BY <2>1, <2>2, <2>3 DEF Promise!Next, Promise!Deliver
<1>5. CASE CloseQueue
  <2>1. /\ UNCHANGED <<Contents, handled>> /\ closed' = TRUE /\ ~closed
    BY <1>5 DEF CloseQueue, receiver, Contents, InHand, IInv, ClosedLate
  <2>2. QED
    BY <2>1 DEF Promise!Next, Promise!Close
<1>6. CASE StartStep \/ LoopEnds \/ Cancel \/ SessionEnds \/ ShutdownTimeout
  BY <1>1, <1>6
  DEF StartStep, OpenSession, ConnectFails, ReportConnected, StartReceiving, LoopEnds,
      Cancel, SessionEnds, ShutdownTimeout, inbox, receiver
<1>7. CASE SkipDisconnect \/ CloseSession \/ ReportDisconnected \/ WaitForLoop
  BY <1>1, <1>7
  DEF SkipDisconnect, CloseSession, ReportDisconnected, WaitForLoop, inbox, receiver
<1>8. ASSUME NEW m \in Message, Arrive(m) PROVE UNCHANGED View
  BY <1>8 DEF Arrive, receiver, Contents, InHand
<1>9. CASE UNCHANGED vars
  BY <1>1, <1>9 DEF vars
<1>10. QED
  BY <1>2, <1>3, <1>4, <1>5, <1>6, <1>7, <1>8, <1>9
  DEF Next, LoopStep, StopStep, Promise!Next

\* Whatever the platform, the callbacks, the loop and the stop do, the gateway sees
\* an inbox that keeps what it has accepted and hands it over in order (base.go).
THEOREM QueueImplementsInbox == Spec => InboxPromise
<1>1. IInv /\ [Next]_vars => [Promise!Next]_<<Contents, handled, ~closed>>
  BY StepPromise
<1>2. QED
  BY <1>1, InitInv, StepInv, InitPromise, PTL DEF Spec, InboxPromise, Promise!Spec

-----------------------------------------------------------------------------
(* The replies of the Teams adapter.                                         *)

\* A reply goes on only with chunks left.
ChunksLeft == reply # "idle" => chunk < MaxChunks

\* What an exchange is about to bring lives for its life from some time between
\* the request and now.
LifeBegan ==
  /\ reply \in {"fetch", "issued"} => deadline <= now + Timeout
  /\ reply = "issued" => deadline - Timeout + inHand.life <= inHand.until

\* A token kept is valid for a margin, less one exchange, beyond its expiry.
KeptMargin == token # NoToken => token.expiry + Margin - Timeout <= token.until

\* A token that lives long enough is valid until the post that carries it is over.
PostInTime ==
  reply = "post" /\ inHand.life > 2 * Timeout => deadline < inHand.until

SendingInv == IInv /\ SendingOK /\ ChunksLeft /\ LifeBegan /\ KeptMargin /\ PostInTime

\* A turn of the loop ends, and a reply with it, only by PublishReturns.
LEMMA LoopStays ==
  ASSUME IInv, Next, loop = "publish", loop' # "publish"
  PROVE  handled' # handled
<1>1. handled \in Seq(Message) /\ handling \in Message
  BY DEF IInv, QueueInv, TypeOK
<1>2. ~StartStep /\ ~TakeMessage /\ ~LoopEnds
  BY DEF IInv, LoopStarted, StartStep, OpenSession, ConnectFails, ReportConnected,
         StartReceiving, TakeMessage, LoopEnds
<1>3. ~StopStep /\ ~Cancel /\ ~SessionEnds /\ ~ShutdownTimeout
  BY DEF StopStep, SkipDisconnect, CloseSession, ReportDisconnected, CloseQueue,
         WaitForLoop, Cancel, SessionEnds, ShutdownTimeout, receiver
<1>4. \A m \in Message : ~Arrive(m) /\ ~QueueMessage(m)
  BY DEF Arrive, QueueMessage, receiver
<1>5. handled' = Append(handled, handling)
  BY <1>2, <1>3, <1>4 DEF Next, LoopStep, PublishReturns
<1>6. Append(handled, handling) # handled
  BY <1>1, AppendProperties
<1>7. QED
  BY <1>5, <1>6

\* Nothing is on its way before the first reply.
LEMMA InitSending == TeamsInit => SendingInv
<1> SUFFICES ASSUME TeamsInit PROVE SendingInv
  OBVIOUS
<1>1. IInv
  BY InitInv DEF TeamsInit
<1>2. SendingOK
  BY TeamsAssumption DEF TeamsInit, SendingOK
<1>3. QED
  BY <1>1, <1>2
  DEF TeamsInit, SendingInv, ChunksLeft, LifeBegan, KeptMargin, PostInTime

\* The channel goes on around a reply.
LEMMA WhileSending == ASSUME SendingInv, While(Next) PROVE SendingInv'
<1>1. /\ IInv /\ Next /\ UNCHANGED <<now, token, reply, inHand, deadline>>
      /\ handled' # handled => reply = "idle"
      /\ chunk' = IF handled' # handled THEN 0 ELSE chunk
  BY DEF SendingInv, While
<1>2. IInv'
  BY <1>1, StepInv
<1>3. reply # "idle" => loop' = "publish" /\ chunk' = chunk
  BY <1>1, LoopStays DEF SendingInv, SendingOK
<1>4. chunk' \in 0..MaxChunks
  BY <1>1, TeamsAssumption DEF SendingInv, SendingOK
<1>5. SendingOK'
  BY <1>1, <1>3, <1>4 DEF SendingInv, SendingOK
<1>6. ChunksLeft' /\ LifeBegan' /\ KeptMargin' /\ PostInTime'
  BY <1>1, <1>3 DEF SendingInv, ChunksLeft, LifeBegan, KeptMargin, PostInTime
<1>7. QED
  BY <1>2, <1>5, <1>6 DEF SendingInv

\* The channel stands still while a reply takes a step.
LEMMA ChannelKept == ASSUME IInv, UNCHANGED vars PROVE IInv' /\ loop' = loop
<1>1. IInv'
  BY StepInv
<1>2. QED
  BY <1>1 DEF vars

\* The clock moves on, but not beyond the deadline of an exchange.
LEMMA TickSending == ASSUME SendingInv, Tick PROVE SendingInv'
<1>1. IInv' /\ loop' = loop
  BY ChannelKept DEF SendingInv, Tick
<1>2. /\ now \in Nat /\ now' = now + 1 /\ now' \in 0..MaxTime
      /\ reply # "idle" => now < deadline
      /\ deadline \in Nat /\ Timeout \in Nat
      /\ UNCHANGED <<token, reply, inHand, deadline, chunk>>
  BY TeamsAssumption DEF SendingInv, SendingOK, Tick
<1>3. SendingOK'
  BY <1>1, <1>2 DEF SendingInv, SendingOK
<1>4. ChunksLeft' /\ LifeBegan' /\ KeptMargin' /\ PostInTime'
  BY <1>2 DEF SendingInv, ChunksLeft, LifeBegan, KeptMargin, PostInTime
<1>5. QED
  BY <1>1, <1>3, <1>4 DEF SendingInv

\* A token that is sent at once outlives its post by the margin that was kept.
LEMMA SendMessageSending == ASSUME SendingInv, SendMessage PROVE SendingInv'
<1>1. IInv' /\ loop' = loop
  BY ChannelKept DEF SendingInv, SendMessage
<1>2. /\ loop = "publish" /\ reply = "idle" /\ chunk < MaxChunks
      /\ now \in Nat /\ now \in 0..MaxTime /\ chunk \in 0..MaxChunks
      /\ Timeout \in Nat /\ Margin \in Nat /\ Margin >= 2 * Timeout
      /\ MaxChunks \in Nat /\ NoToken \notin Issued \cup Kept
      /\ token \in Kept \cup {NoToken} /\ deadline \in Nat
      /\ UNCHANGED <<now, token>>
  BY TeamsAssumption DEF SendingInv, SendingOK, SendMessage
<1>3. KeptMargin'
  BY <1>2 DEF SendingInv, KeptMargin
<1>4. CASE GiveUp
  BY <1>1, <1>2, <1>3, <1>4
  DEF GiveUp, SendingInv, SendingOK, ChunksLeft, LifeBegan, PostInTime
<1>5. CASE Fresh(token) /\ Request("post", token) /\ UNCHANGED chunk
  <2>1. /\ token \in Kept /\ token # NoToken /\ now < token.expiry
        /\ reply' = "post" /\ inHand' = token /\ deadline' = now + Timeout
        /\ chunk' = chunk
    BY <1>2, <1>5 DEF Fresh, Request
  <2>2. token.until \in Nat /\ token.expiry \in Int
    BY <2>1 DEF Kept
  <2>3. token.expiry + Margin - Timeout <= token.until
    BY <2>1 DEF SendingInv, KeptMargin
  <2>4. deadline' < inHand'.until
    BY <1>2, <2>1, <2>2, <2>3
  <2>5. SendingOK'
    BY <1>1, <1>2, <2>1 DEF SendingOK
  <2>6. QED
    BY <1>1, <1>2, <1>3, <2>1, <2>4, <2>5
    DEF SendingInv, ChunksLeft, LifeBegan, PostInTime
<1>6. CASE Request("fetch", NoToken) /\ UNCHANGED chunk
  <2>1. /\ reply' = "fetch" /\ inHand' = NoToken /\ deadline' = now + Timeout
        /\ chunk' = chunk
    BY <1>6 DEF Request
  <2>2. SendingOK'
    BY <1>1, <1>2, <2>1 DEF SendingOK
  <2>3. QED
    BY <1>1, <1>2, <1>3, <2>1, <2>2
    DEF SendingInv, ChunksLeft, LifeBegan, PostInTime
<1>7. QED
  BY <1>4, <1>5, <1>6 DEF SendMessage

\* A token's life begins when it is issued, after it has been requested.
LEMMA IssueSending ==
  ASSUME SendingInv, NEW life \in Lifetime, Issue(life)
  PROVE  SendingInv'
<1>1. IInv' /\ loop' = loop
  BY ChannelKept DEF SendingInv, Issue
<1> DEFINE t == [until |-> now + life, life |-> life]
<1>2. /\ reply = "fetch" /\ reply' = "issued" /\ inHand' = t
      /\ UNCHANGED <<now, token, deadline, chunk>>
      /\ now \in Nat /\ life \in Nat /\ deadline \in Nat /\ Timeout \in Nat
      /\ NoToken \notin Issued
  BY TeamsAssumption DEF SendingInv, SendingOK, Issue
<1>3. t \in Issued /\ t.until = now + life /\ t.life = life
  BY <1>2 DEF Issued
<1>4. SendingOK'
  BY <1>1, <1>2, <1>3 DEF SendingInv, SendingOK
<1>5. LifeBegan'
  BY <1>2, <1>3 DEF SendingInv, LifeBegan
<1>6. ChunksLeft' /\ KeptMargin' /\ PostInTime'
  BY <1>2 DEF SendingInv, ChunksLeft, KeptMargin, PostInTime
<1>7. QED
  BY <1>1, <1>4, <1>5, <1>6 DEF SendingInv

\* The token fetched is kept, and the chunk is posted with it.
LEMMA FetchReturnsSending == ASSUME SendingInv, FetchReturns PROVE SendingInv'
<1>1. IInv' /\ loop' = loop
  BY ChannelKept DEF SendingInv, FetchReturns
<1>2. /\ reply = "issued" /\ now <= deadline /\ now \in Nat /\ deadline \in Nat
      /\ Timeout \in Nat /\ Margin \in Nat /\ NoToken \notin Kept
      /\ inHand \in Issued \cup Kept
      /\ deadline - Timeout + inHand.life <= inHand.until
      /\ UNCHANGED <<now, chunk>>
  BY TeamsAssumption DEF SendingInv, SendingOK, LifeBegan, FetchReturns
<1>3. inHand.until \in Nat /\ inHand.life \in Lifetime /\ inHand.life \in Nat
  BY <1>2, TeamsAssumption DEF Issued, Kept
<1> DEFINE t == [until |-> inHand.until, life |-> inHand.life,
                 expiry |-> now + inHand.life - Margin]
<1>4. /\ token' = t /\ inHand' = t /\ reply' = "post" /\ deadline' = now + Timeout
      /\ t.until = inHand.until /\ t.life = inHand.life
      /\ t.expiry = now + inHand.life - Margin
  BY DEF FetchReturns, Request
<1>5. t \in Kept
  BY <1>2, <1>3 DEF Kept
<1>6. SendingOK'
  BY <1>1, <1>2, <1>4, <1>5 DEF SendingInv, SendingOK
<1>7. KeptMargin'
  BY <1>2, <1>3, <1>4 DEF KeptMargin
<1>8. PostInTime'
  BY <1>2, <1>3, <1>4 DEF PostInTime
<1>9. ChunksLeft' /\ LifeBegan'
  BY <1>2, <1>4 DEF SendingInv, ChunksLeft, LifeBegan
<1>10. QED
  BY <1>1, <1>6, <1>7, <1>8, <1>9 DEF SendingInv

\* An exchange ends, with the chunk delivered or the reply given up.
LEMMA ExchangeEndsSending == ASSUME SendingInv, FetchFails \/ PostReturns PROVE SendingInv'
<1>1. IInv' /\ loop' = loop
  BY ChannelKept DEF SendingInv, FetchFails, PostReturns
<1>2. /\ UNCHANGED <<now, token, deadline>> /\ reply' = "idle" /\ inHand' = NoToken
      /\ chunk' \in {MaxChunks, chunk + 1}
  BY DEF FetchFails, PostReturns, GiveUp
<1>3. chunk \in Nat /\ chunk < MaxChunks /\ MaxChunks \in Nat
  BY TeamsAssumption DEF SendingInv, SendingOK, ChunksLeft, FetchFails, PostReturns
<1>4. chunk' \in 0..MaxChunks
  BY <1>2, <1>3
<1>5. SendingOK'
  BY <1>1, <1>2, <1>4 DEF SendingInv, SendingOK
<1>6. ChunksLeft' /\ LifeBegan' /\ KeptMargin' /\ PostInTime'
  BY <1>2 DEF SendingInv, ChunksLeft, LifeBegan, KeptMargin, PostInTime
<1>7. QED
  BY <1>1, <1>5, <1>6 DEF SendingInv

LEMMA StepSending == SendingInv /\ [TeamsNext]_<<vars, sending>> => SendingInv'
<1> SUFFICES ASSUME SendingInv, [TeamsNext]_<<vars, sending>> PROVE SendingInv'
  OBVIOUS
<1>1. CASE UNCHANGED <<vars, sending>>
  <2>1. IInv' /\ loop' = loop
    BY <1>1, ChannelKept DEF SendingInv
  <2>2. QED
    BY <1>1, <2>1
    DEF sending, SendingInv, SendingOK, ChunksLeft, LifeBegan, KeptMargin, PostInTime
<1>2. QED
  BY <1>1, WhileSending, TickSending, SendMessageSending, IssueSending,
     FetchReturnsSending, ExchangeEndsSending
  DEF TeamsNext, ReplyStep

\* No reply reaches the service with a token that has expired, however slow the
\* token endpoint and the service are, unless the token's whole life is no longer
\* than two exchanges (getBearerToken in teams.go).
THEOREM TokensLive == TeamsSpec => []TokenLive
<1>1. SendingInv => TokenLive
  <2> SUFFICES ASSUME SendingInv, reply = "post", inHand.life > 2 * Timeout
               PROVE  now < inHand.until
    BY DEF SendingInv, TokenLive
  <2>1. /\ now <= deadline /\ deadline < inHand.until /\ deadline \in Nat /\ now \in Nat
        /\ inHand \in Issued \cup Kept
    BY TeamsAssumption DEF SendingInv, SendingOK, PostInTime
  <2>2. inHand.until \in Nat
    BY <2>1 DEF Issued, Kept
  <2>3. QED
    BY <2>1, <2>2
<1>2. QED
  BY <1>1, InitSending, StepSending, PTL DEF TeamsSpec

\* With the replies of Teams in it, the channel is still the channel: every step is
\* one of the channel's or none.
LEMMA TeamsChannel == TeamsSpec => Spec
<1>1. TeamsInit => Init
  BY DEF TeamsInit
<1>2. [TeamsNext]_<<vars, sending>> => [Next]_vars
  BY DEF TeamsNext, While, SendMessage, Issue, ReplyStep, FetchReturns, FetchFails,
         PostReturns, Tick
<1>3. QED
  BY <1>1, <1>2, PTL DEF TeamsSpec, Spec

\* So the queue's correctness and the inbox hold of it as well.
THEOREM TeamsQueueCorrect == TeamsSpec => []QueueInv /\ InboxPromise
BY TeamsChannel, QueueCorrect, QueueImplementsInbox, PTL

-----------------------------------------------------------------------------
(* The WebSocket server: what a handler is at, and what its client has seen. *)

\* Where a handler has a request in hand.
Busy == {"charge", "process", "open", "relay", "single", "store", "write"}

\* The request in hand is of a kind that goes this way.
RightPlace(p, s, n, o) ==
  /\ p \in Busy => n > 0
  /\ p = "charge" => s[n] \in Streamed
  /\ p \in {"open", "relay"} => s[n] = "stream"
  /\ p = "single" => s[n] \in {"system", "plan"}
  /\ p = "process" => s[n] \in {"sync", "plan"}
  /\ p = "write" => o # "none" /\ (o = "reply" <=> s[n] \in {"bad", "sync"})

\* The frames are of requests read so far, in order, each ended by its last frame.
InOrder(f) ==
  \A i \in DOMAIN f :
    /\ i = 1 => f[i].request = 1
    /\ i > 1 => f[i].request = f[i-1].request + (IF Last(f[i-1]) THEN 1 ELSE 0)

RightFrames(f, s, n) ==
  \A i \in DOMAIN f :
    /\ f[i].request \in 1..n
    /\ f[i].type = "reply" <=> s[f[i].request] \in {"bad", "sync"}

\* The next frame may be one of the answer to request n.
Follows(f, n) ==
  IF f = << >> THEN n = 1
  ELSE n = f[Len(f)].request + (IF Last(f[Len(f)]) THEN 1 ELSE 0)

\* While the connection is open, the client has the answers to all requests before
\* the one in hand, or that was read last, and of that one a beginning or the whole.
UpToDate(lk, p, f, n) ==
  /\ p = "off" => f = << >> /\ n = 0
  /\ lk = "open" /\ p \in Busy => Follows(f, n)
  /\ lk = "open" /\ p \in {"register", "read"} =>
       Follows(f, n + 1) /\ (f # << >> => Last(f[Len(f)]))

Talk(lk, p, s, n, o, f, max) ==
  /\ n <= Len(s) /\ Len(s) <= max
  /\ RightPlace(p, s, n, o)
  /\ InOrder(f)
  /\ RightFrames(f, s, n)
  /\ UpToDate(lk, p, f, n)

Talks == \A c \in Conn : Talk(link[c], pc[c], sent[c], taken[c], out[c], frames[c], MaxRequests[c])

Shapes ==
  /\ link \in [Conn -> {"none", "open", "lost", "closed"}]
  /\ pc \in [Conn -> Label]
  /\ sent \in [Conn -> Seq(Kind)]
  /\ taken \in [Conn -> Nat]
  /\ chunks \in [Conn -> 0..MaxRelayed]
  /\ out \in [Conn -> {"none", "reply", "done", "error"}]
  /\ frames \in [Conn -> Seq(Frame)]

TalkInv == Shapes /\ Talks

\* A step of one connection leaves the conversations of the others as they were.
LEMMA OneTalk ==
  ASSUME TalkInv, Shapes', NEW c \in Conn,
         \A d \in Conn : d # c =>
           /\ link'[d] = link[d] /\ pc'[d] = pc[d] /\ sent'[d] = sent[d]
           /\ taken'[d] = taken[d] /\ out'[d] = out[d] /\ frames'[d] = frames[d],
         Talk(link'[c], pc'[c], sent'[c], taken'[c], out'[c], frames'[c], MaxRequests[c])
  PROVE  TalkInv'
<1>1. \A d \in Conn :
        Talk(link'[d], pc'[d], sent'[d], taken'[d], out'[d], frames'[d], MaxRequests[d])
  BY DEF TalkInv, Talks
<1>2. QED
  BY <1>1 DEF TalkInv, Talks

\* A frame of the answer that follows keeps the order.
LEMMA FrameAdded ==
  ASSUME NEW f \in Seq(Frame), NEW s \in Seq(Kind), NEW n \in Nat \ {0},
         NEW t \in {"reply", "chunk", "done", "error"},
         InOrder(f), RightFrames(f, s, n), Follows(f, n),
         t = "reply" <=> s[n] \in {"bad", "sync"},
         NEW g, g = Append(f, [request |-> n, type |-> t])
  PROVE  /\ g \in Seq(Frame) /\ InOrder(g) /\ RightFrames(g, s, n)
         /\ t = "chunk" => Follows(g, n)
         /\ t # "chunk" => Follows(g, n + 1) /\ Last(g[Len(g)])
<1> DEFINE r == [request |-> n, type |-> t]
<1>1. r \in Frame /\ r.request = n /\ r.type = t /\ (Last(r) <=> t # "chunk")
  BY DEF Frame, Last
<1>2. /\ g \in Seq(Frame) /\ Len(g) = Len(f) + 1 /\ g[Len(f) + 1] = r
      /\ \A i \in 1..Len(f) : g[i] = f[i]
      /\ DOMAIN g = 1..(Len(f) + 1) /\ DOMAIN f = 1..Len(f) /\ Len(f) \in Nat
  BY <1>1
<1>3. InOrder(g)
  <2> SUFFICES ASSUME NEW i \in 1..(Len(f) + 1)
               PROVE  /\ i = 1 => g[i].request = 1
                      /\ i > 1 => g[i].request = g[i-1].request
                                    + (IF Last(g[i-1]) THEN 1 ELSE 0)
    BY <1>2 DEF InOrder
  <2>1. CASE i \in 1..Len(f)
    <3>1. g[i] = f[i] /\ (i > 1 => g[i-1] = f[i-1])
      BY <1>2, <2>1
    <3>2. QED
      BY <1>2, <2>1, <3>1 DEF InOrder
  <2>2. CASE i = Len(f) + 1 /\ f = << >>
    BY <1>1, <1>2, <2>2 DEF Follows
  <2>3. CASE i = Len(f) + 1 /\ f # << >>
    <3>0. Len(f) \in 1..Len(f)
      BY <1>2, <2>3, EmptySeq
    <3>1. i > 1 /\ i - 1 = Len(f) /\ g[i-1] = f[Len(f)]
      BY <1>2, <2>3, <3>0
    <3>2. n = f[Len(f)].request + (IF Last(f[Len(f)]) THEN 1 ELSE 0)
      BY <2>3 DEF Follows
    <3>3. g[i].request = n
      BY <1>1, <1>2, <2>3
    <3>4. QED
      BY <3>1, <3>2, <3>3
  <2>4. QED
    BY <1>2, <2>1, <2>2, <2>3
<1>4. RightFrames(g, s, n)
  <2> SUFFICES ASSUME NEW i \in 1..(Len(f) + 1)
               PROVE  /\ g[i].request \in 1..n
                      /\ g[i].type = "reply" <=> s[g[i].request] \in {"bad", "sync"}
    BY <1>2 DEF RightFrames
  <2>1. CASE i \in 1..Len(f)
    BY <1>2, <2>1 DEF RightFrames
  <2>2. CASE i = Len(f) + 1
    BY <1>1, <1>2, <2>2
  <2>3. QED
    BY <1>2, <2>1, <2>2
<1>5. g # << >> /\ g[Len(g)] = r
  BY <1>2
<1>6. t = "chunk" => Follows(g, n)
  BY <1>1, <1>5 DEF Follows
<1>7. t # "chunk" => Follows(g, n + 1) /\ Last(g[Len(g)])
  BY <1>1, <1>5 DEF Follows
<1>8. QED
  BY <1>2, <1>3, <1>4, <1>6, <1>7

\* What a handler is about to write, if anything.
Frameless == {"none", "reply", "done", "error"}

\* A handler moves on without writing to an open connection.
LEMMA PlaceMoves ==
  ASSUME TalkInv, NEW c \in Conn, NEW p \in Label, Goto(c, p),
         UNCHANGED <<sent, taken, frames, link>>, chunks' \in [Conn -> 0..MaxRelayed],
         out' \in [Conn -> Frameless], \A d \in Conn : d # c => out'[d] = out[d],
         RightPlace(p, sent[c], taken[c], out'[c]), p # "off",
         link[c] = "open" =>
           /\ p \in Busy => pc[c] \in Busy
           /\ p \in {"register", "read"} => pc[c] \in {"register", "read"}
  PROVE  TalkInv'
<1>0. /\ Shapes
      /\ Talk(link[c], pc[c], sent[c], taken[c], out[c], frames[c], MaxRequests[c])
  BY DEF TalkInv, Talks
<1>1. /\ pc' \in [Conn -> Label] /\ pc'[c] = p
      /\ \A d \in Conn : d # c => pc'[d] = pc[d]
  BY <1>0 DEF Goto, Shapes
<1>2. Shapes'
  BY <1>0, <1>1 DEF Shapes, Frameless
<1>3. Talk(link'[c], pc'[c], sent'[c], taken'[c], out'[c], frames'[c], MaxRequests[c])
  BY <1>0, <1>1 DEF Talk, UpToDate
<1>4. QED
  BY <1>1, <1>2, <1>3, OneTalk

\* A handler writes a frame of the answer to the request in hand, and after the last
\* one reads on.
LEMMA FrameMoves ==
  ASSUME TalkInv, NEW c \in Conn, NEW p \in Label, NEW t \in {"reply", "chunk", "done", "error"},
         pc[c] \in Busy, link[c] = "open", Delivered(c, t),
         t = "reply" <=> KindOf(c) \in {"bad", "sync"},
         pc' \in [Conn -> Label], pc'[c] = p, \A d \in Conn : d # c => pc'[d] = pc[d],
         p \in Busy \cup {"read"}, p \in Busy <=> t = "chunk",
         UNCHANGED <<sent, taken, link>>, chunks' \in [Conn -> 0..MaxRelayed],
         out' \in [Conn -> Frameless], \A d \in Conn : d # c => out'[d] = out[d],
         RightPlace(p, sent[c], taken[c], out'[c])
  PROVE  TalkInv'
<1>0. /\ Shapes
      /\ Talk(link[c], pc[c], sent[c], taken[c], out[c], frames[c], MaxRequests[c])
  BY DEF TalkInv, Talks
<1> DEFINE f == frames[c]
           s == sent[c]
           n == taken[c]
           g == Append(frames[c], [request |-> taken[c], type |-> t])
<1>1. f \in Seq(Frame) /\ s \in Seq(Kind) /\ n \in Nat \ {0}
  BY <1>0 DEF Shapes, Talk, RightPlace
<1>2. InOrder(f) /\ RightFrames(f, s, n) /\ Follows(f, n)
  BY <1>0 DEF Talk, UpToDate
<1>3. t = "reply" <=> s[n] \in {"bad", "sync"}
  BY DEF KindOf
<1>4. /\ g \in Seq(Frame) /\ InOrder(g) /\ RightFrames(g, s, n)
      /\ t = "chunk" => Follows(g, n)
      /\ t # "chunk" => Follows(g, n + 1) /\ Last(g[Len(g)])
  <2> HIDE DEF f, s, n, g
  <2>1. g = Append(f, [request |-> n, type |-> t])
    BY DEF f, n, g
  <2>2. QED
    BY <1>1, <1>2, <1>3, <2>1, FrameAdded
<1>5. /\ frames' \in [Conn -> Seq(Frame)] /\ frames'[c] = g
      /\ \A d \in Conn : d # c => frames'[d] = frames[d]
  BY <1>0, <1>4 DEF Delivered, Shapes
<1>6. Shapes'
  BY <1>0, <1>5 DEF Shapes, Frameless
<1>7. UpToDate(link'[c], p, g, n)
  BY <1>4 DEF UpToDate, Busy
<1>8. Talk(link'[c], pc'[c], sent'[c], taken'[c], out'[c], frames'[c], MaxRequests[c])
  BY <1>0, <1>4, <1>5, <1>7 DEF Talk
<1>9. QED
  BY <1>5, <1>6, <1>8, OneTalk

\* The steps of a handler that write nothing.
LEMMA QuietTalk ==
  ASSUME TalkInv, NEW c \in Conn,
         \/ Register(c) \/ ReadFails(c) \/ Charge(c) \/ Process(c) \/ ProcessRefused(c)
         \/ OpenStream(c) \/ OpenFails(c) \/ StreamEnds(c) \/ Store(c)
  PROVE  TalkInv'
<1>0. /\ Shapes
      /\ Talk(link[c], pc[c], sent[c], taken[c], out[c], frames[c], MaxRequests[c])
      /\ RightPlace(pc[c], sent[c], taken[c], out[c])
      /\ UNCHANGED sent /\ UNCHANGED taken /\ UNCHANGED frames /\ UNCHANGED link
  BY DEF TalkInv, Talks, Talk, Register, ReadFails, Charge, Process, ProcessRefused, OpenStream,
         OpenFails, StreamEnds, Store, net
<1>1. PICK p \in Label : Goto(c, p) /\ p \notin {"off", "register"}
  BY DEF Register, ReadFails, Charge, Process, ProcessRefused, OpenStream, OpenFails,
         StreamEnds, Store, Answer, Label
<1>2. /\ chunks' \in [Conn -> 0..MaxRelayed] /\ out' \in [Conn -> Frameless]
      /\ \A d \in Conn : d # c => out'[d] = out[d]
  <2>1. chunks' = chunks \/ chunks' = [chunks EXCEPT ![c] = 0]
    BY DEF Register, ReadFails, Charge, Process, ProcessRefused, OpenStream, OpenFails,
           StreamEnds, Store
  <2>2. out' = out \/ \E o \in Frameless : out' = [out EXCEPT ![c] = o]
    BY DEF Register, ReadFails, Charge, Process, ProcessRefused, OpenStream, OpenFails,
           StreamEnds, Store, Answer, ErrorFrame, Frameless
  <2>3. 0 \in 0..MaxRelayed
    BY StreamAssumption
  <2>4. QED
    BY <1>0, <2>1, <2>2, <2>3 DEF Shapes, Frameless
<1>3. pc'[c] = p
  BY <1>0, <1>1 DEF Goto, Shapes
<1>4. RightPlace(p, sent[c], taken[c], out'[c])
      /\ (p \in Busy => pc[c] \in Busy) /\ (p = "read" => pc[c] = "register")
  <2>1. CASE Register(c) \/ ReadFails(c)
    <3>1. p \in {"read", "cleanup"} /\ (p = "read" => pc[c] = "register")
      BY <1>0, <1>3, <2>1 DEF Register, ReadFails, Goto, Shapes
    <3>2. QED
      BY <3>1 DEF RightPlace, Busy
  <2>2. CASE Charge(c)
    <3>1. pc[c] = "charge" /\ sent[c][taken[c]] \in Streamed /\ taken[c] > 0
      BY <1>0, <2>2 DEF Charge, RightPlace, Busy
    <3>2. \/ sent[c][taken[c]] = "system" /\ p = "single"
          \/ sent[c][taken[c]] = "plan" /\ p = "process"
          \/ sent[c][taken[c]] = "stream" /\ p = "open"
          \/ p = "write" /\ out'[c] = "error"
      BY <1>0, <1>3, <2>2, <3>1 DEF Charge, Answer, Goto, KindOf, Streamed, Shapes
    <3>3. QED
      BY <3>1, <3>2 DEF RightPlace, Busy, Streamed
  <2>3. CASE Process(c) \/ ProcessRefused(c)
    <3>1. pc[c] = "process" /\ sent[c][taken[c]] \in {"sync", "plan"} /\ taken[c] > 0
      BY <1>0, <2>3 DEF Process, ProcessRefused, RightPlace, Busy
    <3>2. p = "store" \/ (p = "write" /\ out'[c] = ErrorFrame(c))
      BY <1>0, <1>3, <2>3 DEF Process, ProcessRefused, Answer, Goto, Shapes
    <3>3. QED
      BY <3>1, <3>2 DEF RightPlace, Busy, ErrorFrame, KindOf, Streamed
  <2>4. CASE OpenStream(c) \/ OpenFails(c)
    <3>1. pc[c] = "open" /\ sent[c][taken[c]] = "stream" /\ taken[c] > 0
      BY <1>0, <2>4 DEF OpenStream, OpenFails, RightPlace, Busy
    <3>2. p = "relay" \/ (p = "write" /\ out'[c] = "error")
      BY <1>0, <1>3, <2>4 DEF OpenStream, OpenFails, Answer, Goto, Shapes
    <3>3. QED
      BY <3>1, <3>2 DEF RightPlace, Busy
  <2>5. CASE StreamEnds(c)
    <3>1. pc[c] = "relay" /\ taken[c] > 0 /\ p = "store"
      BY <1>0, <1>3, <2>5 DEF StreamEnds, RightPlace, Busy, Goto, Shapes
    <3>2. QED
      BY <3>1 DEF RightPlace, Busy
  <2>6. CASE Store(c)
    <3>1. pc[c] = "store" /\ taken[c] > 0
      BY <1>0, <2>6 DEF Store, RightPlace, Busy
    <3>2. \/ sent[c][taken[c]] = "sync" /\ p = "write" /\ out'[c] = "reply"
          \/ sent[c][taken[c]] = "plan" /\ p = "single"
          \/ sent[c][taken[c]] = "stream" /\ p = "write" /\ out'[c] = "done"
      BY <1>0, <1>3, <2>6 DEF Store, Answer, Goto, KindOf, Shapes
    <3>3. QED
      BY <3>1, <3>2 DEF RightPlace, Busy
  <2>7. QED
    BY <2>1, <2>2, <2>3, <2>4, <2>5, <2>6
<1>5. QED
  BY <1>0, <1>1, <1>2, <1>4, PlaceMoves

\* The steps that write a frame: on an open connection the client gets it, and
\* otherwise nothing more is owed to it.
LEMMA WritingTalk ==
  ASSUME TalkInv, NEW c \in Conn, Relay(c) \/ Single(c) \/ Write(c)
  PROVE  TalkInv'
<1>0. /\ Shapes
      /\ Talk(link[c], pc[c], sent[c], taken[c], out[c], frames[c], MaxRequests[c])
      /\ RightPlace(pc[c], sent[c], taken[c], out[c])
      /\ UNCHANGED sent /\ UNCHANGED taken /\ UNCHANGED link
      /\ pc[c] \in {"relay", "single", "write"} /\ pc[c] \in Label /\ pc[c] \in Busy
  BY DEF TalkInv, Talks, Talk, Relay, Single, Write, net, Label, Busy
<1>1. /\ chunks' \in [Conn -> 0..MaxRelayed] /\ out' \in [Conn -> Frameless]
      /\ \A d \in Conn : d # c => out'[d] = out[d]
      /\ pc' \in [Conn -> Label] /\ \A d \in Conn : d # c => pc'[d] = pc[d]
  <2>1. \/ UNCHANGED chunks
        \/ chunks' = [chunks EXCEPT ![c] = 0]
        \/ chunks[c] < MaxRelayed /\ chunks' = [chunks EXCEPT ![c] = @ + 1]
    BY DEF Relay, Single, Write
  <2>2. out' = out \/ \E o \in Frameless : out' = [out EXCEPT ![c] = o]
    BY DEF Relay, Single, Write, Answer, Frameless
  <2>3. pc' = pc \/ \E p \in Label : pc' = [pc EXCEPT ![c] = p]
    BY DEF Relay, Single, Write, Answer, Goto, Label
  <2>4. MaxRelayed \in Nat
    BY StreamAssumption
  <2>5. chunks' \in [Conn -> 0..MaxRelayed]
    BY <1>0, <2>1, <2>4 DEF Shapes
  <2>6. QED
    BY <1>0, <2>2, <2>3, <2>5 DEF Shapes, Frameless
<1>2. CASE frames' = frames /\ link[c] # "open"
  <2>1. PICK p \in Label : Goto(c, p) /\ p \notin {"off", "single"}
    <3>1. CASE Relay(c) /\ pc' = pc
      <4>1. pc' = [pc EXCEPT ![c] = "relay"]
        BY <1>0, <3>1 DEF Shapes, Relay
      <4>2. QED
        BY <4>1 DEF Goto, Label
    <3>2. CASE ~(Relay(c) /\ pc' = pc)
      BY <3>2 DEF Relay, Single, Write, Answer, Goto, Label
    <3>3. QED
      BY <3>1, <3>2
  <2>2. RightPlace(p, sent[c], taken[c], out'[c])
    <3>1. pc'[c] = p /\ taken[c] > 0
      BY <1>0, <2>1 DEF Goto, Shapes, RightPlace
    <3>2. CASE Relay(c)
      <4>1. sent[c][taken[c]] = "stream"
        BY <1>0, <3>2 DEF RightPlace, Relay
      <4>2. p = "relay" \/ (p = "write" /\ out'[c] = "error")
        BY <1>0, <3>1, <3>2 DEF Relay, Answer, Goto, Shapes
      <4>3. QED
        BY <3>1, <4>1, <4>2 DEF RightPlace, Busy
    <3>3. CASE Single(c)
      <4>1. sent[c][taken[c]] \in {"system", "plan"}
        BY <1>0, <3>3 DEF RightPlace, Single
      <4>2. p = "write" /\ out'[c] \in {"error", "done"}
        BY <1>0, <3>1, <3>3 DEF Single, Answer, Goto, Shapes
      <4>3. QED
        BY <3>1, <4>1, <4>2 DEF RightPlace, Busy
    <3>4. CASE Write(c)
      <4>1. p \in {"read", "cleanup"}
        BY <1>0, <3>1, <3>4 DEF Write, Goto, Shapes
      <4>2. QED
        BY <4>1 DEF RightPlace, Busy
    <3>5. QED
      BY <3>2, <3>3, <3>4
  <2>3. QED
    BY <1>0, <1>1, <1>2, <2>1, <2>2, PlaceMoves
<1>3. ASSUME link[c] = "open", Relay(c) PROVE TalkInv'
  <2>1. pc[c] = "relay" /\ pc' = pc /\ out' = out /\ Delivered(c, "chunk")
        /\ sent[c][taken[c]] = "stream"
    BY <1>0, <1>3 DEF Relay, WriteWorks, WriteFails, RightPlace
  <2>2. "relay" \in Label /\ "relay" \in Busy
    BY DEF Label, Busy
  <2>3. "chunk" = "reply" <=> KindOf(c) \in {"bad", "sync"}
    BY <2>1 DEF KindOf
  <2>4. QED
    BY <1>0, <1>1, <1>3, <2>1, <2>2, <2>3, FrameMoves
<1>4. ASSUME link[c] = "open", Single(c) PROVE TalkInv'
  <2>1. pc[c] = "single" /\ Answer(c, "done") /\ Delivered(c, "chunk")
        /\ sent[c][taken[c]] \in {"system", "plan"} /\ taken[c] > 0
    BY <1>0, <1>4 DEF Single, WriteWorks, WriteFails, RightPlace
  <2>2. "write" \in Label /\ "write" \in Busy /\ pc'[c] = "write" /\ out'[c] = "done"
    BY <1>0, <2>1 DEF Label, Busy, Answer, Goto, Shapes
  <2>3. "chunk" = "reply" <=> KindOf(c) \in {"bad", "sync"}
    BY <2>1 DEF KindOf
  <2>4. RightPlace("write", sent[c], taken[c], out'[c])
    BY <2>1, <2>2 DEF RightPlace
  <2>5. QED
    BY <1>0, <1>1, <1>4, <2>1, <2>2, <2>3, <2>4, FrameMoves
<1>5. ASSUME link[c] = "open", Write(c) PROVE TalkInv'
  <2>1. pc[c] = "write" /\ Delivered(c, out[c]) /\ Goto(c, "read")
    BY <1>0, <1>5 DEF Write, WriteWorks, WriteFails
  <2>2. "read" \in Label /\ pc'[c] = "read" /\ "read" \notin Busy
    BY <1>0, <2>1 DEF Label, Busy, Goto, Shapes
  <2>3. out[c] \in {"reply", "done", "error"}
        /\ (out[c] = "reply" <=> KindOf(c) \in {"bad", "sync"})
    BY <1>0, <2>1 DEF RightPlace, KindOf, Shapes
  <2>4. RightPlace("read", sent[c], taken[c], out'[c])
    BY DEF RightPlace, Busy
  <2>5. QED
    BY <1>0, <1>1, <1>5, <2>1, <2>2, <2>3, <2>4, FrameMoves
<1>6. link[c] # "open" => frames' = frames
  BY DEF Relay, Single, Write, WriteWorks, WriteFails
<1>7. QED
  BY <1>2, <1>3, <1>4, <1>5, <1>6

\* The next request is read.
LEMMA ReadTalk == ASSUME TalkInv, NEW c \in Conn, Read(c) PROVE TalkInv'
<1>0. /\ Shapes
      /\ Talk(link[c], pc[c], sent[c], taken[c], out[c], frames[c], MaxRequests[c])
  BY DEF TalkInv, Talks
<1> DEFINE k == sent[c][taken[c] + 1]
<1>1. /\ pc[c] = "read" /\ taken[c] < Len(sent[c])
      /\ taken' = [taken EXCEPT ![c] = @ + 1]
      /\ UNCHANGED sent /\ UNCHANGED frames /\ UNCHANGED link /\ UNCHANGED chunks
      /\ \/ k = "bad" /\ Answer(c, "reply")
         \/ k = "sync" /\ Goto(c, "process") /\ UNCHANGED out
         \/ k \in Streamed /\ Goto(c, "charge") /\ UNCHANGED out
  BY DEF Read, net
<1>2. PICK p \in {"write", "process", "charge"} : pc' = [pc EXCEPT ![c] = p]
  BY <1>1 DEF Answer, Goto
<1>3. /\ pc' \in [Conn -> Label] /\ pc'[c] = p /\ taken' \in [Conn -> Nat]
      /\ taken'[c] = taken[c] + 1 /\ taken[c] \in Nat /\ out' \in [Conn -> Frameless]
      /\ \A d \in Conn : d # c => taken'[d] = taken[d] /\ pc'[d] = pc[d] /\ out'[d] = out[d]
  <2>1. pc' \in [Conn -> Label] /\ pc'[c] = p /\ \A d \in Conn : d # c => pc'[d] = pc[d]
    BY <1>0, <1>2 DEF Shapes, Label
  <2>2. /\ taken' \in [Conn -> Nat] /\ taken'[c] = taken[c] + 1 /\ taken[c] \in Nat
        /\ \A d \in Conn : d # c => taken'[d] = taken[d]
    BY <1>0, <1>1 DEF Shapes
  <2>3. out' = out \/ out' = [out EXCEPT ![c] = "reply"]
    BY <1>1 DEF Answer
  <2>4. out' \in [Conn -> Frameless] /\ \A d \in Conn : d # c => out'[d] = out[d]
    BY <1>0, <2>3 DEF Shapes, Frameless
  <2>5. QED
    BY <2>1, <2>2, <2>4
<1>4. Shapes'
  BY <1>0, <1>1, <1>3 DEF Shapes, Frameless
<1>5. RightPlace(p, sent[c], taken[c] + 1, out'[c])
  <2>1. \/ k = "bad" /\ p = "write" /\ out'[c] = "reply"
        \/ k = "sync" /\ p = "process"
        \/ k \in Streamed /\ p = "charge"
    BY <1>0, <1>1, <1>3 DEF Answer, Goto, Shapes
  <2>2. QED
    BY <1>3, <2>1 DEF RightPlace, Busy
<1>6. RightFrames(frames[c], sent[c], taken[c] + 1)
  BY <1>0, <1>3 DEF Talk, RightFrames
<1>7. UpToDate(link[c], p, frames[c], taken[c] + 1)
  BY <1>0, <1>1 DEF Talk, UpToDate, Busy
<1>8. taken[c] + 1 <= Len(sent[c])
  <2>1. Len(sent[c]) \in Nat
    BY <1>0 DEF Shapes
  <2>2. QED
    BY <1>1, <1>3, <2>1
<1>9. Talk(link'[c], pc'[c], sent'[c], taken'[c], out'[c], frames'[c], MaxRequests[c])
  BY <1>0, <1>1, <1>3, <1>5, <1>6, <1>7, <1>8 DEF Talk
<1>10. QED
  BY <1>1, <1>3, <1>4, <1>9, OneTalk

\* The client sends another request, which changes nothing of those before it.
LEMMA SendTalk == ASSUME TalkInv, NEW c \in Conn, NEW k \in Kind, Send(c, k) PROVE TalkInv'
<1>0. /\ Shapes
      /\ Talk(link[c], pc[c], sent[c], taken[c], out[c], frames[c], MaxRequests[c])
  BY DEF TalkInv, Talks
<1> DEFINE s == sent[c]
           r == Append(sent[c], k)
<1>1. /\ Len(s) < MaxRequests[c] /\ sent' = [sent EXCEPT ![c] = r]
      /\ UNCHANGED <<link, pc, taken, chunks, out, frames>>
  BY DEF Send, net
<1>2. /\ s \in Seq(Kind) /\ r \in Seq(Kind) /\ Len(r) = Len(s) + 1 /\ Len(s) \in Nat
      /\ taken[c] \in Nat /\ MaxRequests[c] \in Nat
      /\ \A i \in 1..Len(s) : r[i] = s[i]
  BY <1>0, StreamAssumption DEF Shapes
<1>3. /\ sent' \in [Conn -> Seq(Kind)] /\ sent'[c] = r
      /\ \A d \in Conn : d # c => sent'[d] = sent[d]
  BY <1>0, <1>1, <1>2 DEF Shapes
<1>4. Shapes'
  BY <1>0, <1>1, <1>3 DEF Shapes
<1>5. taken[c] <= Len(s) /\ \A i \in 1..taken[c] : r[i] = s[i]
  BY <1>0, <1>2 DEF Talk
<1>6. RightPlace(pc[c], r, taken[c], out[c])
  <2>1. pc[c] \in Busy => taken[c] \in 1..taken[c]
    BY <1>0, <1>2 DEF Talk, RightPlace
  <2>2. pc[c] \in Busy => r[taken[c]] = s[taken[c]]
    BY <1>5, <2>1
  <2>3. QED
    BY <1>0, <2>2 DEF Talk, RightPlace, Busy
<1>7. RightFrames(frames[c], r, taken[c])
  BY <1>0, <1>5 DEF Talk, RightFrames
<1>8. taken[c] <= Len(r) /\ Len(r) <= MaxRequests[c]
  BY <1>1, <1>2, <1>5
<1>9. Talk(link'[c], pc'[c], sent'[c], taken'[c], out'[c], frames'[c], MaxRequests[c])
  BY <1>0, <1>1, <1>3, <1>6, <1>7, <1>8 DEF Talk
<1>10. QED
  BY <1>1, <1>3, <1>4, <1>9, OneTalk

\* Connections come up, go down and are closed.
LEMMA LinkTalk ==
  ASSUME TalkInv, NEW c \in Conn, Connect(c) \/ Leave(c) \/ CleanUp(c)
  PROVE  TalkInv'
<1>0. /\ Shapes
      /\ Talk(link[c], pc[c], sent[c], taken[c], out[c], frames[c], MaxRequests[c])
      /\ UNCHANGED sent /\ UNCHANGED taken /\ UNCHANGED chunks /\ UNCHANGED out
      /\ UNCHANGED frames
  BY DEF TalkInv, Talks, Connect, Leave, CleanUp
<1>1. PICK l \in {"open", "lost", "closed"}, p \in Label :
        /\ link' = [link EXCEPT ![c] = l] /\ pc' = [pc EXCEPT ![c] = p]
        /\ \/ l = "open" /\ pc[c] = "off" /\ p = "register"
           \/ l = "lost" /\ p = pc[c]
           \/ l = "closed" /\ p = "gone"
  <2>1. pc = [pc EXCEPT ![c] = pc[c]] /\ pc[c] \in Label
    BY <1>0 DEF Shapes
  <2>2. QED
    BY <2>1 DEF Connect, Leave, CleanUp, Goto, Label
<1>2. /\ pc' \in [Conn -> Label] /\ pc'[c] = p
      /\ link' \in [Conn -> {"none", "open", "lost", "closed"}] /\ link'[c] = l
      /\ \A d \in Conn : d # c => link'[d] = link[d] /\ pc'[d] = pc[d]
  BY <1>0, <1>1 DEF Shapes
<1>3. Shapes'
  BY <1>0, <1>2 DEF Shapes
<1>4. RightPlace(p, sent[c], taken[c], out[c])
  BY <1>0, <1>1 DEF Talk, RightPlace, Busy
<1>5. UpToDate(l, p, frames[c], taken[c])
  BY <1>0, <1>1 DEF Talk, UpToDate, Busy, Follows
<1>6. Talk(link'[c], pc'[c], sent'[c], taken'[c], out'[c], frames'[c], MaxRequests[c])
  BY <1>0, <1>2, <1>4, <1>5 DEF Talk
<1>7. QED
  BY <1>0, <1>2, <1>3, <1>6, OneTalk

\* The stop closes connections, and the others' steps touch none.
LEMMA ServerTalk ==
  ASSUME TalkInv,
         \/ CloseClients \/ CancelServer \/ \E u \in User : Refill(u)
         \/ UNCHANGED streamVars
  PROVE  TalkInv'
<1>0. Shapes
  BY DEF TalkInv
<1>1. /\ UNCHANGED pc /\ UNCHANGED sent /\ UNCHANGED taken /\ UNCHANGED chunks
      /\ UNCHANGED out /\ UNCHANGED frames
      /\ \/ link' = link
         \/ link' = [c \in Conn |-> IF c \in clients THEN "closed" ELSE link[c]]
  BY DEF CloseClients, CancelServer, Refill, streamVars, net
<1>2. /\ link' \in [Conn -> {"none", "open", "lost", "closed"}]
      /\ \A c \in Conn : link'[c] = link[c] \/ link'[c] = "closed"
  BY <1>0, <1>1 DEF Shapes
<1>3. Shapes'
  BY <1>0, <1>1, <1>2 DEF Shapes
<1>4. ASSUME NEW c \in Conn
      PROVE  Talk(link'[c], pc'[c], sent'[c], taken'[c], out'[c], frames'[c], MaxRequests[c])
  BY <1>1, <1>2 DEF TalkInv, Talks, Talk, UpToDate
<1>5. QED
  BY <1>3, <1>4 DEF TalkInv, Talks

LEMMA TalkInit == StreamInit => TalkInv
<1> SUFFICES ASSUME StreamInit PROVE TalkInv
  OBVIOUS
<1>1. Shapes
  BY StreamAssumption DEF StreamInit, Shapes, Label
<1>2. ASSUME NEW c \in Conn
      PROVE  Talk(link[c], pc[c], sent[c], taken[c], out[c], frames[c], MaxRequests[c])
  <2>1. /\ pc[c] = "off" /\ sent[c] = << >> /\ taken[c] = 0 /\ frames[c] = << >>
        /\ link[c] = "none" /\ MaxRequests[c] \in Nat
    BY StreamAssumption DEF StreamInit
  <2>2. RightPlace(pc[c], sent[c], taken[c], out[c]) /\ UpToDate(link[c], pc[c], frames[c], taken[c])
    BY <2>1 DEF RightPlace, UpToDate, Busy
  <2>3. InOrder(frames[c]) /\ RightFrames(frames[c], sent[c], taken[c])
    BY <2>1 DEF InOrder, RightFrames
  <2>4. QED
    BY <2>1, <2>2, <2>3 DEF Talk
<1>3. QED
  BY <1>1, <1>2 DEF TalkInv, Talks

LEMMA TalkStep == TalkInv /\ [StreamNext]_streamVars => TalkInv'
<1> SUFFICES ASSUME TalkInv, [StreamNext]_streamVars PROVE TalkInv'
  OBVIOUS
<1>1. ASSUME NEW c \in Conn, NEW k \in Asks[c], Send(c, k) PROVE TalkInv'
  BY <1>1, SendTalk, StreamAssumption
<1>2. ASSUME NEW c \in Conn, Handler(c) \/ Connect(c) \/ Leave(c) PROVE TalkInv'
  BY <1>2, QuietTalk, WritingTalk, ReadTalk, LinkTalk DEF Handler
<1>3. QED
  BY <1>1, <1>2, ServerTalk DEF StreamNext

-----------------------------------------------------------------------------
(* The WebSocket server: who is registered, and its stop.                    *)

Clients ==
  /\ server \in {"running", "cancelled", "closed"}
  /\ clients = {c \in Conn : pc[c] \notin {"off", "register", "gone"}}
  /\ late \subseteq Conn
  /\ StopClosesRegistered

\* A step that registers nobody, lets nobody go and opens no connection.
LEMMA SameClients ==
  ASSUME Shapes, Clients, UNCHANGED <<server, clients, late>>,
         \A c \in Conn : link'[c] = "open" => link[c] = "open",
         \A c \in Conn : pc'[c] \in {"off", "register", "gone"}
                           <=> pc[c] \in {"off", "register", "gone"}
  PROVE  Clients'
BY DEF Clients, StopClosesRegistered

LEMMA ClientsStep == TalkInv /\ Clients /\ [StreamNext]_streamVars => Clients'
<1> SUFFICES ASSUME Shapes, Clients, [StreamNext]_streamVars PROVE Clients'
  BY DEF TalkInv
<1>1. ASSUME NEW c \in Conn, Connect(c) PROVE Clients'
  <2>1. /\ link' = [link EXCEPT ![c] = "open"] /\ pc' = [pc EXCEPT ![c] = "register"]
        /\ pc[c] = "off" /\ server # "closed" /\ UNCHANGED <<server, clients, late>>
    BY <1>1 DEF Connect, Goto
  <2>2. {d \in Conn : pc'[d] \notin {"off", "register", "gone"}}
          = {d \in Conn : pc[d] \notin {"off", "register", "gone"}}
    BY <2>1 DEF Shapes
  <2>3. QED
    BY <2>1, <2>2 DEF Clients, StopClosesRegistered
<1>2. ASSUME NEW c \in Conn, Register(c) PROVE Clients'
  <2>1. /\ pc' = [pc EXCEPT ![c] = "read"] /\ clients' = clients \cup {c}
        /\ late' = IF server = "closed" THEN late \cup {c} ELSE late
        /\ UNCHANGED <<server, link>>
    BY <1>2 DEF Register, Goto
  <2>2. clients' = {d \in Conn : pc'[d] \notin {"off", "register", "gone"}}
    BY <2>1 DEF Shapes, Clients
  <2>3. late' \subseteq Conn /\ StopClosesRegistered'
    BY <2>1 DEF Clients, StopClosesRegistered
  <2>4. QED
    BY <2>1, <2>2, <2>3 DEF Clients
<1>3. ASSUME NEW c \in Conn, CleanUp(c) PROVE Clients'
  <2>1. /\ pc' = [pc EXCEPT ![c] = "gone"] /\ clients' = clients \ {c}
        /\ link' = [link EXCEPT ![c] = "closed"] /\ UNCHANGED <<server, late>>
    BY <1>3 DEF CleanUp, Goto
  <2>2. clients' = {d \in Conn : pc'[d] \notin {"off", "register", "gone"}}
    BY <2>1 DEF Shapes, Clients
  <2>3. StopClosesRegistered'
    BY <2>1 DEF Clients, StopClosesRegistered, Shapes
  <2>4. QED
    BY <2>1, <2>2, <2>3 DEF Clients
<1>4. ASSUME NEW c \in Conn, Leave(c) PROVE Clients'
  BY <1>4, SameClients DEF Leave, Shapes
<1>5. ASSUME NEW c \in Conn, NEW k \in Asks[c], Send(c, k) PROVE Clients'
  BY <1>5, SameClients DEF Send, net
<1>6. CASE CancelServer
  BY <1>6 DEF CancelServer, Clients, StopClosesRegistered
<1>7. CASE CloseClients
  <2>1. /\ server' = "closed" /\ UNCHANGED <<clients, late, pc>>
        /\ \A c \in clients : link'[c] = "closed"
    BY <1>7 DEF CloseClients, Clients
  <2>2. QED
    BY <2>1 DEF Clients, StopClosesRegistered
<1>8. CASE UNCHANGED streamVars \/ \E u \in User : Refill(u)
  <2>1. UNCHANGED <<server, clients, late, link, pc>>
    BY <1>8 DEF Refill, net, streamVars
  <2>2. QED
    BY <2>1, SameClients
\* Every other step of a handler goes from one place behind the registration to another.
<1>9. ASSUME NEW c \in Conn,
             \/ Read(c) \/ ReadFails(c) \/ Charge(c) \/ Process(c) \/ ProcessRefused(c)
             \/ OpenStream(c) \/ OpenFails(c) \/ Relay(c) \/ StreamEnds(c) \/ Single(c)
             \/ Store(c) \/ Write(c)
      PROVE  Clients'
  <2>1. UNCHANGED <<server, clients, late, link>>
    BY <1>9 DEF Read, ReadFails, Charge, Process, ProcessRefused, OpenStream, OpenFails, Relay,
                StreamEnds, Single, Store, Write, net
  <2>2. pc[c] \notin {"off", "register", "gone"}
    BY <1>9 DEF Read, ReadFails, Charge, Process, ProcessRefused, OpenStream, OpenFails, Relay,
                StreamEnds, Single, Store, Write
  <2>3. pc' = pc \/ \E p \in Label \ {"off", "register", "gone"} : pc' = [pc EXCEPT ![c] = p]
    BY <1>9 DEF Read, ReadFails, Charge, Process, ProcessRefused, OpenStream, OpenFails, Relay,
                StreamEnds, Single, Store, Write, Answer, Goto, Label
  <2>4. \A d \in Conn : pc'[d] \in {"off", "register", "gone"}
                          <=> pc[d] \in {"off", "register", "gone"}
    BY <2>2, <2>3 DEF Shapes
  <2>5. QED
    BY <2>1, <2>4, SameClients
<1>10. QED
  BY <1>1, <1>2, <1>3, <1>4, <1>5, <1>6, <1>7, <1>8, <1>9 DEF StreamNext, Handler

-----------------------------------------------------------------------------
(* The WebSocket server: what is stored, and what is given up.               *)

\* Where a handler is done with what it may store of a request.
Done == {"single", "write", "read", "cleanup", "gone"}

\* What was stored or given up is behind its handler.
Past(r) ==
  /\ IsRequest(r)
  /\ r[2] <= taken[r[1]]
  /\ r[2] = taken[r[1]] => pc[r[1]] \in Done

Asked(r) == sent[r[1]][r[2]]

\* A command is answered without being stored.
Settled ==
  /\ \A r \in memory \cup aborted : Past(r)
  /\ \A r \in memory : Asked(r) # "system"
  /\ AbortedNotStored

\* Nothing more is stored or given up, and no handler takes a request up again.
LEMMA NothingSettled ==
  ASSUME Settled, UNCHANGED <<sent, taken, memory, aborted>>,
         \A c \in Conn : pc[c] \in Done => pc'[c] \in Done
  PROVE  Settled'
BY DEF Settled, Past, IsRequest, Asked, AbortedNotStored

\* The request in hand is settled in one way or the other.
LEMMA OneSettled ==
  ASSUME TalkInv, Settled, NEW c \in Conn, pc[c] \in Busy \ Done, pc'[c] \in Done,
         UNCHANGED <<sent, taken>>, \A d \in Conn : d # c => pc'[d] = pc[d],
         \/ /\ memory' \in {memory, memory \cup {RequestOf(c)}} /\ aborted' = aborted
            /\ KindOf(c) # "system"
         \/ memory' = memory /\ aborted' = aborted \cup {RequestOf(c)}
  PROVE  Settled'
<1>1. taken[c] \in 1..MaxRequests[c]
  <2>1. /\ taken[c] > 0 /\ taken[c] <= Len(sent[c]) /\ Len(sent[c]) <= MaxRequests[c]
        /\ taken[c] \in Nat /\ Len(sent[c]) \in Nat /\ MaxRequests[c] \in Nat
    BY StreamAssumption DEF TalkInv, Talks, Talk, RightPlace, Shapes
  <2>2. QED
    BY <2>1
<1>2. PICK q : /\ q = RequestOf(c) /\ q[1] = c /\ q[2] = taken[c] /\ IsRequest(q)
               /\ KindOf(c) = Asked(q)
  <2>1. /\ IsRequest(RequestOf(c)) /\ RequestOf(c)[1] = c /\ RequestOf(c)[2] = taken[c]
        /\ KindOf(c) = Asked(RequestOf(c))
    BY <1>1 DEF RequestOf, IsRequest, KindOf, Asked
  <2>2. QED
    BY <2>1
<1>3. Past(q)' /\ ~Past(q)
  BY <1>1, <1>2 DEF Past, IsRequest
<1>4. q \notin memory /\ q \notin aborted
  BY <1>3 DEF Settled
<1>5. \A r \in memory \cup aborted : Past(r)'
  BY DEF Settled, Past, IsRequest
<1>6. /\ memory' \in {memory, memory \cup {q}} /\ aborted' \in {aborted, aborted \cup {q}}
      /\ memory' = memory \/ aborted' = aborted
  BY <1>2
<1>7. \A r \in memory' \cup aborted' : Past(r)'
  <2>1. \A r \in memory' \cup aborted' : r \in memory \cup aborted \/ r = q
    BY <1>6
  <2>2. QED
    BY <1>3, <1>5, <2>1
<1>8. \A r : Asked(r)' = Asked(r)
  BY DEF Asked
<1>9. \A r \in memory' : Asked(r)' # "system"
  <2>1. \A r \in memory : Asked(r)' # "system"
    BY <1>8 DEF Settled
  <2>2. CASE memory' = memory
    BY <2>1, <2>2
  <2>3. CASE memory' = memory \cup {q} /\ KindOf(c) # "system"
    BY <1>2, <1>8, <2>1, <2>3
  <2>4. QED
    BY <1>2, <2>2, <2>3
<1>10. \A r \in aborted' \cap memory' : r \in aborted \cap memory
  BY <1>4, <1>6
<1>11. AbortedNotStored'
  BY <1>10 DEF Settled, AbortedNotStored
<1>12. QED
  BY <1>7, <1>9, <1>11 DEF Settled

LEMMA SettledStep == TalkInv /\ Settled /\ [StreamNext]_streamVars => Settled'
<1> SUFFICES ASSUME TalkInv, Settled, [StreamNext]_streamVars PROVE Settled'
  OBVIOUS
<1>0. Shapes
  BY DEF TalkInv
<1>1. ASSUME NEW c \in Conn, Store(c) PROVE Settled'
  <2>1. /\ pc[c] \in Busy \ Done /\ memory' \in {memory, memory \cup {RequestOf(c)}}
        /\ aborted' = aborted /\ UNCHANGED <<sent, taken>> /\ KindOf(c) # "system"
    BY <1>1 DEF Store, Busy, Done
  <2>2. PICK p \in {"write", "single"} : pc' = [pc EXCEPT ![c] = p]
    BY <1>1 DEF Store, Answer, Goto
  <2>3. pc'[c] \in Done /\ \A d \in Conn : d # c => pc'[d] = pc[d]
    BY <1>0, <2>2 DEF Shapes, Done
  <2>4. QED
    BY <2>1, <2>3, OneSettled
<1>2. ASSUME NEW c \in Conn, Relay(c) PROVE Settled'
  <2>1. CASE pc' = pc /\ aborted' = aborted
    BY <1>2, <2>1, NothingSettled DEF Relay
  <2>2. CASE Answer(c, "error") /\ aborted' = aborted \cup {RequestOf(c)}
    <3>1. pc[c] \in Busy \ Done /\ memory' = memory /\ UNCHANGED <<sent, taken>>
      BY <1>2 DEF Relay, Busy, Done
    <3>2. pc'[c] \in Done /\ \A d \in Conn : d # c => pc'[d] = pc[d]
      BY <1>0, <2>2 DEF Shapes, Done, Answer, Goto
    <3>3. QED
      BY <2>2, <3>1, <3>2, OneSettled
  <2>3. QED
    BY <1>2, <2>1, <2>2 DEF Relay
\* What was stored or given up stays behind when the next request is read.
<1>3. ASSUME NEW c \in Conn, Read(c) PROVE Settled'
  <2>1. /\ taken' = [taken EXCEPT ![c] = @ + 1] /\ UNCHANGED <<sent, memory, aborted>>
        /\ \E p : pc' = [pc EXCEPT ![c] = p]
    BY <1>3 DEF Read, Answer, Goto
  <2>2. /\ taken[c] \in Nat /\ taken'[c] = taken[c] + 1
        /\ \A d \in Conn : d # c => taken'[d] = taken[d] /\ pc'[d] = pc[d]
    BY <1>0, <2>1 DEF Shapes
  <2>3. ASSUME NEW r, Past(r) PROVE Past(r)'
    <3>1. r[1] \in Conn /\ r[2] \in Nat /\ r[2] <= taken[r[1]] /\ IsRequest(r)
      BY <2>3 DEF Past, IsRequest
    <3>2. CASE r[1] = c
      BY <2>2, <3>1, <3>2 DEF Past, IsRequest
    <3>3. CASE r[1] # c
      BY <2>2, <2>3, <3>1, <3>3 DEF Past, IsRequest
    <3>4. QED
      BY <3>2, <3>3
  <2>4. QED
    BY <2>1, <2>3 DEF Settled, Asked, AbortedNotStored
\* A single chunk that fails was that of a command, which is not stored, or of an
\* answer stored before.
<1>4. ASSUME NEW c \in Conn, Single(c) PROVE Settled'
  <2>1. /\ UNCHANGED <<sent, taken, memory>> /\ pc' = [pc EXCEPT ![c] = "write"]
        /\ aborted' \in {aborted, aborted \cup {RequestOf(c)}}
    BY <1>4 DEF Single, Answer, Goto
  <2>2. \A d \in Conn : pc[d] \in Done => pc'[d] \in Done
    BY <1>0, <2>1 DEF Shapes, Done
  <2>3. \A r : (Past(r) => Past(r)') /\ Asked(r)' = Asked(r)
    BY <2>1, <2>2 DEF Past, IsRequest, Asked
  <2>4. pc[c] = "single" /\ KindOf(c) \in {"system", "plan"}
    BY <1>4 DEF Single, TalkInv, Talks, Talk, RightPlace, KindOf
  <2>5. PICK q : /\ q = RequestOf(c) /\ Past(q) /\ KindOf(c) = Asked(q)
    <3>1. /\ taken[c] > 0 /\ taken[c] <= Len(sent[c]) /\ Len(sent[c]) <= MaxRequests[c]
          /\ taken[c] \in Nat /\ Len(sent[c]) \in Nat /\ MaxRequests[c] \in Nat
      BY <2>4, StreamAssumption DEF TalkInv, Talks, Talk, RightPlace, Shapes, Busy
    <3>2. Past(RequestOf(c)) /\ KindOf(c) = Asked(RequestOf(c))
      BY <2>4, <3>1 DEF RequestOf, Past, IsRequest, Done, KindOf, Asked
    <3>3. QED
      BY <3>2
  <2>6. aborted' \in {aborted, aborted \cup {q}}
    BY <2>1, <2>5
  <2>7. \A r \in memory' \cup aborted' : Past(r)'
    BY <2>1, <2>3, <2>5, <2>6 DEF Settled
  <2>8. \A r \in aborted' \cap memory' : Asked(r) = "plan"
    <3>1. \A r \in aborted \cap memory : Asked(r) = "plan"
      BY DEF Settled, AbortedNotStored, Asked
    <3>2. q \in memory => Asked(q) = "plan"
      BY <2>4, <2>5 DEF Settled
    <3>3. QED
      BY <2>1, <2>6, <3>1, <3>2
  <2>9. AbortedNotStored'
    BY <2>3, <2>8 DEF AbortedNotStored, Asked
  <2>10. QED
    BY <2>1, <2>3, <2>7, <2>9 DEF Settled
\* A request that is sent comes after those that were read.
<1>5. ASSUME NEW c \in Conn, NEW k \in Kind, Send(c, k) PROVE Settled'
  <2>1. /\ sent' = [sent EXCEPT ![c] = Append(@, k)]
        /\ UNCHANGED <<pc, taken, memory, aborted>>
    BY <1>5 DEF Send
  <2>2. ASSUME NEW r, Past(r) PROVE Past(r)' /\ Asked(r)' = Asked(r)
    <3>1. /\ r[1] \in Conn /\ r[2] \in Nat /\ r[2] > 0 /\ r[2] <= taken[r[1]]
          /\ IsRequest(r)
      BY <2>2 DEF Past, IsRequest
    <3>2. /\ taken[r[1]] \in Nat /\ taken[r[1]] <= Len(sent[r[1]])
          /\ sent[r[1]] \in Seq(Kind) /\ r[1] \in DOMAIN sent
      BY <1>0, <3>1 DEF Shapes, TalkInv, Talks, Talk
    <3>3. r[2] \in 1..Len(sent[r[1]])
      BY <3>1, <3>2
    <3>4. sent'[r[1]][r[2]] = sent[r[1]][r[2]]
      BY <2>1, <3>2, <3>3, AppendProperties
    <3>5. QED
      BY <2>1, <2>2, <3>4 DEF Past, IsRequest, Asked
  <2>3. QED
    BY <2>1, <2>2 DEF Settled, Asked, AbortedNotStored
\* The other steps of handlers settle nothing.
<1>6. ASSUME NEW c \in Conn,
             \/ Register(c) \/ ReadFails(c) \/ Charge(c) \/ Process(c) \/ ProcessRefused(c)
             \/ OpenStream(c) \/ OpenFails(c) \/ StreamEnds(c) \/ Write(c)
             \/ CleanUp(c) \/ Connect(c)
      PROVE  Settled'
  <2>1. UNCHANGED <<sent, taken, memory, aborted>>
    BY <1>6 DEF Register, ReadFails, Charge, Process, ProcessRefused, OpenStream, OpenFails,
                StreamEnds, Write, CleanUp, Connect
  <2>2. PICK p \in Label : pc' = [pc EXCEPT ![c] = p] /\ (pc[c] \in Done => p \in Done)
    BY <1>6 DEF Register, ReadFails, Charge, Process, ProcessRefused, OpenStream, OpenFails,
                StreamEnds, Write, CleanUp, Connect, Answer, Goto, Label, Done
  <2>3. \A d \in Conn : pc[d] \in Done => pc'[d] \in Done
    BY <1>0, <2>2 DEF Shapes
  <2>4. QED
    BY <2>1, <2>3, NothingSettled
<1>7. ASSUME UNCHANGED <<sent, taken, memory, aborted, pc>> PROVE Settled'
  BY <1>7, NothingSettled
<1>8. Asks \in [Conn -> SUBSET Kind]
  BY StreamAssumption
<1>9. QED
  BY <1>1, <1>2, <1>3, <1>4, <1>5, <1>6, <1>7, <1>8
     DEF StreamNext, Handler, Leave, Refill, CancelServer, CloseClients, streamVars

-----------------------------------------------------------------------------
(* The WebSocket server: token buckets.                                      *)

\* Handlers that have paid for a turn and not begun it.
Paid(u) == {c \in Conn : Asker[c] = u /\ pc[c] = "open"}

Within(u) ==
  /\ IsFiniteSet(Paid(u))
  /\ turns[u] + tokens[u] + Cardinality(Paid(u)) <= Burst + refills[u]

Buckets ==
  /\ tokens \in [User -> 0..Burst]
  /\ turns \in [User -> Nat] /\ refills \in [User -> 0..MaxRefills]

Budget == Buckets /\ \A u \in User : Within(u)

\* Nobody is charged and no call begins.
LEMMA SameBudget ==
  ASSUME Budget, UNCHANGED <<tokens, turns, refills>>,
         \A c \in Conn : pc'[c] = "open" <=> pc[c] = "open"
  PROVE  Budget'
<1>1. \A u \in User : Paid(u)' = Paid(u)
  BY DEF Paid
<1>2. QED
  BY <1>1 DEF Budget, Buckets, Within

\* Only one user's account changes.
LEMMA OneAccount ==
  ASSUME Budget, NEW u \in User, Within(u)', Buckets',
         \A v \in User : v # u =>
           /\ tokens'[v] = tokens[v] /\ turns'[v] = turns[v] /\ refills'[v] = refills[v]
           /\ Paid(v)' = Paid(v)
  PROVE  Budget'
BY DEF Budget, Within

LEMMA BudgetStep == TalkInv /\ Budget /\ [StreamNext]_streamVars => Budget'
<1> SUFFICES ASSUME TalkInv, Budget, [StreamNext]_streamVars PROVE Budget'
  OBVIOUS
<1>0. Shapes /\ Buckets /\ Asker \in [Conn -> User] /\ Burst \in Nat \ {0} /\ MaxRefills \in Nat
  BY StreamAssumption DEF TalkInv, Budget
<1>1. ASSUME NEW u \in User
      PROVE  /\ tokens[u] \in 0..Burst /\ turns[u] \in Nat /\ refills[u] \in 0..MaxRefills
             /\ IsFiniteSet(Paid(u)) /\ Cardinality(Paid(u)) \in Nat
             /\ turns[u] + tokens[u] + Cardinality(Paid(u)) <= Burst + refills[u]
  BY <1>0, FS_CardinalityType DEF Buckets, Budget, Within
\* A streamed conversation is charged before its call begins.
<1>2. ASSUME NEW c \in Conn, Charge(c) PROVE Budget'
  <2> DEFINE u == Asker[c]
  <2>0. u \in User /\ pc[c] = "charge" /\ UNCHANGED <<turns, refills>>
    BY <1>0, <1>2 DEF Charge
  <2>1. CASE tokens[u] = 0 /\ Answer(c, "error") /\ UNCHANGED tokens
    <3>1. \A d \in Conn : pc'[d] = "open" <=> pc[d] = "open"
      BY <1>0, <2>0, <2>1 DEF Shapes, Answer, Goto
    <3>2. QED
      BY <2>0, <2>1, <3>1, SameBudget
  <2>2. CASE Allow(u) /\ \E p \in {"single", "process", "open"} : Goto(c, p)
    <3>1. tokens[u] > 0 /\ tokens' = [tokens EXCEPT ![u] = @ - 1]
      BY <2>2 DEF Allow
    <3>2. /\ tokens' \in [User -> 0..Burst] /\ tokens'[u] = tokens[u] - 1
          /\ \A v \in User : v # u => tokens'[v] = tokens[v]
      BY <1>0, <1>1, <2>0, <3>1 DEF Buckets
    <3>3. \A v \in User : v # u => Paid(v)' = Paid(v)
      BY <1>0, <2>0, <2>2 DEF Paid, Shapes, Goto
    <3>4. Paid(u)' = Paid(u) \/ Paid(u)' = Paid(u) \cup {c}
      BY <1>0, <2>0, <2>2 DEF Paid, Shapes, Goto
    <3>5. IsFiniteSet(Paid(u)') /\ Cardinality(Paid(u)') <= Cardinality(Paid(u)) + 1
          /\ Cardinality(Paid(u)') \in Nat
      <4>1. CASE Paid(u)' = Paid(u)
        BY <1>1, <2>0, <4>1
      <4>2. CASE Paid(u)' = Paid(u) \cup {c}
        <5>1. /\ IsFiniteSet(Paid(u) \cup {c})
              /\ \/ Cardinality(Paid(u) \cup {c}) = Cardinality(Paid(u))
                 \/ Cardinality(Paid(u) \cup {c}) = Cardinality(Paid(u)) + 1
          BY <1>1, <2>0, FS_AddElement
        <5>2. QED
          BY <1>1, <2>0, <4>2, <5>1
      <4>3. QED
        BY <3>4, <4>1, <4>2
    <3>6. Within(u)'
      <4>1. turns'[u] + tokens'[u] + Cardinality(Paid(u)') <= Burst + refills'[u]
        BY <1>0, <1>1, <2>0, <3>2, <3>5
      <4>2. QED
        BY <3>5, <4>1 DEF Within
    <3>7. Buckets'
      BY <1>0, <2>0, <3>2 DEF Buckets
    <3>8. QED
      BY <2>0, <3>2, <3>3, <3>6, <3>7, OneAccount
  <2>3. QED
    BY <1>2, <2>1, <2>2 DEF Charge
\* The call begins, or cannot.
<1>3. ASSUME NEW c \in Conn, OpenStream(c) \/ OpenFails(c) PROVE Budget'
  <2> DEFINE u == Asker[c]
  <2>0. /\ u \in User /\ pc[c] = "open" /\ UNCHANGED <<tokens, refills>>
        /\ turns' = turns \/ turns' = [turns EXCEPT ![u] = @ + 1]
        /\ \E p \in {"relay", "write"} : pc' = [pc EXCEPT ![c] = p]
    BY <1>0, <1>3 DEF OpenStream, OpenFails, Answer, Goto, budget
  <2>1. /\ turns' \in [User -> Nat] /\ turns'[u] <= turns[u] + 1 /\ turns'[u] \in Nat
        /\ \A v \in User : v # u => turns'[v] = turns[v]
    BY <1>0, <1>1, <2>0 DEF Buckets
  <2>2. c \in Paid(u) /\ Paid(u)' = Paid(u) \ {c}
    BY <1>0, <2>0 DEF Paid, Shapes
  <2>3. \A v \in User : v # u => Paid(v)' = Paid(v)
    BY <1>0, <2>0 DEF Paid, Shapes
  <2>4. IsFiniteSet(Paid(u)') /\ Cardinality(Paid(u)') = Cardinality(Paid(u)) - 1
        /\ Cardinality(Paid(u)') \in Nat
    BY <1>1, <2>0, <2>2, FS_RemoveElement, FS_CardinalityType
  <2>5. Within(u)'
    <3>1. turns'[u] + tokens'[u] + Cardinality(Paid(u)') <= Burst + refills'[u]
      BY <1>0, <1>1, <2>0, <2>1, <2>4
    <3>2. QED
      BY <2>4, <3>1 DEF Within
  <2>6. Buckets'
    BY <1>0, <2>0, <2>1 DEF Buckets
  <2>7. QED
    BY <2>0, <2>1, <2>3, <2>5, <2>6, OneAccount
\* A whole answer is charged as its call begins.
<1>4. ASSUME NEW c \in Conn, Process(c) PROVE Budget'
  <2> DEFINE u == Asker[c]
  <2>0. /\ u \in User /\ tokens[u] > 0 /\ tokens' = [tokens EXCEPT ![u] = @ - 1]
        /\ turns' = [turns EXCEPT ![u] = @ + 1] /\ UNCHANGED refills
    BY <1>0, <1>4 DEF Process, Allow
  <2>1. \A v \in User : Paid(v)' = Paid(v)
    <3>1. pc[c] = "process" /\ \E p \in {"store", "write"} : pc' = [pc EXCEPT ![c] = p]
      BY <1>4 DEF Process, Answer, Goto
    <3>2. QED
      BY <1>0, <3>1 DEF Paid, Shapes
  <2>2. /\ tokens' \in [User -> 0..Burst] /\ tokens'[u] = tokens[u] - 1
        /\ turns' \in [User -> Nat] /\ turns'[u] = turns[u] + 1
        /\ \A v \in User : v # u => tokens'[v] = tokens[v] /\ turns'[v] = turns[v]
    BY <1>0, <1>1, <2>0 DEF Buckets
  <2>3. Within(u)'
    BY <1>0, <1>1, <2>0, <2>1, <2>2 DEF Within
  <2>4. Buckets'
    BY <1>0, <2>0, <2>2 DEF Buckets
  <2>5. QED
    BY <2>0, <2>1, <2>2, <2>3, <2>4, OneAccount
<1>5. ASSUME NEW u \in User, Refill(u) PROVE Budget'
  <2>0. /\ refills[u] < MaxRefills /\ tokens[u] < Burst /\ UNCHANGED <<turns, pc>>
        /\ tokens' = [tokens EXCEPT ![u] = @ + 1] /\ refills' = [refills EXCEPT ![u] = @ + 1]
    BY <1>5 DEF Refill
  <2>1. \A v \in User : Paid(v)' = Paid(v)
    BY <2>0 DEF Paid
  <2>2. /\ tokens' \in [User -> 0..Burst] /\ tokens'[u] = tokens[u] + 1
        /\ refills' \in [User -> 0..MaxRefills] /\ refills'[u] = refills[u] + 1
        /\ \A v \in User : v # u => tokens'[v] = tokens[v] /\ refills'[v] = refills[v]
    BY <1>0, <1>1, <2>0 DEF Buckets
  <2>3. Within(u)'
    BY <1>0, <1>1, <2>0, <2>1, <2>2 DEF Within
  <2>4. Buckets'
    BY <1>0, <2>0, <2>2 DEF Buckets
  <2>5. QED
    BY <2>0, <2>1, <2>2, <2>3, <2>4, OneAccount
<1>6. ASSUME NEW c \in Conn,
             \/ Register(c) \/ Read(c) \/ ReadFails(c) \/ ProcessRefused(c) \/ Relay(c)
             \/ StreamEnds(c) \/ Single(c) \/ Store(c) \/ Write(c) \/ CleanUp(c) \/ Connect(c)
      PROVE  Budget'
  <2>1. UNCHANGED <<tokens, turns, refills>> /\ pc[c] # "open"
    BY <1>6 DEF Register, Read, ReadFails, ProcessRefused, Relay, StreamEnds, Single, Store,
                Write, CleanUp, Connect, budget
  <2>2. pc' = pc \/ \E p \in Label \ {"open"} : pc' = [pc EXCEPT ![c] = p]
    BY <1>6 DEF Register, Read, ReadFails, ProcessRefused, Relay, StreamEnds, Single, Store,
                Write, CleanUp, Connect, Answer, Goto, Label
  <2>3. \A d \in Conn : pc'[d] = "open" <=> pc[d] = "open"
    BY <1>0, <2>1, <2>2 DEF Shapes
  <2>4. QED
    BY <2>1, <2>3, SameBudget
<1>7. ASSUME UNCHANGED <<tokens, turns, refills, pc>> PROVE Budget'
  BY <1>7, SameBudget
<1>8. QED
  BY <1>2, <1>3, <1>4, <1>5, <1>6, <1>7
     DEF StreamNext, Handler, Leave, Send, CancelServer, CloseClients, streamVars, budget

-----------------------------------------------------------------------------
(* The WebSocket server: the theorems.                                       *)

StreamInv == TalkInv /\ Clients /\ Settled /\ Budget

LEMMA StreamInvariant == StreamSpec => []StreamInv
<1>1. StreamInit => StreamInv
  <2> SUFFICES ASSUME StreamInit PROVE StreamInv
    OBVIOUS
  <2>1. TalkInv
    BY TalkInit
  <2>2. Clients
    BY DEF StreamInit, Clients, StopClosesRegistered
  <2>3. Settled
    BY DEF StreamInit, Settled, AbortedNotStored
  <2>4. Buckets
    BY StreamAssumption DEF StreamInit, Buckets
  <2>5. ASSUME NEW u \in User PROVE Within(u)
    <3>1. Paid(u) = {}
      BY DEF StreamInit, Paid
    <3>2. turns[u] = 0 /\ tokens[u] = Burst /\ refills[u] = 0 /\ Burst \in Nat
      BY StreamAssumption DEF StreamInit
    <3>3. IsFiniteSet(Paid(u)) /\ Cardinality(Paid(u)) = 0
      BY <3>1, FS_EmptySet
    <3>4. QED
      BY <3>2, <3>3 DEF Within
  <2>6. QED
    BY <2>1, <2>2, <2>3, <2>4, <2>5 DEF StreamInv, Budget
<1>2. StreamInv /\ [StreamNext]_streamVars => StreamInv'
  BY TalkStep, ClientsStep, SettledStep, BudgetStep DEF StreamInv
<1>3. QED
  BY <1>1, <1>2, PTL DEF StreamSpec

\* The server's state is well formed; the stop closes whatever connection was
\* registered by then; and every client gets whole answers, in order, none skipped,
\* none mixed, each with one last frame.
THEOREM AnswersWholeAndInOrder == StreamSpec => []ServerInv
<1>1. StreamInv => ServerInv
  <2> SUFFICES ASSUME StreamInv PROVE ServerInv
    OBVIOUS
  <2>0. Shapes /\ Talks /\ Clients /\ Settled /\ Buckets
    BY DEF StreamInv, TalkInv, Budget
  <2>1. ASSUME NEW c \in Conn PROVE sent[c] \in Seq(Kind) /\ taken[c] \in 0..Len(sent[c])
    <3>1. /\ sent[c] \in Seq(Kind) /\ taken[c] \in Nat /\ Len(sent[c]) \in Nat
          /\ taken[c] <= Len(sent[c])
      BY <2>0 DEF Shapes, Talks, Talk
    <3>2. QED
      BY <3>1
  <2>2. StreamTypeOK
    BY <2>0, <2>1 DEF Shapes, Clients, Settled, Past, Buckets, StreamTypeOK
  <2>3. FramesWellFormed
    <3> SUFFICES ASSUME NEW c \in Conn
                 PROVE  LET f == frames[c]
                        IN /\ \A i \in DOMAIN f :
                                /\ f[i].type = "reply" <=> sent[c][f[i].request] \in {"bad", "sync"}
                                /\ i = 1 => f[i].request = 1
                                /\ i > 1 => f[i].request = f[i-1].request
                                              + (IF Last(f[i-1]) THEN 1 ELSE 0)
                           /\ pc[c] = "read" /\ link[c] = "open" /\ taken[c] > 0
                                => f # << >> /\ Last(f[Len(f)]) /\ f[Len(f)].request = taken[c]
      BY DEF FramesWellFormed
    <3>1. /\ InOrder(frames[c]) /\ RightFrames(frames[c], sent[c], taken[c])
          /\ UpToDate(link[c], pc[c], frames[c], taken[c])
      BY <2>0 DEF Talks, Talk
    <3>2. ASSUME pc[c] = "read", link[c] = "open", taken[c] > 0
          PROVE  /\ frames[c] # << >> /\ Last(frames[c][Len(frames[c])])
                 /\ frames[c][Len(frames[c])].request = taken[c]
      <4>1. /\ Follows(frames[c], taken[c] + 1) /\ taken[c] \in Nat
            /\ frames[c] # << >> => Last(frames[c][Len(frames[c])])
        BY <2>0, <3>1, <3>2 DEF UpToDate, Shapes
      <4>2. frames[c] # << >>
        BY <3>2, <4>1 DEF Follows
      <4>3. taken[c] + 1 = frames[c][Len(frames[c])].request + 1
        BY <4>1, <4>2 DEF Follows
      <4>4. frames[c][Len(frames[c])].request \in Nat
        <5>1. frames[c] \in Seq(Frame) /\ Len(frames[c]) \in Nat \ {0}
          BY <2>0, <4>2, EmptySeq DEF Shapes
        <5>2. frames[c][Len(frames[c])] \in Frame
          BY <5>1
        <5>3. QED
          BY <5>2 DEF Frame
      <4>5. QED
        BY <4>1, <4>2, <4>3, <4>4
    <3>3. QED
      BY <3>1, <3>2 DEF InOrder, RightFrames
  <2>4. QED
    BY <2>0, <2>2, <2>3 DEF ServerInv, Clients
<1>2. QED
  BY <1>1, StreamInvariant, PTL

\* A streamed answer that could not be relayed to the end, for its client had gone,
\* leaves nothing in the memory store; but for one with tools or a plan, which was
\* stored, whole, before its single chunk was sent.
THEOREM NothingOfAborted == StreamSpec => []AbortedNotStored
<1>1. StreamInv => AbortedNotStored
  BY DEF StreamInv, Settled
<1>2. QED
  BY <1>1, StreamInvariant, PTL

\* However a user's requests spread over connections and over the ways to be
\* answered, they begin no more turns on the model than the bucket held and regained.
THEOREM BudgetHolds == StreamSpec => []TurnsWithinBudget
<1>1. StreamInv => TurnsWithinBudget
  <2> SUFFICES ASSUME StreamInv, NEW u \in User
               PROVE  turns[u] + tokens[u] <= Burst + refills[u]
    BY DEF TurnsWithinBudget
  <2>1. /\ IsFiniteSet(Paid(u)) /\ turns[u] \in Nat /\ tokens[u] \in 0..Burst
        /\ refills[u] \in 0..MaxRefills /\ Burst \in Nat /\ MaxRefills \in Nat
        /\ turns[u] + tokens[u] + Cardinality(Paid(u)) <= Burst + refills[u]
    BY StreamAssumption DEF StreamInv, Budget, Within, Buckets
  <2>2. Cardinality(Paid(u)) \in Nat
    BY <2>1, FS_CardinalityType
  <2>3. QED
    BY <2>1, <2>2
<1>2. QED
  BY <1>1, StreamInvariant, PTL
=============================================================================
