------------------------------- MODULE Stream -------------------------------
(***************************************************************************)
(* Conversations over the gateway's WebSocket server: the connections'     *)
(* handlers (internal/gateway/websocket.go), the router's streamed and     *)
(* whole answers (StreamMessage and ProcessMessage of router.go), the      *)
(* users' token buckets (ratelimiter.go), and the server's stop.           *)
(* Handlers of several connections run concurrently and share the buckets, *)
(* the memory store and the set of clients.                                *)
(* Streaming is enabled, the requests of a connection name one user, and   *)
(* the content of a whole-answer request is no /system command.            *)
(***************************************************************************)
EXTENDS Naturals, Sequences, FiniteSets

CONSTANTS
  Conn,        \* WebSocket connections
  User,
  Asker,       \* connection -> the user its requests name
  Asks,        \* connection -> the kinds of request its client sends
  Burst,       \* size of a user's token bucket
  MaxRequests, \* bound: connection -> requests its client sends
  MaxRelayed,  \* bound: chunks per streamed answer
  MaxRefills   \* bound: tokens a bucket regains

\* A message that is no valid request, one for a whole answer, and streamed
\* requests: a conversation, a /system command, and a request for tools or a
\* plan, whose answer the router cannot stream.
Kind == {"bad", "sync", "stream", "system", "plan"}
Streamed == {"stream", "system", "plan"}

ASSUME StreamAssumption ==
  /\ Asker \in [Conn -> User]
  /\ MaxRequests \in [Conn -> Nat]
  /\ Asks \in [Conn -> SUBSET Kind]
  /\ Burst \in Nat \ {0}
  /\ {MaxRelayed, MaxRefills} \subseteq Nat

VARIABLES
  server,  \* the WebSocket server: running, cancelled, closed
  clients, \* registered connections
  link,    \* connection -> none, open, lost (the client is gone), closed
  pc,      \* connection -> where its handler is
  sent,    \* connection -> the requests the client has sent
  taken,   \* connection -> how many of them the handler has read
  chunks,  \* connection -> chunks of the current answer relayed so far
  out,     \* connection -> type of the frame about to be written
  tokens,  \* user -> tokens in the bucket
  memory,  \* requests of which the store holds anything
  frames,  \* history: connection -> frames its client received
  aborted, \* history: streamed requests whose relaying failed
  turns, refills, \* history: user -> turns begun on the model, tokens regained
  late     \* history: connections registered after the stop closed the others

streamVars == <<server, clients, link, pc, sent, taken, chunks, out, tokens, memory,
          frames, aborted, turns, refills, late>>

net == <<server, clients, link, late>>
budget == <<tokens, turns, refills>>

StreamInit ==
  /\ server = "running" /\ clients = {}
  /\ link = [c \in Conn |-> "none"]
  /\ pc = [c \in Conn |-> "off"]
  /\ sent = [c \in Conn |-> << >>] /\ taken = [c \in Conn |-> 0]
  /\ chunks = [c \in Conn |-> 0] /\ out = [c \in Conn |-> "none"]
  /\ tokens = [u \in User |-> Burst]
  /\ memory = {}
  /\ frames = [c \in Conn |-> << >>] /\ aborted = {}
  /\ turns = [u \in User |-> 0] /\ refills = [u \in User |-> 0]
  /\ late = {}

Goto(c, label) == pc' = [pc EXCEPT ![c] = label]
RequestOf(c) == <<c, taken[c]>>
KindOf(c) == sent[c][taken[c]]

\* The handler goes on to write a frame of this type.
Answer(c, type) ==
  /\ Goto(c, "write")
  /\ out' = [out EXCEPT ![c] = type]

\* A failure is reported in the form of the request: a streamed one gets an
\* error frame, the others a reply that carries the error.
ErrorFrame(c) == IF KindOf(c) \in Streamed THEN "error" ELSE "reply"

-----------------------------------------------------------------------------
\* The client connects, and the upgrade succeeds; the listener is open until
\* the server is shut down, right after it has closed its clients.
Connect(c) ==
  /\ pc[c] = "off"
  /\ server # "closed"
  /\ link' = [link EXCEPT ![c] = "open"]
  /\ Goto(c, "register")
  /\ UNCHANGED <<server, clients, late, sent, taken, chunks, out, memory, frames,
                 aborted, budget>>

Register(c) ==
  /\ pc[c] = "register"
  /\ clients' = clients \cup {c}
  /\ late' = IF server = "closed" THEN late \cup {c} ELSE late
  /\ Goto(c, "read")
  /\ UNCHANGED <<server, link, sent, taken, chunks, out, memory, frames, aborted,
                 budget>>

\* The client sends a request, or goes away.
Send(c, k) ==
  /\ link[c] = "open"
  /\ Len(sent[c]) < MaxRequests[c]
  /\ sent' = [sent EXCEPT ![c] = Append(@, k)]
  /\ UNCHANGED <<net, pc, taken, chunks, out, memory, frames, aborted, budget>>

Leave(c) ==
  /\ link[c] = "open"
  /\ link' = [link EXCEPT ![c] = "lost"]
  /\ UNCHANGED <<server, clients, late, pc, sent, taken, chunks, out, memory,
                 frames, aborted, budget>>

-----------------------------------------------------------------------------
\* handleWebSocket reads the next message and dispatches on it.
Read(c) ==
  /\ pc[c] = "read"
  /\ link[c] # "closed"
  /\ taken[c] < Len(sent[c])
  /\ taken' = [taken EXCEPT ![c] = @ + 1]
  /\ LET k == sent[c][taken[c] + 1]
     IN \/ k = "bad" /\ Answer(c, "reply")
        \/ k = "sync" /\ Goto(c, "process") /\ UNCHANGED out
        \/ k \in Streamed /\ Goto(c, "charge") /\ UNCHANGED out
  /\ UNCHANGED <<net, sent, chunks, memory, frames, aborted, budget>>

\* A mutant: a failed read is tried again.
ReadFailsRetries(c) ==
  /\ pc[c] = "read"
  /\ link[c] \in {"lost", "closed"}
  /\ UNCHANGED streamVars

\* Reading fails once the connection is gone; what was buffered may be lost.
ReadFails(c) ==
  /\ pc[c] = "read"
  /\ link[c] \in {"lost", "closed"}
  /\ Goto(c, "cleanup")
  /\ UNCHANGED <<net, sent, taken, chunks, out, memory, frames, aborted, budget>>

\* Allow takes a token of the user's bucket, if there is one.
Allow(u) == tokens[u] > 0 /\ tokens' = [tokens EXCEPT ![u] = @ - 1]

\* StreamMessage charges the request, answers a /system command at once, and
\* hands a request that needs tools to ProcessMessage.
Charge(c) ==
  /\ pc[c] = "charge"
  /\ \/ /\ Allow(Asker[c])
        /\ Goto(c, CASE KindOf(c) = "system" -> "single"
                     [] KindOf(c) = "plan" -> "process"
                     [] OTHER -> "open")
        /\ UNCHANGED out
     \/ /\ tokens[Asker[c]] = 0
        /\ Answer(c, "error")
        /\ UNCHANGED tokens
  /\ UNCHANGED <<net, sent, taken, chunks, memory, frames, aborted, turns, refills>>

\* A mutant: ProcessMessage leaves charging to its callers.
ProcessUncharged(c) ==
  /\ pc[c] = "process"
  /\ turns' = [turns EXCEPT ![Asker[c]] = @ + 1]
  /\ \/ Goto(c, "store") /\ UNCHANGED out
     \/ Answer(c, ErrorFrame(c))
  /\ UNCHANGED <<net, sent, taken, chunks, memory, frames, aborted, tokens, refills>>

\* ProcessMessage charges it as well, and begins a turn, which may fail: one call
\* of the model in a conversation, a call for each step with tools or a plan, and
\* more where calls are retried.
Process(c) ==
  /\ pc[c] = "process"
  /\ Allow(Asker[c])
  /\ turns' = [turns EXCEPT ![Asker[c]] = @ + 1]
  /\ \/ Goto(c, "store") /\ UNCHANGED out
     \/ Answer(c, ErrorFrame(c))
  /\ UNCHANGED <<net, sent, taken, chunks, memory, frames, aborted, refills>>

ProcessRefused(c) ==
  /\ pc[c] = "process"
  /\ tokens[Asker[c]] = 0
  /\ Answer(c, ErrorFrame(c))
  /\ UNCHANGED <<net, sent, taken, chunks, memory, frames, aborted, budget>>

\* streamConversational reads the history and opens the model's stream; both
\* may fail.
OpenStream(c) ==
  /\ pc[c] = "open"
  /\ turns' = [turns EXCEPT ![Asker[c]] = @ + 1]
  /\ Goto(c, "relay")
  /\ UNCHANGED <<net, sent, taken, chunks, out, memory, frames, aborted, tokens,
                 refills>>

OpenFails(c) ==
  /\ pc[c] = "open"
  /\ Answer(c, "error")
  /\ UNCHANGED <<net, sent, taken, chunks, memory, frames, aborted, budget>>

-----------------------------------------------------------------------------
\* Writing a frame: the client receives it on an open connection; when the
\* client is gone the write may still seem to work.
Delivered(c, type) ==
  frames' = [frames EXCEPT ![c] = Append(@, [request |-> taken[c], type |-> type])]

WriteWorks(c, type) ==
  \/ link[c] = "open" /\ Delivered(c, type)
  \/ link[c] = "lost" /\ UNCHANGED frames

WriteFails(c) == link[c] \in {"lost", "closed"} /\ UNCHANGED frames

\* A mutant: a chunk that cannot be written only ends the relaying.
RelayStoresRest(c) ==
  /\ pc[c] = "relay"
  /\ chunks[c] < MaxRelayed
  /\ \/ /\ WriteWorks(c, "chunk")
        /\ chunks' = [chunks EXCEPT ![c] = @ + 1]
        /\ UNCHANGED <<pc, out, aborted>>
     \/ /\ WriteFails(c)
        /\ aborted' = aborted \cup {RequestOf(c)}
        /\ chunks' = [chunks EXCEPT ![c] = 0]
        /\ Goto(c, "store")
        /\ UNCHANGED out
  /\ UNCHANGED <<net, sent, taken, memory, budget>>

\* A chunk of the model's stream is relayed; when that fails the rest of the
\* stream is dropped and nothing is stored.
Relay(c) ==
  /\ pc[c] = "relay"
  /\ chunks[c] < MaxRelayed
  /\ \/ /\ WriteWorks(c, "chunk")
        /\ chunks' = [chunks EXCEPT ![c] = @ + 1]
        /\ UNCHANGED <<pc, out, aborted>>
     \/ /\ WriteFails(c)
        /\ aborted' = aborted \cup {RequestOf(c)}
        /\ chunks' = [chunks EXCEPT ![c] = 0]
        /\ Answer(c, "error")
  /\ UNCHANGED <<net, sent, taken, memory, budget>>

\* The model's stream ends, after any number of chunks.
StreamEnds(c) ==
  /\ pc[c] = "relay"
  /\ Goto(c, "store")
  /\ chunks' = [chunks EXCEPT ![c] = 0]
  /\ UNCHANGED <<net, sent, taken, out, memory, frames, aborted, budget>>

\* The whole answer of ProcessMessage, which has stored it, or of /system, which is
\* not stored, is relayed as a single chunk.
Single(c) ==
  /\ pc[c] = "single"
  /\ \/ WriteWorks(c, "chunk") /\ Answer(c, "done") /\ UNCHANGED aborted
     \/ /\ WriteFails(c)
        /\ aborted' = aborted \cup {RequestOf(c)}
        /\ Answer(c, "error")
  /\ UNCHANGED <<net, sent, taken, chunks, memory, budget>>

\* The question and the answer are stored; that either fails is logged and
\* ignored.
Store(c) ==
  /\ pc[c] = "store"
  /\ memory' \in {memory, memory \cup {RequestOf(c)}}
  /\ \/ KindOf(c) = "sync" /\ Answer(c, "reply")
     \/ KindOf(c) = "plan" /\ Goto(c, "single") /\ UNCHANGED out
     \/ KindOf(c) = "stream" /\ Answer(c, "done")
  /\ UNCHANGED <<net, sent, taken, chunks, frames, aborted, budget>>

\* A mutant: after an error frame the handler goes on to the done frame.
WriteFallsThrough(c) ==
  /\ pc[c] = "write"
  /\ \/ WriteWorks(c, out[c])
     \/ WriteFails(c)
  /\ IF out[c] = "error" THEN Answer(c, "done")
     ELSE Goto(c, "read") /\ out' = [out EXCEPT ![c] = "none"]
  /\ UNCHANGED <<net, sent, taken, chunks, memory, aborted, budget>>

\* The last frame of an answer.  The outcome of writing a reply decides whether
\* the handler goes on; that of a done or error frame is not looked at.
Write(c) ==
  /\ pc[c] = "write"
  /\ out' = [out EXCEPT ![c] = "none"]
  /\ \/ WriteWorks(c, out[c]) /\ Goto(c, "read")
     \/ /\ WriteFails(c)
        /\ Goto(c, IF out[c] = "reply" THEN "cleanup" ELSE "read")
  /\ UNCHANGED <<net, sent, taken, chunks, memory, aborted, budget>>

\* The handler's deferred clean-up unregisters and closes the connection.
CleanUp(c) ==
  /\ pc[c] = "cleanup"
  /\ clients' = clients \ {c}
  /\ link' = [link EXCEPT ![c] = "closed"]
  /\ Goto(c, "gone")
  /\ UNCHANGED <<server, late, sent, taken, chunks, out, memory, frames, aborted,
                 budget>>

-----------------------------------------------------------------------------
\* Time passes and a bucket regains a token.
Refill(u) ==
  /\ refills[u] < MaxRefills
  /\ tokens[u] < Burst
  /\ refills' = [refills EXCEPT ![u] = @ + 1]
  /\ tokens' = [tokens EXCEPT ![u] = @ + 1]
  /\ UNCHANGED <<net, pc, sent, taken, chunks, out, memory, frames, aborted, turns>>

\* Start sees the cancelled context, closes the registered connections under
\* the clients' lock, and shuts the listener down; hijacked connections are
\* not waited for.
CancelServer ==
  /\ server = "running"
  /\ server' = "cancelled"
  /\ UNCHANGED <<clients, link, late, pc, sent, taken, chunks, out, memory,
                 frames, aborted, budget>>

CloseClients ==
  /\ server = "cancelled"
  /\ server' = "closed"
  /\ link' = [c \in Conn |-> IF c \in clients THEN "closed" ELSE link[c]]
  /\ UNCHANGED <<clients, late, pc, sent, taken, chunks, out, memory, frames,
                 aborted, budget>>

Handler(c) ==
  \/ Register(c) \/ Read(c) \/ ReadFails(c)
  \/ Charge(c) \/ Process(c) \/ ProcessRefused(c)
  \/ OpenStream(c) \/ OpenFails(c) \/ Relay(c) \/ StreamEnds(c) \/ Single(c)
  \/ Store(c) \/ Write(c) \/ CleanUp(c)

StreamNext ==
  \/ \E c \in Conn : Handler(c) \/ Connect(c) \/ Leave(c)
  \/ \E c \in Conn : \E k \in Asks[c] : Send(c, k)
  \/ \E u \in User : Refill(u)
  \/ CancelServer \/ CloseClients

StreamSpec == StreamInit /\ [][StreamNext]_streamVars

\* Handlers run: model and store calls return, and the model's streams end.
StreamFairSpec == StreamSpec /\ \A c \in Conn : WF_streamVars(Handler(c))

-----------------------------------------------------------------------------
Label == {"off", "register", "read", "charge", "process", "open", "relay",
          "single", "store", "write", "cleanup", "gone"}
Frame == [request : Nat, type : {"reply", "chunk", "done", "error"}]
IsRequest(r) == r[1] \in Conn /\ r[2] \in 1..MaxRequests[r[1]]

\* Type correctness, and who is registered: exactly the connections whose
\* handler is between its registration and its clean-up.
StreamTypeOK ==
  /\ server \in {"running", "cancelled", "closed"}
  /\ clients = {c \in Conn : pc[c] \notin {"off", "register", "gone"}}
  /\ link \in [Conn -> {"none", "open", "lost", "closed"}]
  /\ pc \in [Conn -> Label]
  /\ \A c \in Conn : sent[c] \in Seq(Kind) /\ taken[c] \in 0..Len(sent[c])
  /\ chunks \in [Conn -> 0..MaxRelayed]
  /\ out \in [Conn -> {"none", "reply", "done", "error"}]
  /\ tokens \in [User -> 0..Burst]
  /\ \A r \in memory : IsRequest(r)
  /\ \A c \in Conn : frames[c] \in Seq(Frame)
  /\ \A r \in aborted : IsRequest(r)
  /\ turns \in [User -> Nat] /\ refills \in [User -> 0..MaxRefills]
  /\ late \subseteq Conn

Last(f) == f.type # "chunk"

\* What a client sees, on one connection: the answers come in the order of the
\* requests and none is skipped; the frames of two answers never mix; an answer
\* ends with exactly one last frame, and nothing of it follows; a streamed
\* answer is chunks and then done or error, any other a single reply.
FramesWellFormed ==
  \A c \in Conn :
    LET f == frames[c]
    IN /\ \A i \in DOMAIN f :
            /\ f[i].type = "reply" <=> sent[c][f[i].request] \in {"bad", "sync"}
            /\ i = 1 => f[i].request = 1
            /\ i > 1 => f[i].request = f[i-1].request
                          + (IF Last(f[i-1]) THEN 1 ELSE 0)
       /\ pc[c] = "read" /\ link[c] = "open" /\ taken[c] > 0
            => f # << >> /\ Last(f[Len(f)]) /\ f[Len(f)].request = taken[c]

\* Of a streamed answer that could not be relayed to the end, the conversation's
\* memory keeps no part: neither the question nor the chunks that got through.
\* Only of a request for tools or a plan it may hold both, question and answer,
\* since those were stored, complete, before there was anything to relay.
AbortedNotStored ==
  \A r \in aborted \cap memory : sent[r[1]][r[2]] = "plan"

\* However its requests spread over connections and over the two ways to be
\* answered, a user begins no more turns on the model than the bucket held and
\* regained.  (A turn may take many calls of the model for its one token.)
TurnsWithinBudget ==
  \A u \in User : turns[u] + tokens[u] <= Burst + refills[u]

\* The stop closes every connection registered by then: one that is still open
\* was registered afterwards, by a handler that had already been upgraded.
StopClosesRegistered ==
  server = "closed" =>
    \A c \in clients : link[c] = "open" => c \in late

\* The state is well formed, with exactly the connections registered whose
\* handler has not cleaned up; the stop closes those, and until then every
\* client gets its answers whole and in order.
ServerInv == StreamTypeOK /\ StopClosesRegistered /\ FramesWellFormed

\* A connection closed by the stop, or lost, lets its handler go, whatever it
\* was doing.
ClosedHandlerEnds ==
  \A c \in Conn : link[c] \in {"lost", "closed"} ~> pc[c] = "gone"
=============================================================================
