------------------------------ MODULE Gateway -------------------------------
(***************************************************************************)
(* The gateway's message pipeline (internal/gateway/gateway.go): what the  *)
(* receive loops of the channels and the cron jobs do with a message, from *)
(* taking it to the last chunk of the reply, over the event bus            *)
(* (eventbus.go), the duplicate filter, the statistics (stats.go), the     *)
(* channel preferences (userprefs.go) and the adapters' addressing.        *)
(*                                                                         *)
(* Publish waits for its handlers, so each loop and each job handles one   *)
(* message at a time; different loops and jobs run concurrently.           *)
(***************************************************************************)
EXTENDS Naturals, Sequences, FiniteSets, SequencesExt

CONSTANTS
  Channel,     \* the registered channels, named by their adapter
  Job,         \* cron jobs
  Inbound,     \* messages the platforms may deliver, once or again
  JobMessage,  \* job -> the message it fires
  Preference,  \* channel names the preferences API may be given
  MaxChunks,   \* bound: chunks of a reply
  MaxArrivals, \* bound: messages delivered and fired
  RecentCap,   \* how many recent messages the statistics keep
  None

\* A message: its duplicate-filter key, its user, the channel it names as its
\* source, the channel whose metadata it carries, the sender's conversation.
Message == Inbound \cup {JobMessage[j] : j \in Job}

ASSUME GatewayAssumption ==
  /\ MaxChunks \in Nat \ {0}
  /\ MaxArrivals \in Nat
  /\ RecentCap \in Nat \ {0}
  /\ IsFiniteSet(Channel) /\ IsFiniteSet(Job) /\ Channel \cap Job = {}
  /\ None \notin Channel \cup Preference
  /\ \A m \in Inbound : m.meta = m.channel /\ m.channel \in Channel
  /\ \A j \in Job : JobMessage[j].meta = None

Worker == Channel \cup Job
User == {m.user : m \in Message}

VARIABLES
  arrivals,  \* the messages received so far: arrival n is arrivals[n]
  inbox,     \* channel -> queued arrivals
  pc, cur,   \* worker -> where it is, the arrival it handles
  target, chunks, next, \* worker -> reply channel, number of chunks, next one
  seen,      \* keys the duplicate filter holds
  prefs,     \* user -> preferred channel
  inboundCount, outboundCount, \* the statistics: counters ...
  recent,    \* ... and the directions of the recent messages, newest first
  snapshot,  \* the recent messages a dashboard request has copied, or None
  cancelled, \* the gateway's context
  events,    \* history: arrival -> the types of the events published for it
  outbox     \* history: channel -> chunks handed to its platform

vars == <<arrivals, inbox, pc, cur, target, chunks, next, seen, prefs,
          inboundCount, outboundCount, recent, snapshot, cancelled, events, outbox>>

reply == <<target, chunks, next>>
stats == <<inboundCount, outboundCount, recent, snapshot>>

Init ==
  /\ arrivals = << >>
  /\ inbox = [c \in Channel |-> << >>]
  /\ pc = [w \in Worker |-> "idle"]
  /\ cur = [w \in Worker |-> 0]
  /\ target = [w \in Worker |-> None]
  /\ chunks = [w \in Worker |-> 0]
  /\ next = [w \in Worker |-> 0]
  /\ seen = {}
  /\ prefs = [u \in User |-> None]
  /\ inboundCount = 0 /\ outboundCount = 0
  /\ recent = << >> /\ snapshot = None
  /\ cancelled = FALSE
  /\ events = [n \in 1..MaxArrivals |-> << >>]
  /\ outbox = [c \in Channel |-> << >>]

Msg(w) == arrivals[cur[w]]
Goto(w, label) == pc' = [pc EXCEPT ![w] = label]
Publish(type, w) == events' = [events EXCEPT ![cur[w]] = Append(@, type)]

\* Newest first, and no more than the cap.
addRecent(direction) ==
  recent' = SubSeq(<<direction>> \o recent, 1,
                   IF Len(recent) < RecentCap THEN Len(recent) + 1 ELSE RecentCap)

\* The handler returns, and what it knew of the message is gone.
Finish(w) ==
  /\ Goto(w, "idle")
  /\ cur' = [cur EXCEPT ![w] = 0]
  /\ target' = [target EXCEPT ![w] = None]
  /\ chunks' = [chunks EXCEPT ![w] = 0]
  /\ next' = [next EXCEPT ![w] = 0]

-----------------------------------------------------------------------------
\* A platform delivers a message, perhaps not for the first time.
Arrive(m) ==
  /\ Len(arrivals) < MaxArrivals
  /\ arrivals' = Append(arrivals, m)
  /\ inbox' = [inbox EXCEPT ![m.channel] = Append(@, Len(arrivals'))]
  /\ UNCHANGED <<pc, cur, reply, seen, prefs, stats, cancelled, events, outbox>>

\* A mutant: the loop takes the newest message.
ReceiveNewest(c) ==
  /\ pc[c] = "idle"
  /\ inbox[c] # << >>
  /\ cur' = [cur EXCEPT ![c] = Last(inbox[c])]
  /\ inbox' = [inbox EXCEPT ![c] = Front(@)]
  /\ Goto(c, "dedup")
  /\ UNCHANGED <<arrivals, reply, seen, prefs, stats, cancelled, events, outbox>>

\* The receive loop of c takes the next message; once the context is cancelled
\* it may as well leave.
Receive(c) ==
  /\ pc[c] = "idle"
  /\ inbox[c] # << >>
  /\ cur' = [cur EXCEPT ![c] = Head(inbox[c])]
  /\ inbox' = [inbox EXCEPT ![c] = Tail(@)]
  /\ Goto(c, "dedup")
  /\ UNCHANGED <<arrivals, reply, seen, prefs, stats, cancelled, events, outbox>>

LoopEnds(w) ==
  /\ pc[w] = "idle"
  /\ cancelled
  /\ Goto(w, "gone")
  /\ UNCHANGED <<arrivals, inbox, cur, reply, seen, prefs, stats, cancelled,
                 events, outbox>>

\* A cron job's ticker fires.
Fire(j) ==
  /\ pc[j] = "idle"
  /\ Len(arrivals) < MaxArrivals
  /\ arrivals' = Append(arrivals, JobMessage[j])
  /\ cur' = [cur EXCEPT ![j] = Len(arrivals')]
  /\ Goto(j, "dedup")
  /\ UNCHANGED <<inbox, reply, seen, prefs, stats, cancelled, events, outbox>>

\* POST /users/{user}/preferences stores any channel name, or deletes it.
SetPreference(u, c) ==
  /\ prefs[u] # c
  /\ prefs' = [prefs EXCEPT ![u] = c]
  /\ UNCHANGED <<arrivals, inbox, pc, cur, reply, seen, stats, cancelled,
                 events, outbox>>

Cancel ==
  /\ ~cancelled
  /\ cancelled' = TRUE
  /\ UNCHANGED <<arrivals, inbox, pc, cur, reply, seen, prefs, stats, events,
                 outbox>>

-----------------------------------------------------------------------------
\* A mutant: only the last key is remembered.
DedupLastOnly(w) ==
  /\ pc[w] = "dedup"
  /\ \/ /\ Msg(w).key \in seen
        /\ Finish(w)
        /\ UNCHANGED seen
     \/ /\ Msg(w).key \notin seen
        /\ seen' = {Msg(w).key}
        /\ Goto(w, "start")
        /\ UNCHANGED <<cur, reply>>
  /\ UNCHANGED <<arrivals, inbox, prefs, stats, cancelled, events, outbox>>

\* handleMessageReceived: a duplicate is dropped.
Dedup(w) ==
  /\ pc[w] = "dedup"
  /\ \/ /\ Msg(w).key \in seen
        /\ Finish(w)
        /\ UNCHANGED seen
     \/ /\ Msg(w).key \notin seen
        /\ seen' = seen \cup {Msg(w).key}
        /\ Goto(w, "start")
        /\ UNCHANGED <<cur, reply>>
  /\ UNCHANGED <<arrivals, inbox, prefs, stats, cancelled, events, outbox>>

\* A mutant: the message is listed before it is counted.
CountListsFirst(w) ==
  /\ \/ /\ pc[w] = "start"
        /\ addRecent("in")
        /\ Goto(w, "count")
        /\ UNCHANGED <<inboundCount, events>>
     \/ /\ pc[w] = "count"
        /\ inboundCount' = inboundCount + 1
        /\ Publish("agent.started", w)
        /\ Goto(w, "process")
        /\ UNCHANGED recent
  /\ UNCHANGED <<arrivals, inbox, cur, reply, seen, prefs, outboundCount,
                 snapshot, cancelled, outbox>>

\* RecordInbound counts the message ...
Count(w) ==
  /\ pc[w] = "start"
  /\ inboundCount' = inboundCount + 1
  /\ Goto(w, "list")
  /\ UNCHANGED <<arrivals, inbox, cur, reply, seen, prefs, outboundCount,
                 recent, snapshot, cancelled, events, outbox>>

\* ... and lists it among the recent ones; then agent.started is published.
Start(w) ==
  /\ pc[w] = "list"
  /\ addRecent("in")
  /\ Publish("agent.started", w)
  /\ Goto(w, "process")
  /\ UNCHANGED <<arrivals, inbox, cur, reply, seen, prefs, inboundCount,
                 outboundCount, snapshot, cancelled, outbox>>

\* ProcessMessage answers, with a reply that makes n chunks, or fails.
Answer(w, n) ==
  /\ pc[w] = "process"
  /\ chunks' = [chunks EXCEPT ![w] = n]
  /\ Publish("agent.completed", w)
  /\ Goto(w, "resolve")
  /\ UNCHANGED <<arrivals, inbox, cur, target, next, seen, prefs, stats,
                 cancelled, outbox>>

\* A mutant: a failure ends the loop.
FailEndsLoop(w) ==
  /\ pc[w] = "process"
  /\ Publish("agent.error", w)
  /\ Goto(w, "gone")
  /\ UNCHANGED <<arrivals, inbox, cur, reply, seen, prefs, stats, cancelled,
                 outbox>>

Fail(w) ==
  /\ pc[w] = "process"
  /\ Publish("agent.error", w)
  /\ Finish(w)
  /\ UNCHANGED <<arrivals, inbox, seen, prefs, stats, cancelled, outbox>>

\* The reply goes to the channel the user prefers, or to the message's own; it
\* is dropped when that channel is not registered.
Resolve(w) ==
  /\ pc[w] = "resolve"
  /\ LET c == IF prefs[Msg(w).user] = None THEN Msg(w).channel
              ELSE prefs[Msg(w).user]
     IN \/ /\ c \in Channel
           /\ target' = [target EXCEPT ![w] = c]
           /\ next' = [next EXCEPT ![w] = 1]
           /\ Goto(w, "send")
           /\ UNCHANGED <<cur, chunks>>
        \/ /\ c \notin Channel
           /\ Finish(w)
  /\ UNCHANGED <<arrivals, inbox, seen, prefs, stats, cancelled, events, outbox>>

\* Where the adapter of channel c sends a reply to m: the conversation it finds
\* in metadata of its own; its own name, where the reply's ChannelID or the
\* missing user ID takes its place; or nowhere, which is an error.
Address(c, m) ==
  CASE c = "test"   -> m.conv
    [] c = "signal" -> c
    [] c \in {"discord", "whatsapp"} -> IF m.meta = c THEN m.conv ELSE c
    [] OTHER -> IF m.meta = c THEN m.conv ELSE None

\* The platforms refuse a message to no conversation of theirs; signal-cli is
\* only written to, its answer is not awaited.
Sendable(c, m) == c = "signal" \/ Address(c, m) = m.conv

\* A mutant: every chunk counts.
SendChunkCounted(w) ==
  /\ pc[w] = "send"
  /\ Sendable(target[w], Msg(w))
  /\ outbox' = [outbox EXCEPT ![target[w]] =
       Append(@, [arrival |-> cur[w], chunk |-> next[w],
                  to |-> Address(target[w], Msg(w))])]
  /\ Goto(w, "sent")
  /\ UNCHANGED <<arrivals, inbox, cur, reply, seen, prefs, stats, cancelled,
                 events>>

SendChunk(w) ==
  /\ pc[w] = "send"
  /\ Sendable(target[w], Msg(w))
  /\ outbox' = [outbox EXCEPT ![target[w]] =
       Append(@, [arrival |-> cur[w], chunk |-> next[w],
                  to |-> Address(target[w], Msg(w))])]
  /\ Goto(w, IF next[w] = 1 THEN "sent" ELSE "more")
  /\ UNCHANGED <<arrivals, inbox, cur, reply, seen, prefs, stats, cancelled,
                 events>>

\* SendMessage fails: not connected, no address, or a platform error.
SendFails(w) ==
  /\ pc[w] = "send"
  /\ Finish(w)
  /\ UNCHANGED <<arrivals, inbox, seen, prefs, stats, cancelled, events, outbox>>

\* The first chunk counts as the outbound message, ...
CountSent(w) ==
  /\ pc[w] = "sent"
  /\ outboundCount' = outboundCount + 1
  /\ Goto(w, "listsent")
  /\ UNCHANGED <<arrivals, inbox, cur, reply, seen, prefs, inboundCount, recent,
                 snapshot, cancelled, events, outbox>>

\* ... is listed, and message.sent is published.
Sent(w) ==
  /\ pc[w] = "listsent"
  /\ addRecent("out")
  /\ Publish("message.sent", w)
  /\ Goto(w, "more")
  /\ UNCHANGED <<arrivals, inbox, cur, reply, seen, prefs, inboundCount,
                 outboundCount, snapshot, cancelled, outbox>>

\* Further chunks follow after a pause, which the context may end.
More(w) ==
  /\ pc[w] = "more"
  /\ \/ /\ next[w] < chunks[w]
        /\ next' = [next EXCEPT ![w] = @ + 1]
        /\ Goto(w, "send")
        /\ UNCHANGED <<cur, target, chunks>>
     \/ /\ next[w] = chunks[w] \/ cancelled
        /\ Finish(w)
  /\ UNCHANGED <<arrivals, inbox, seen, prefs, stats, cancelled, events, outbox>>

\* GET /dashboard/data: Snapshot copies the recent messages under their lock ...
CopyRecent ==
  /\ snapshot = None
  /\ snapshot' = recent
  /\ UNCHANGED <<arrivals, inbox, pc, cur, reply, seen, prefs, inboundCount,
                 outboundCount, recent, cancelled, events, outbox>>

\* ... and then loads the counters, which go on counting meanwhile.
LoadCounters ==
  /\ snapshot # None
  /\ snapshot' = None
  /\ UNCHANGED <<arrivals, inbox, pc, cur, reply, seen, prefs, inboundCount,
                 outboundCount, recent, cancelled, events, outbox>>

Handle(w) ==
  \/ Dedup(w) \/ Count(w) \/ Start(w) \/ (\E n \in 1..MaxChunks : Answer(w, n)) \/ Fail(w)
  \/ Resolve(w) \/ SendChunk(w) \/ SendFails(w) \/ CountSent(w)
  \/ Sent(w) \/ More(w)

Next ==
  \/ \E m \in Inbound : Arrive(m)
  \/ \E c \in Channel : Receive(c)
  \/ \E j \in Job : Fire(j)
  \/ \E w \in Worker : Handle(w) \/ LoopEnds(w)
  \/ \E u \in User, c \in Preference \cup {None} : SetPreference(u, c)
  \/ CopyRecent \/ LoadCounters
  \/ Cancel

Spec == Init /\ [][Next]_vars

\* Goroutines run, and model and platform calls return.
FairSpec ==
  /\ Spec
  /\ \A c \in Channel : WF_vars(Receive(c) \/ Handle(c))
  /\ \A j \in Job : WF_vars(Handle(j))

-----------------------------------------------------------------------------
Label == {"idle", "dedup", "start", "list", "process", "resolve", "send",
          "sent", "listsent", "more", "gone"}
Direction == {"in", "out"}
Arrival == 1..Len(arrivals)
EventType == {"agent.started", "agent.completed", "agent.error", "message.sent"}
Place == Channel \cup {None} \cup {m.conv : m \in Message}
Chunk == [arrival : Arrival, chunk : 1..MaxChunks, to : Place]

\* Type correctness.
TypeOK ==
  /\ arrivals \in Seq(Message) /\ Len(arrivals) <= MaxArrivals
  /\ inbox \in [Channel -> Seq(Arrival)]
  /\ pc \in [Worker -> Label]
  /\ cur \in [Worker -> Arrival \cup {0}]
  /\ \A w \in Worker : pc[w] \in {"idle", "gone"} <=> cur[w] = 0
  /\ target \in [Worker -> Channel \cup {None}]
  /\ chunks \in [Worker -> 0..MaxChunks]
  /\ next \in [Worker -> 0..MaxChunks]
  /\ seen \in SUBSET {m.key : m \in Message}
  /\ prefs \in [User -> Preference \cup {None}]
  /\ inboundCount \in 0..MaxArrivals /\ outboundCount \in 0..MaxArrivals
  /\ recent \in Seq(Direction) /\ Len(recent) <= RecentCap
  /\ snapshot \in Seq(Direction) \cup {None}
  /\ events \in [1..MaxArrivals -> Seq(EventType)]
  /\ outbox \in [Channel -> Seq(Chunk)]

\* Where c's platform has chunks for arrival n, and which ones.
ChunksOf(n, c) == {i \in DOMAIN outbox[c] : outbox[c][i].arrival = n}
NumbersOf(n, c) == {outbox[c][i].chunk : i \in ChunksOf(n, c)}
Happened(type, n) == \E i \in DOMAIN events[n] : events[n][i] = type

\* However often a message is delivered, and by however many loops and jobs at
\* a time, the agent is started for its key at most once (while the filter
\* remembers it).
ProcessedOnce ==
  \A n, k \in Arrival :
    n # k /\ Happened("agent.started", n) /\ Happened("agent.started", k)
      => arrivals[n].key # arrivals[k].key

\* The events of a message come in the one order their readers may expect.
EventOrder ==
  \A n \in Arrival :
    \E whole \in {<<"agent.started", "agent.error">>,
                  <<"agent.started", "agent.completed", "message.sent">>} :
      IsPrefix(events[n], whole)

\* The state is well formed, a message is run once, and its events are in order.
EventInv == TypeOK /\ EventOrder /\ ProcessedOnce

\* A reply is not torn: its chunks go to one channel, each once, in order,
\* whatever happens to the user's preference meanwhile.
ReplyInOrder ==
  \A n \in Arrival, c \in Channel :
    /\ \A i, j \in ChunksOf(n, c) : i < j => outbox[c][i].chunk < outbox[c][j].chunk
    /\ \E k \in 0..MaxChunks : NumbersOf(n, c) = 1..k
    /\ ChunksOf(n, c) # {} => \A d \in Channel \ {c} : ChunksOf(n, d) = {}

\* Replies to the messages of one channel do not overtake one another: no
\* chunk for an earlier message follows one for a later message.
RepliesInArrivalOrder ==
  \A c \in Channel : \A i, j \in DOMAIN outbox[c] :
    LET n == outbox[c][i].arrival
        k == outbox[c][j].arrival
    IN i < j /\ arrivals[n].meta # None /\ arrivals[n].meta = arrivals[k].meta
       => n <= k

\* A reply is whole and in order, and replies to one conversation are too.
RepliesInOrder == ReplyInOrder /\ RepliesInArrivalOrder

\* The statistics count messages, not deliveries and not chunks: inbound the
\* distinct keys that passed the filter, outbound the replies of which anything
\* went out, except those just about to be counted.
StatsAgree ==
  /\ inboundCount + Cardinality({w \in Worker : pc[w] = "start"}) = Cardinality(seen)
  /\ outboundCount + Cardinality({w \in Worker : pc[w] = "sent"}) =
       Cardinality({n \in Arrival : \E c \in Channel : ChunksOf(n, c) # {}})

Listed(direction, list) == {i \in DOMAIN list : list[i] = direction}

\* What a dashboard request shows is not a point in time, as stats.go:96 says,
\* but its counters never fall short of its list: whenever they are loaded, every
\* message listed has been counted, whatever is received and sent meanwhile.
SnapshotCounts ==
  snapshot # None =>
    /\ Cardinality(Listed("in", snapshot)) <= inboundCount
    /\ Cardinality(Listed("out", snapshot)) <= outboundCount

Pending(n) ==
  \/ \E c \in Channel : \E i \in DOMAIN inbox[c] : inbox[c][i] = n
  \/ \E w \in Worker : cur[w] = n /\ pc[w] \notin {"idle", "gone"}

Backlog == \E n \in 1..MaxArrivals : Pending(n)

\* Whatever was received is handled to the end, or the gateway stops: no failure
\* of one message holds up the following ones.  With MaxArrivals messages in all,
\* emptying the backlog again and again means handling every message.
EveryMessageHandled == Backlog ~> (~Backlog \/ cancelled)
=============================================================================
