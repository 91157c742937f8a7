---------------------------- MODULE GatewayProofs ----------------------------
(***************************************************************************)
(* Proofs about the gateway's pipeline: for any channels, cron jobs,       *)
(* messages, preferences, chunks and size of the recent list.  The         *)
(* inductive invariant follows each message: who owns it, which events and *)
(* chunks it has at each step of its handler, and that a channel's loop    *)
(* has sent nothing for a later one.                                       *)
(***************************************************************************)
EXTENDS Gateway, SequenceTheorems, FiniteSetTheorems, TLAPS

\* What each worker handles is its own: a receive loop handles the messages of its
\* channel in their order, a cron job its own, and no two workers the same arrival.
Owned ==
  /\ \A c \in Channel :
       /\ \A i, j \in DOMAIN inbox[c] : i < j => inbox[c][i] < inbox[c][j]
       /\ \A i \in DOMAIN inbox[c] : arrivals[inbox[c][i]].meta = c
       /\ cur[c] # 0 =>
            /\ arrivals[cur[c]].meta = c
            /\ \A i \in DOMAIN inbox[c] : cur[c] < inbox[c][i]
  /\ \A j \in Job : cur[j] # 0 => arrivals[cur[j]].meta = None
  /\ \A v, w \in Worker : cur[v] # 0 /\ cur[v] = cur[w] => v = w

\* A message still queued has neither events nor chunks.
QueuedFresh ==
  /\ \A n \in 1..MaxArrivals : n > Len(arrivals) => events[n] = << >>
  /\ \A c \in Channel : \A i \in DOMAIN inbox[c] :
       /\ events[inbox[c][i]] = << >>
       /\ \A d \in Channel : ChunksOf(inbox[c][i], d) = {}

\* The events of a message, as far as it has come.
Begun == <<"agent.started">>
Failed == <<"agent.started", "agent.error">>
Completed == <<"agent.started", "agent.completed">>
Told == <<"agent.started", "agent.completed", "message.sent">>

EventsBy(w) ==
  cur[w] # 0 =>
    /\ pc[w] \in {"dedup", "start", "list"} => events[cur[w]] = << >>
    /\ pc[w] = "process" => events[cur[w]] = Begun
    /\ pc[w] \in {"resolve", "sent", "listsent"} \/ (pc[w] = "send" /\ next[w] = 1) =>
         events[cur[w]] = Completed
    /\ pc[w] = "more" \/ (pc[w] = "send" /\ next[w] > 1) => events[cur[w]] = Told

EventsSoFar ==
  /\ \A n \in 1..MaxArrivals : events[n] \in {<< >>, Begun, Failed, Completed, Told}
  /\ \A w \in Worker : EventsBy(w)

\* The chunks of its reply, as far as the worker has come.
Sending(w) == pc[w] \in {"send", "sent", "listsent", "more"}
SentBy(w) == IF ~Sending(w) THEN 0 ELSE IF pc[w] = "send" THEN next[w] - 1 ELSE next[w]

ChunksBy(w) ==
  /\ pc[w] = "resolve" => chunks[w] > 0
  /\ Sending(w) => target[w] \in Channel /\ next[w] \in 1..chunks[w]
  /\ pc[w] \in {"sent", "listsent"} => next[w] = 1
  /\ cur[w] # 0 => \A c \in Channel :
       NumbersOf(cur[w], c) = IF c = target[w] THEN 1..SentBy(w) ELSE {}

ChunksSoFar == \A w \in Worker : ChunksBy(w)

\* A message that has passed the duplicate filter is the only one with its key.
Passed(n) ==
  events[n] # << >> \/ \E w \in Worker : cur[w] = n /\ pc[w] \in {"start", "list"}

KeysOnce ==
  /\ \A n, k \in Arrival : Passed(n) /\ Passed(k) /\ n # k => arrivals[n].key # arrivals[k].key
  /\ \A n \in Arrival : Passed(n) => arrivals[n].key \in seen
  /\ seen \subseteq {arrivals[n].key : n \in Arrival}

\* A channel's loop has sent nothing for a message later than its own.
SentInOrder ==
  \A c, d \in Channel : \A i \in DOMAIN outbox[c] :
    arrivals[outbox[c][i].arrival].meta = d =>
      /\ cur[d] # 0 => outbox[c][i].arrival <= cur[d]
      /\ \A k \in DOMAIN inbox[d] : outbox[c][i].arrival < inbox[d][k]

At(label) == {w \in Worker : pc[w] = label}
Replied == {n \in Arrival : \E c \in Channel : ChunksOf(n, c) # {}}

\* What the statistics list has been counted, and so has what is about to be listed.
ListedCounted ==
  /\ Cardinality(Listed("in", recent)) + Cardinality(At("list")) <= inboundCount
  /\ Cardinality(Listed("out", recent)) + Cardinality(At("listsent")) <= outboundCount

IInv ==
  /\ TypeOK /\ Owned /\ QueuedFresh /\ EventsSoFar /\ KeysOnce
  /\ ChunksSoFar /\ ReplyInOrder /\ SentInOrder /\ RepliesInArrivalOrder
  /\ StatsAgree /\ ListedCounted /\ SnapshotCounts

-----------------------------------------------------------------------------
(* Lemmas about the operators.                                               *)

LEMMA WorkersFinite ==
  /\ IsFiniteSet(Worker)
  /\ \A label : IsFiniteSet(At(label)) /\ Cardinality(At(label)) \in Nat
<1>1. IsFiniteSet(Worker)
  BY GatewayAssumption, FS_Union DEF Worker
<1>2. \A label : At(label) \in SUBSET Worker
  BY DEF At
<1>3. QED
  BY <1>1, <1>2, FS_Subset, FS_CardinalityType

LEMMA WorkersFiniteNext == \A label : Cardinality(At(label)') \in Nat
<1>1. IsFiniteSet(Worker)
  BY GatewayAssumption, FS_Union DEF Worker
<1>2. \A label : At(label)' \in SUBSET Worker
  BY DEF At
<1>3. QED
  BY <1>1, <1>2, FS_Subset, FS_CardinalityType

\* A worker that moves on is one more at its new label and one less at its old.
LEMMA OneMoves ==
  ASSUME NEW w \in Worker, NEW old \in Label, NEW label \in Label \ {old},
         pc \in [Worker -> Label], pc[w] = old, pc' = [pc EXCEPT ![w] = label]
  PROVE  /\ \A l : l # label /\ l # old => At(l)' = At(l)
         /\ Cardinality(At(label)') = Cardinality(At(label)) + 1
         /\ Cardinality(At(old)') = Cardinality(At(old)) - 1
<1>1. \A v \in Worker : pc'[v] = IF v = w THEN label ELSE pc[v]
  OBVIOUS
<1>2. ASSUME NEW l, l # label, l # old PROVE At(l)' = At(l)
  <2>1. \A v \in Worker : pc'[v] = l <=> pc[v] = l
    BY <1>1, <1>2
  <2>2. QED
    BY <2>1 DEF At
<1>3. At(label)' = At(label) \cup {w} /\ w \notin At(label)
  BY <1>1 DEF At
<1>4. At(old)' = At(old) \ {w} /\ w \in At(old)
  BY <1>1 DEF At
<1>5. IsFiniteSet(At(label)) /\ IsFiniteSet(At(old))
  BY WorkersFinite
<1>6. Cardinality(At(label) \cup {w}) = Cardinality(At(label)) + 1
  BY <1>3, <1>5, FS_AddElement
<1>7. Cardinality(At(old) \ {w}) = Cardinality(At(old)) - 1
  BY <1>4, <1>5, FS_RemoveElement
<1>8. QED
  BY <1>2, <1>3, <1>4, <1>6, <1>7

\* A chunk handed to the platform of c.
LEMMA OneChunk ==
  ASSUME outbox \in [Channel -> Seq(Chunk)], NEW c \in Channel, NEW s \in Chunk,
         outbox' = [outbox EXCEPT ![c] = Append(@, s)]
  PROVE  /\ outbox' \in [Channel -> Seq(Chunk)]
         /\ \A d \in Channel : d # c => outbox'[d] = outbox[d]
         /\ Len(outbox[c]) + 1 \notin DOMAIN outbox[c]
         /\ DOMAIN outbox'[c] = DOMAIN outbox[c] \cup {Len(outbox[c]) + 1}
         /\ \A i \in DOMAIN outbox[c] : /\ outbox'[c][i] = outbox[c][i]
                                        /\ i \in Nat /\ i < Len(outbox[c]) + 1
         /\ outbox'[c][Len(outbox[c]) + 1] = s
<1>1. outbox[c] \in Seq(Chunk) /\ outbox'[c] = Append(outbox[c], s)
  OBVIOUS
<1>2. QED
  BY <1>1, AppendProperties

LEMMA ChunkNumbers ==
  ASSUME outbox \in [Channel -> Seq(Chunk)], NEW c \in Channel, NEW s \in Chunk,
         outbox' = [outbox EXCEPT ![c] = Append(@, s)]
  PROVE  \A n : \A d \in Channel :
           /\ d # c \/ n # s.arrival =>
                ChunksOf(n, d)' = ChunksOf(n, d) /\ NumbersOf(n, d)' = NumbersOf(n, d)
           /\ d = c /\ n = s.arrival =>
                /\ ChunksOf(n, d)' = ChunksOf(n, d) \cup {Len(outbox[c]) + 1}
                /\ NumbersOf(n, d)' = NumbersOf(n, d) \cup {s.chunk}
<1> TAKE n
<1> TAKE d \in Channel
<1>1. /\ \A x \in Channel : x # c => outbox'[x] = outbox[x]
      /\ Len(outbox[c]) + 1 \notin DOMAIN outbox[c]
      /\ DOMAIN outbox'[c] = DOMAIN outbox[c] \cup {Len(outbox[c]) + 1}
      /\ \A i \in DOMAIN outbox[c] : outbox'[c][i] = outbox[c][i]
      /\ outbox'[c][Len(outbox[c]) + 1] = s
  BY OneChunk
<1> DEFINE last == Len(outbox[c]) + 1
<1> HIDE DEF last
<1>2. CASE d # c
  BY <1>1, <1>2 DEF ChunksOf, NumbersOf
<1>3. CASE d = c /\ n # s.arrival
  <2>1. ChunksOf(n, d)' = ChunksOf(n, d)
    BY <1>1, <1>3 DEF ChunksOf
  <2>2. \A i \in ChunksOf(n, d) : outbox'[d][i] = outbox[d][i]
    BY <1>1, <1>3 DEF ChunksOf
  <2>3. NumbersOf(n, d)' = {outbox'[d][i].chunk : i \in ChunksOf(n, d)}
    BY <2>1 DEF NumbersOf
  <2>4. {outbox'[d][i].chunk : i \in ChunksOf(n, d)} = {outbox[d][i].chunk : i \in ChunksOf(n, d)}
    BY <2>2
  <2>5. NumbersOf(n, d)' = NumbersOf(n, d)
    BY <2>3, <2>4 DEF NumbersOf
  <2>6. QED
    BY <1>3, <2>1, <2>5
<1>4. CASE d = c /\ n = s.arrival
  <2>1. ChunksOf(n, d)' = ChunksOf(n, d) \cup {Len(outbox[c]) + 1}
    BY <1>1, <1>4 DEF ChunksOf
  <2>2. \A i \in ChunksOf(n, d) : outbox'[d][i] = outbox[d][i]
    BY <1>1, <1>4 DEF ChunksOf
  <2>3. NumbersOf(n, d)' = NumbersOf(n, d) \cup {s.chunk}
    <3>1. NumbersOf(n, d)' = {outbox'[d][i].chunk : i \in ChunksOf(n, d) \cup {last}}
      BY <2>1 DEF NumbersOf, last
    <3>2. outbox'[d][last] = s
      BY <1>1, <1>4 DEF last
    <3>3. {outbox'[d][i].chunk : i \in ChunksOf(n, d) \cup {last}}
            = {outbox'[d][i].chunk : i \in ChunksOf(n, d)} \cup {outbox'[d][last].chunk}
      OBVIOUS
    <3>4. {outbox'[d][i].chunk : i \in ChunksOf(n, d)} = {outbox[d][i].chunk : i \in ChunksOf(n, d)}
      BY <2>2
    <3>5. QED
      BY <3>1, <3>2, <3>3, <3>4 DEF NumbersOf
  <2>4. QED
    BY <1>4, <2>1, <2>3
<1>5. QED
  BY <1>2, <1>3, <1>4

\* No chunks have no numbers.
LEMMA NumbersEmpty ==
  ASSUME NEW n, NEW c PROVE NumbersOf(n, c) = {} <=> ChunksOf(n, c) = {}
BY DEF NumbersOf

\* addRecent keeps the cap, and lists at most one more of its direction.
LEMMA OneListed ==
  ASSUME NEW d \in Direction, addRecent(d),
         recent \in Seq(Direction), Len(recent) <= RecentCap
  PROVE  /\ recent' \in Seq(Direction) /\ Len(recent') <= RecentCap
         /\ \A x \in Direction :
              /\ Cardinality(Listed(x, recent)) \in Nat
              /\ Cardinality(Listed(x, recent')) \in Nat
              /\ Cardinality(Listed(x, recent')) <=
                   Cardinality(Listed(x, recent)) + (IF x = d THEN 1 ELSE 0)
<1> DEFINE k == IF Len(recent) < RecentCap THEN Len(recent) + 1 ELSE RecentCap
           whole == <<d>> \o recent
<1>0. RecentCap \in Nat /\ RecentCap > 0 /\ Len(recent) \in Nat
  BY GatewayAssumption
<1>1. k \in Nat /\ k > 0 /\ k <= Len(recent) + 1 /\ k <= RecentCap
  BY <1>0
<1>2. /\ <<d>> \in Seq(Direction) /\ Len(<<d>>) = 1 /\ <<d>>[1] = d
  OBVIOUS
<1>3. /\ whole \in Seq(Direction) /\ Len(whole) = Len(recent) + 1
      /\ \A i \in 1..(Len(recent) + 1) :
           whole[i] = IF i <= 1 THEN <<d>>[i] ELSE recent[i - 1]
  BY <1>0, <1>2, ConcatProperties
<1>4. recent' = SubSeq(whole, 1, k)
  BY DEF addRecent
<1> HIDE DEF k, whole
<1>5. \A i \in 1..k : whole[i] \in Direction
  BY <1>0, <1>1, <1>3, ElementOfSeq
<1>6. /\ recent' \in Seq(Direction) /\ Len(recent') = k
      /\ \A i \in 1..k : recent'[i] = whole[i]
  BY <1>1, <1>4, <1>5, SubSeqProperties
<1>7. /\ recent'[1] = d
      /\ \A i \in 2..k : recent'[i] = recent[i - 1] /\ i - 1 \in 1..Len(recent)
  BY <1>0, <1>1, <1>2, <1>3, <1>6
<1>8. ASSUME NEW x \in Direction
      PROVE  /\ Cardinality(Listed(x, recent)) \in Nat
             /\ Cardinality(Listed(x, recent')) \in Nat
             /\ Cardinality(Listed(x, recent')) <=
                  Cardinality(Listed(x, recent)) + (IF x = d THEN 1 ELSE 0)
  <2> DEFINE old == Listed(x, recent)
             new == Listed(x, recent')
             rest == new \ {1}
  <2>1. IsFiniteSet(old) /\ IsFiniteSet(new) /\ IsFiniteSet(rest)
    <3>1. IsFiniteSet(1..Len(recent)) /\ IsFiniteSet(1..k)
      BY <1>0, <1>1, FS_Interval
    <3>2. old \in SUBSET (1..Len(recent)) /\ new \in SUBSET (1..k) /\ rest \in SUBSET (1..k)
      BY <1>6 DEF Listed
    <3>3. QED
      BY <3>1, <3>2, FS_Subset
  <2>2. \A i \in rest : i - 1 \in old /\ i \in Nat
    BY <1>1, <1>6, <1>7 DEF Listed
  <2>3. [i \in rest |-> i - 1] \in Injection(rest, old)
    BY <2>2 DEF Injection, IsInjective
  <2>4. Cardinality(rest) <= Cardinality(old)
    BY <2>1, <2>3, FS_Injection
  <2>5. Cardinality(old) \in Nat /\ Cardinality(new) \in Nat /\ Cardinality(rest) \in Nat
    BY <2>1, FS_CardinalityType
  <2>6. Cardinality(rest) = IF 1 \in new THEN Cardinality(new) - 1 ELSE Cardinality(new)
    BY <2>1, FS_RemoveElement
  <2>7. 1 \in new <=> x = d
    BY <1>1, <1>6, <1>7 DEF Listed
  <2> HIDE DEF old, new, rest
  <2>8. Cardinality(new) <= Cardinality(old) + (IF x = d THEN 1 ELSE 0)
    BY <2>4, <2>5, <2>6, <2>7
  <2>9. QED
    BY <2>5, <2>8 DEF old, new
<1>9. QED
  BY <1>1, <1>6, <1>8

\* No more keys have been seen than messages have arrived.
LEMMA KeysBounded ==
  ASSUME arrivals \in Seq(Message), Len(arrivals) <= MaxArrivals,
         seen \subseteq {arrivals[n].key : n \in Arrival}
  PROVE  IsFiniteSet(seen) /\ Cardinality(seen) \in Nat /\ Cardinality(seen) <= MaxArrivals
<1> DEFINE keys == {arrivals[n].key : n \in Arrival}
           f == [n \in Arrival |-> arrivals[n].key]
<1>1. Len(arrivals) \in Nat /\ MaxArrivals \in Nat
  BY GatewayAssumption
<1>2. IsFiniteSet(Arrival) /\ Cardinality(Arrival) = Len(arrivals)
  <2>1. /\ IsFiniteSet(1..Len(arrivals))
        /\ Cardinality(1..Len(arrivals)) =
             IF 1 > Len(arrivals) THEN 0 ELSE Len(arrivals) - 1 + 1
    <3>1. 1 \in Int /\ Len(arrivals) \in Int
      BY <1>1
    <3>2. QED
      BY <3>1, FS_Interval, Zenon
  <2>2. QED
    BY <1>1, <2>1 DEF Arrival
<1>3. f \in Surjection(Arrival, keys)
  BY DEF Surjection
<1>4. IsFiniteSet(keys) /\ Cardinality(keys) <= Cardinality(Arrival)
  BY <1>2, <1>3, FS_Surjection
<1>5. IsFiniteSet(seen) /\ Cardinality(seen) <= Cardinality(keys)
  BY <1>4, FS_Subset
<1>6. Cardinality(seen) \in Nat /\ Cardinality(keys) \in Nat
  BY <1>4, <1>5, FS_CardinalityType
<1>7. QED
  BY <1>1, <1>2, <1>4, <1>5, <1>6


LEMMA ListedFinite ==
  ASSUME NEW list \in Seq(Direction), NEW d
  PROVE  IsFiniteSet(Listed(d, list)) /\ Cardinality(Listed(d, list)) \in Nat
<1>1. Len(list) \in Nat /\ Listed(d, list) \in SUBSET (1..Len(list))
  BY DEF Listed
<1>2. IsFiniteSet(1..Len(list))
  BY <1>1, FS_Interval
<1>3. QED
  BY <1>1, <1>2, FS_Subset, FS_CardinalityType

\* No more replies have gone out than messages have arrived.
LEMMA RepliesBounded ==
  ASSUME arrivals \in Seq(Message), Len(arrivals) <= MaxArrivals
  PROVE  /\ IsFiniteSet(Replied) /\ Cardinality(Replied) \in Nat
         /\ Cardinality(Replied) <= MaxArrivals
<1>1. Len(arrivals) \in Nat /\ MaxArrivals \in Nat
  BY GatewayAssumption
<1>2. IsFiniteSet(1..MaxArrivals) /\ Cardinality(1..MaxArrivals) <= MaxArrivals
  <2>1. 1 \in Int /\ MaxArrivals \in Int
    BY <1>1
  <2>2. /\ IsFiniteSet(1..MaxArrivals)
        /\ Cardinality(1..MaxArrivals) = IF 1 > MaxArrivals THEN 0 ELSE MaxArrivals - 1 + 1
    BY <2>1, FS_Interval, Zenon
  <2>3. QED
    BY <1>1, <2>2
<1>3. Replied \in SUBSET (1..MaxArrivals)
  BY <1>1 DEF Replied, Arrival
<1>4. /\ IsFiniteSet(Replied) /\ Cardinality(Replied) <= Cardinality(1..MaxArrivals)
  BY <1>2, <1>3, FS_Subset
<1>5. Cardinality(Replied) \in Nat /\ Cardinality(1..MaxArrivals) \in Nat
  BY <1>2, <1>4, FS_CardinalityType
<1>6. QED
  BY <1>1, <1>2, <1>4, <1>5

\* The statistics, in terms of where the workers are.
LEMMA StatsByLabel ==
  StatsAgree <=> /\ inboundCount + Cardinality(At("start")) = Cardinality(seen)
                 /\ outboundCount + Cardinality(At("sent")) = Cardinality(Replied)
BY DEF StatsAgree, At, Replied

\* The same of the next state.
LEMMA StatsByLabelNext ==
  StatsAgree' <=> /\ inboundCount' + Cardinality(At("start")') = Cardinality(seen')
                  /\ outboundCount' + Cardinality(At("sent")') = Cardinality(Replied')
BY DEF StatsAgree, At, Replied

-----------------------------------------------------------------------------
LEMMA InitInv == Init => IInv
<1> SUFFICES ASSUME Init PROVE IInv
  OBVIOUS
<1>0. /\ Len(arrivals) = 0 /\ Arrival = {} /\ recent \in Seq(Direction) /\ Len(recent) = 0
      /\ MaxArrivals \in Nat /\ MaxChunks \in Nat /\ RecentCap \in Nat
  BY GatewayAssumption DEF Init, Arrival
<1>1. TypeOK
  <2>1. arrivals \in Seq(Message)
    BY DEF Init
  <2>2. inbox \in [Channel -> Seq(Arrival)] /\ outbox \in [Channel -> Seq(Chunk)]
    BY DEF Init
  <2>3. events \in [1..MaxArrivals -> Seq(EventType)]
    BY DEF Init
  <2>4. QED
    BY <1>0, <2>1, <2>2, <2>3 DEF Init, TypeOK, Label
<1>2. \A c \in Channel : DOMAIN inbox[c] = {} /\ DOMAIN outbox[c] = {}
  BY DEF Init
<1>3. \A n : \A c \in Channel : ChunksOf(n, c) = {} /\ NumbersOf(n, c) = {}
  BY <1>2 DEF ChunksOf, NumbersOf
<1>4. \A w \in Worker : cur[w] = 0 /\ pc[w] = "idle"
  BY DEF Init
<1>5. Owned
  BY <1>2, <1>4, GatewayAssumption DEF Owned, Worker
<1>6. QueuedFresh
  BY <1>2 DEF Init, QueuedFresh
<1>7. EventsSoFar
  BY <1>4 DEF Init, EventsSoFar, EventsBy
<1>8. KeysOnce
  BY <1>0 DEF Init, KeysOnce
<1>9. ChunksSoFar
  BY <1>4 DEF ChunksSoFar, ChunksBy, Sending
<1>10. ReplyInOrder /\ SentInOrder /\ RepliesInArrivalOrder
  BY <1>0, <1>2 DEF ReplyInOrder, SentInOrder, RepliesInArrivalOrder
<1>11. \A l : l # "idle" => At(l) = {}
  BY <1>4 DEF At
<1>12. StatsAgree
  <2>1. Replied = {} /\ seen = {} /\ inboundCount = 0 /\ outboundCount = 0
    BY <1>0 DEF Replied, Init
  <2>2. At("start") = {} /\ At("sent") = {} /\ Cardinality({}) = 0
    BY <1>11, FS_EmptySet
  <2>3. QED
    BY <2>1, <2>2, StatsByLabel
<1>13. ListedCounted /\ SnapshotCounts
  <2>1. Listed("in", recent) = {} /\ Listed("out", recent) = {}
    BY DEF Init, Listed
  <2>2. At("list") = {} /\ At("listsent") = {} /\ Cardinality({}) = 0
    BY <1>11, FS_EmptySet
  <2>3. snapshot = None /\ inboundCount = 0 /\ outboundCount = 0
    BY DEF Init
  <2>4. QED
    BY <2>1, <2>2, <2>3 DEF ListedCounted, SnapshotCounts
<1>14. QED
  BY <1>1, <1>5, <1>6, <1>7, <1>8, <1>9, <1>10, <1>12, <1>13 DEF IInv

-----------------------------------------------------------------------------
(* Messages come in.                                                         *)

\* What a worker handles is in its own hands, and no longer queued.
LEMMA HandlerOwns ==
  ASSUME IInv, NEW w \in Worker, cur[w] # 0
  PROVE  /\ cur[w] \in Arrival /\ cur[w] \in 1..MaxArrivals /\ Msg(w) \in Message
         /\ \A v \in Worker : v # w => cur[v] # cur[w]
         /\ \A c \in Channel : \A i \in DOMAIN inbox[c] : inbox[c][i] # cur[w]
<1>1. TypeOK /\ Owned
  BY DEF IInv
<1>2. cur[w] \in Arrival /\ cur[w] \in 1..MaxArrivals /\ Msg(w) \in Message
  <2>1. cur[w] \in Arrival
    BY <1>1 DEF TypeOK
  <2>2. arrivals \in Seq(Message) /\ Len(arrivals) \in Nat /\ Len(arrivals) <= MaxArrivals
        /\ MaxArrivals \in Nat
    BY <1>1, GatewayAssumption DEF TypeOK
  <2>3. QED
    BY <2>1, <2>2, ElementOfSeq DEF Arrival, Msg
<1>3. \A v \in Worker : v # w => cur[v] # cur[w]
  BY <1>1 DEF Owned
<1>4. ASSUME NEW c \in Channel, NEW i \in DOMAIN inbox[c] PROVE inbox[c][i] # cur[w]
  <2>1. arrivals[inbox[c][i]].meta = c /\ c # None
    BY <1>1, GatewayAssumption DEF Owned
  <2>2. CASE w = c
    BY <1>1, <1>2, <2>2 DEF Owned, Arrival
  <2>3. CASE w \in Channel /\ w # c
    BY <1>1, <2>1, <2>3 DEF Owned
  <2>4. CASE w \in Job
    BY <1>1, <2>1, <2>4 DEF Owned
  <2>5. QED
    BY <2>2, <2>3, <2>4 DEF Worker
<1>5. QED
  BY <1>2, <1>3, <1>4

\* One more arrival: nothing has been done for it, and what was there is as it was.
LEMMA OneArrives ==
  ASSUME IInv, NEW m \in Message, Len(arrivals) < MaxArrivals,
         arrivals' = Append(arrivals, m)
  PROVE  /\ arrivals' \in Seq(Message)
         /\ Len(arrivals) \in Nat /\ MaxArrivals \in Nat
         /\ Len(arrivals') = Len(arrivals) + 1 /\ Len(arrivals') <= MaxArrivals
         /\ Arrival' = Arrival \cup {Len(arrivals')}
         /\ Len(arrivals') \in 1..MaxArrivals
         /\ \A n \in Arrival : /\ arrivals'[n] = arrivals[n]
                               /\ n \in Nat /\ n < Len(arrivals')
         /\ arrivals'[Len(arrivals')] = m
         /\ \A c \in Channel : \A i \in DOMAIN outbox[c] : outbox[c][i].arrival \in Arrival
         /\ \A c \in Channel : \A i \in DOMAIN inbox[c] : inbox[c][i] \in Arrival
         /\ \A c \in Channel : ChunksOf(Len(arrivals'), c) = {}
         /\ events[Len(arrivals')] = << >>
<1>1. /\ arrivals \in Seq(Message) /\ outbox \in [Channel -> Seq(Chunk)]
      /\ inbox \in [Channel -> Seq(Arrival)] /\ MaxArrivals \in Nat
  BY GatewayAssumption DEF IInv, TypeOK
<1>2. /\ arrivals' \in Seq(Message) /\ Len(arrivals) \in Nat
      /\ Len(arrivals') = Len(arrivals) + 1
      /\ \A i \in 1..Len(arrivals) : arrivals'[i] = arrivals[i]
      /\ arrivals'[Len(arrivals) + 1] = m
  BY <1>1, AppendProperties
<1>3. /\ Arrival' = Arrival \cup {Len(arrivals')}
      /\ Len(arrivals') \in 1..MaxArrivals /\ Len(arrivals') <= MaxArrivals
  BY <1>1, <1>2 DEF Arrival
<1>4. \A n \in Arrival : arrivals'[n] = arrivals[n] /\ n \in Nat /\ n < Len(arrivals')
  BY <1>2 DEF Arrival
<1>5. ASSUME NEW c \in Channel
      PROVE  /\ \A i \in DOMAIN outbox[c] : outbox[c][i].arrival \in Arrival
             /\ \A i \in DOMAIN inbox[c] : inbox[c][i] \in Arrival
  <2>1. outbox[c] \in Seq(Chunk) /\ inbox[c] \in Seq(Arrival)
    BY <1>1
  <2>2. \A i \in DOMAIN outbox[c] : outbox[c][i] \in Chunk
    BY <2>1, ElementOfSeq, LenProperties
  <2>3. \A i \in DOMAIN inbox[c] : inbox[c][i] \in Arrival
    BY <2>1, ElementOfSeq, LenProperties
  <2>4. QED
    BY <2>2, <2>3 DEF Chunk
<1>6. \A c \in Channel : ChunksOf(Len(arrivals'), c) = {}
  BY <1>4, <1>5 DEF ChunksOf
<1>7. events[Len(arrivals')] = << >>
  BY <1>2, <1>3 DEF IInv, QueuedFresh
<1>8. QED
  BY <1>1, <1>2, <1>3, <1>4, <1>5, <1>6, <1>7


\* What has been sent stays as it is when a message arrives.
LEMMA ArrivalKeeps ==
  ASSUME IInv, NEW m \in Message, Len(arrivals) < MaxArrivals,
         arrivals' = Append(arrivals, m), UNCHANGED <<outbox, seen, events>>
  PROVE  /\ outbox' \in [Channel -> Seq(Chunk')]
         /\ inbox \in [Channel -> Seq(Arrival')]
         /\ ReplyInOrder' /\ RepliesInArrivalOrder'
         /\ Replied' = Replied
         /\ seen' \subseteq {arrivals'[n].key : n \in Arrival'}
<1> DEFINE new == Len(arrivals')
<1>1. /\ Arrival' = Arrival \cup {new}
      /\ \A n \in Arrival : arrivals'[n] = arrivals[n]
      /\ \A c \in Channel : \A i \in DOMAIN outbox[c] : outbox[c][i].arrival \in Arrival
      /\ \A c \in Channel : ChunksOf(new, c) = {}
  BY OneArrives
<1> HIDE DEF new
<1>2. /\ outbox \in [Channel -> Seq(Chunk)] /\ inbox \in [Channel -> Seq(Arrival)]
      /\ UNCHANGED <<outbox, seen>>
  BY DEF IInv, TypeOK
<1>3. Chunk \subseteq Chunk' /\ Arrival \subseteq Arrival'
  BY <1>1 DEF Chunk, Place
<1>4. outbox' \in [Channel -> Seq(Chunk')] /\ inbox \in [Channel -> Seq(Arrival')]
  <2>1. \A c \in Channel : outbox[c] \in Seq(Chunk') /\ inbox[c] \in Seq(Arrival')
    BY <1>2, <1>3, SeqMonotonic
  <2>2. QED
    BY <1>2, <2>1
<1>5. \A n : \A c \in Channel :
        ChunksOf(n, c)' = ChunksOf(n, c) /\ NumbersOf(n, c)' = NumbersOf(n, c)
  BY <1>2 DEF ChunksOf, NumbersOf
<1>6. ReplyInOrder'
  <2>1. ReplyInOrder
    BY DEF IInv
  <2>2. \A c \in Channel : NumbersOf(new, c) = 1..0
    BY <1>1, NumbersEmpty
  <2>3. 0 \in 0..MaxChunks
    BY GatewayAssumption
  <2>4. ASSUME NEW n \in Arrival', NEW c \in Channel
        PROVE  /\ \A i, j \in ChunksOf(n, c)' : i < j => outbox'[c][i].chunk < outbox'[c][j].chunk
               /\ \E k \in 0..MaxChunks : NumbersOf(n, c)' = 1..k
               /\ ChunksOf(n, c)' # {} => \A d \in Channel \ {c} : ChunksOf(n, d)' = {}
    <3>1. /\ \A i, j \in ChunksOf(n, c) : i < j => outbox[c][i].chunk < outbox[c][j].chunk
          /\ \E k \in 0..MaxChunks : NumbersOf(n, c) = 1..k
          /\ ChunksOf(n, c) # {} => \A d \in Channel \ {c} : ChunksOf(n, d) = {}
      <4>1. CASE n = new
        BY <1>1, <2>2, <2>3, <4>1
      <4>2. CASE n \in Arrival
        BY <2>1, <4>2 DEF ReplyInOrder
      <4>3. QED
        BY <1>1, <4>1, <4>2
    <3>2. \A d \in Channel : ChunksOf(n, d)' = ChunksOf(n, d)
      BY <1>5
    <3>3. NumbersOf(n, c)' = NumbersOf(n, c)
      BY <1>5
    <3>4. QED
      BY <1>2, <3>1, <3>2, <3>3
  <2>5. QED
    BY <2>4 DEF ReplyInOrder
<1>7. RepliesInArrivalOrder'
  <2>1. ASSUME NEW c \in Channel, NEW i \in DOMAIN outbox'[c], NEW j \in DOMAIN outbox'[c],
               i < j, arrivals'[outbox'[c][i].arrival].meta # None,
               arrivals'[outbox'[c][i].arrival].meta = arrivals'[outbox'[c][j].arrival].meta
        PROVE  outbox'[c][i].arrival <= outbox'[c][j].arrival
    <3>1. outbox' = outbox /\ i \in DOMAIN outbox[c] /\ j \in DOMAIN outbox[c]
      BY <1>2
    <3>2. /\ arrivals'[outbox[c][i].arrival] = arrivals[outbox[c][i].arrival]
          /\ arrivals'[outbox[c][j].arrival] = arrivals[outbox[c][j].arrival]
      BY <1>1, <3>1
    <3>3. RepliesInArrivalOrder
      BY DEF IInv
    <3>4. QED
      BY <2>1, <3>1, <3>2, <3>3 DEF RepliesInArrivalOrder
  <2>2. QED
    BY <2>1 DEF RepliesInArrivalOrder
<1>8. Replied' = Replied
  BY <1>1, <1>5 DEF Replied
<1>9. seen' \subseteq {arrivals'[n].key : n \in Arrival'}
  <2>1. seen \subseteq {arrivals[n].key : n \in Arrival}
    BY DEF IInv, KeysOnce
  <2>2. {arrivals[n].key : n \in Arrival} \subseteq {arrivals'[n].key : n \in Arrival'}
    BY <1>1
  <2>3. QED
    BY <1>2, <2>1, <2>2
<1>10. QED
  BY <1>4, <1>6, <1>7, <1>8, <1>9

\* A platform delivers a message.
LEMMA ArriveInv == ASSUME IInv, NEW m \in Inbound, Arrive(m) PROVE IInv'
<1> DEFINE new == Len(arrivals')
           c == m.channel
<1>0. /\ m \in Message /\ c \in Channel /\ m.meta = c
      /\ Len(arrivals) < MaxArrivals /\ arrivals' = Append(arrivals, m)
      /\ inbox' = [inbox EXCEPT ![c] = Append(@, new)]
      /\ UNCHANGED <<pc, cur, target, chunks, next, seen, prefs, inboundCount,
                     outboundCount, recent, snapshot, events, outbox>>
      /\ TypeOK
  BY GatewayAssumption DEF Arrive, Message, reply, stats, IInv
<1>1. /\ arrivals' \in Seq(Message) /\ Len(arrivals') <= MaxArrivals
      /\ Arrival' = Arrival \cup {new}
      /\ new \in 1..MaxArrivals
      /\ \A n \in Arrival : arrivals'[n] = arrivals[n] /\ n \in Nat /\ n < new
      /\ arrivals'[new] = m
      /\ \A d \in Channel : \A i \in DOMAIN outbox[d] : outbox[d][i].arrival \in Arrival
      /\ \A d \in Channel : \A i \in DOMAIN inbox[d] : inbox[d][i] \in Arrival
      /\ \A d \in Channel : ChunksOf(new, d) = {}
      /\ events[new] = << >>
  BY <1>0, OneArrives
<1>2. /\ outbox' \in [Channel -> Seq(Chunk')] /\ inbox \in [Channel -> Seq(Arrival')]
      /\ ReplyInOrder' /\ RepliesInArrivalOrder' /\ Replied' = Replied
      /\ seen' \subseteq {arrivals'[n].key : n \in Arrival'}
  BY <1>0, ArrivalKeeps
<1> HIDE DEF new, c
<1>3. new \in Arrival' /\ new # 0 /\ new \notin Arrival
  BY <1>1
<1>4. /\ inbox' \in [Channel -> Seq(Arrival')]
      /\ \A d \in Channel : d # c => inbox'[d] = inbox[d]
      /\ Len(inbox[c]) \in Nat
      /\ DOMAIN inbox'[c] = 1..(Len(inbox[c]) + 1) /\ DOMAIN inbox[c] = 1..Len(inbox[c])
      /\ \A i \in 1..Len(inbox[c]) : inbox'[c][i] = inbox[c][i]
      /\ inbox'[c][Len(inbox[c]) + 1] = new
  <2>1. inbox[c] \in Seq(Arrival') /\ inbox'[c] = Append(inbox[c], new)
    BY <1>0, <1>2
  <2>2. QED
    BY <1>0, <1>2, <1>3, <2>1, AppendProperties
<1>5. /\ DOMAIN inbox'[c] = DOMAIN inbox[c] \cup {Len(inbox[c]) + 1}
      /\ \A i \in DOMAIN inbox[c] : inbox'[c][i] = inbox[c][i] /\ i < Len(inbox[c]) + 1
      /\ \A i \in DOMAIN inbox'[c] : i \in Nat
  BY <1>4
<1>6. \A w \in Worker : cur[w] \in Arrival \cup {0}
  BY <1>0 DEF TypeOK
<1>7. TypeOK'
  <2>1. cur' \in [Worker -> Arrival' \cup {0}]
    BY <1>0, <1>1 DEF TypeOK
  <2>2. QED
    BY <1>0, <1>1, <1>2, <1>4, <2>1 DEF TypeOK
<1>8. Owned'
  <2>1. ASSUME NEW d \in Channel
        PROVE  /\ \A i, j \in DOMAIN inbox'[d] : i < j => inbox'[d][i] < inbox'[d][j]
               /\ \A i \in DOMAIN inbox'[d] : arrivals'[inbox'[d][i]].meta = d
               /\ cur[d] # 0 => \A i \in DOMAIN inbox'[d] : cur[d] < inbox'[d][i]
    <3>0. /\ \A i, j \in DOMAIN inbox[d] : i < j => inbox[d][i] < inbox[d][j]
          /\ \A i \in DOMAIN inbox[d] : arrivals[inbox[d][i]].meta = d
          /\ cur[d] # 0 => \A i \in DOMAIN inbox[d] : cur[d] < inbox[d][i]
          /\ \A i \in DOMAIN inbox[d] : inbox[d][i] \in Arrival
      BY <1>1 DEF IInv, Owned
    <3>1. CASE d # c
      <4>1. inbox'[d] = inbox[d]
        BY <1>4, <3>1
      <4>2. \A i \in DOMAIN inbox[d] : arrivals'[inbox[d][i]] = arrivals[inbox[d][i]]
        BY <1>1, <3>0
      <4>3. QED
        BY <3>0, <4>1, <4>2
    <3>2. CASE d = c
      <4>1. \A i \in DOMAIN inbox'[c] :
              \/ i \in DOMAIN inbox[c] /\ inbox'[c][i] = inbox[c][i]
              \/ i = Len(inbox[c]) + 1 /\ inbox'[c][i] = new
        BY <1>4, <1>5
      <4>2. \A i, j \in DOMAIN inbox'[c] : i < j => inbox'[c][i] < inbox'[c][j]
        <5>1. \A i \in DOMAIN inbox[c] : inbox[c][i] < new
          BY <1>1, <3>0, <3>2
        <5>2. ASSUME NEW i \in DOMAIN inbox'[c], NEW j \in DOMAIN inbox'[c], i < j
              PROVE  inbox'[c][i] < inbox'[c][j]
          <6>1. i \in DOMAIN inbox[c] /\ inbox'[c][i] = inbox[c][i]
            BY <1>4, <1>5, <4>1, <5>2
          <6>2. CASE j \in DOMAIN inbox[c] /\ inbox'[c][j] = inbox[c][j]
            BY <3>0, <3>2, <5>2, <6>1, <6>2
          <6>3. CASE inbox'[c][j] = new
            BY <5>1, <6>1, <6>3
          <6>4. QED
            BY <4>1, <6>2, <6>3
        <5>3. QED
          BY <5>2
      <4>3. \A i \in DOMAIN inbox'[c] : arrivals'[inbox'[c][i]].meta = c
        <5>1. ASSUME NEW i \in DOMAIN inbox'[c] PROVE arrivals'[inbox'[c][i]].meta = c
          <6>1. CASE inbox'[c][i] = new
            BY <1>0, <1>1, <6>1
          <6>2. CASE i \in DOMAIN inbox[c] /\ inbox'[c][i] = inbox[c][i]
            <7>1. arrivals'[inbox[c][i]] = arrivals[inbox[c][i]] /\ arrivals[inbox[c][i]].meta = c
              BY <1>1, <3>0, <3>2, <6>2
            <7>2. QED
              BY <6>2, <7>1
          <6>3. QED
            BY <4>1, <6>1, <6>2
        <5>2. QED
          BY <5>1
      <4>4. cur[c] # 0 => \A i \in DOMAIN inbox'[c] : cur[c] < inbox'[c][i]
        BY <1>0, <1>1, <1>6, <4>1 DEF IInv, Owned, Worker
      <4>5. QED
        BY <3>2, <4>2, <4>3, <4>4
    <3>3. QED
      BY <3>1, <3>2
  <2>2. \A w \in Worker : cur[w] # 0 => arrivals'[cur[w]] = arrivals[cur[w]]
    BY <1>1, <1>6
  <2>3. QED
    BY <1>0, <2>1, <2>2 DEF IInv, Owned, Worker
<1>9. QueuedFresh'
  <2>1. \A d \in Channel : \A i \in DOMAIN inbox'[d] :
          \/ inbox'[d][i] = new
          \/ i \in DOMAIN inbox[d] /\ inbox'[d][i] = inbox[d][i]
    BY <1>4, <1>5
  <2>2. \A n : \A d \in Channel : ChunksOf(n, d)' = ChunksOf(n, d)
    BY <1>0 DEF ChunksOf
  <2>3. \A n \in 1..MaxArrivals : n > Len(arrivals') => n > Len(arrivals)
    BY <1>0, OneArrives
  <2>4. /\ \A n \in 1..MaxArrivals : n > Len(arrivals) => events[n] = << >>
        /\ \A d \in Channel : \A i \in DOMAIN inbox[d] :
             /\ events[inbox[d][i]] = << >>
             /\ \A e \in Channel : ChunksOf(inbox[d][i], e) = {}
    BY DEF IInv, QueuedFresh
  <2>5. ASSUME NEW d \in Channel, NEW i \in DOMAIN inbox'[d]
        PROVE  /\ events'[inbox'[d][i]] = << >>
               /\ \A e \in Channel : ChunksOf(inbox'[d][i], e) = {}
    <3>1. CASE inbox'[d][i] = new
      BY <1>0, <1>1, <3>1
    <3>2. CASE i \in DOMAIN inbox[d] /\ inbox'[d][i] = inbox[d][i]
      BY <1>0, <2>4, <3>2
    <3>3. QED
      BY <2>1, <3>1, <3>2
  <2>6. \A n \in 1..MaxArrivals : n > Len(arrivals)' => events'[n] = << >>
    BY <1>0, <2>3, <2>4
  <2>7. \A d \in Channel : \A i \in DOMAIN inbox'[d] :
          /\ events'[inbox'[d][i]] = << >>
          /\ \A e \in Channel : {k \in DOMAIN outbox'[e] : outbox'[e][k].arrival = inbox'[d][i]} = {}
    BY <1>0, <2>5 DEF ChunksOf
  <2>8. QED
    BY <2>6, <2>7 DEF QueuedFresh, ChunksOf
<1>10. EventsSoFar'
  BY <1>0 DEF IInv, EventsSoFar, EventsBy
<1>11. ChunksSoFar'
  BY <1>0 DEF IInv, ChunksSoFar, ChunksBy, NumbersOf, ChunksOf, Sending, SentBy
<1>12. KeysOnce'
  <2>1. \A n : Passed(n)' = Passed(n)
    BY <1>0 DEF Passed
  <2>2. ~Passed(new)
    BY <1>1, <1>3, <1>6 DEF Passed
  <2>3. /\ \A n, k \in Arrival :
             Passed(n) /\ Passed(k) /\ n # k => arrivals[n].key # arrivals[k].key
        /\ \A n \in Arrival : Passed(n) => arrivals[n].key \in seen
    BY DEF IInv, KeysOnce
  <2>4. \A n \in Arrival' : Passed(n)' => n \in Arrival /\ Passed(n) /\ arrivals'[n] = arrivals[n]
    BY <1>1, <2>1, <2>2
  <2>5. QED
    BY <1>0, <1>2, <2>3, <2>4 DEF KeysOnce
<1>13. SentInOrder'
  <2>1. \A d \in Channel : \A i \in DOMAIN inbox'[d] :
          \/ inbox'[d][i] = new
          \/ i \in DOMAIN inbox[d] /\ inbox'[d][i] = inbox[d][i]
    BY <1>4, <1>5
  <2>2. SentInOrder
    BY DEF IInv
  <2>3. ASSUME NEW b \in Channel, NEW d \in Channel, NEW i \in DOMAIN outbox[b],
               arrivals'[outbox[b][i].arrival].meta = d
        PROVE  /\ cur[d] # 0 => outbox[b][i].arrival <= cur[d]
               /\ \A k \in DOMAIN inbox'[d] : outbox[b][i].arrival < inbox'[d][k]
    <3>1. /\ arrivals[outbox[b][i].arrival].meta = d
          /\ outbox[b][i].arrival < new
      BY <1>1, <2>3
    <3>2. /\ cur[d] # 0 => outbox[b][i].arrival <= cur[d]
          /\ \A k \in DOMAIN inbox[d] : outbox[b][i].arrival < inbox[d][k]
      BY <2>2, <3>1 DEF SentInOrder
    <3>3. QED
      BY <2>1, <3>1, <3>2
  <2>4. QED
    BY <1>0, <2>3 DEF SentInOrder
<1>14. StatsAgree' /\ ListedCounted' /\ SnapshotCounts'
  BY <1>0, <1>2 DEF IInv, StatsAgree, ListedCounted, SnapshotCounts, At, Listed, Replied
<1>15. QED
  BY <1>2, <1>7, <1>8, <1>9, <1>10, <1>11, <1>12, <1>13, <1>14 DEF IInv
\* What the statistics say stays true while they, the keys and the replies stay.
LEMMA StatsKept ==
  ASSUME IInv, UNCHANGED <<inboundCount, outboundCount, recent, snapshot, seen>>,
         Replied' = Replied,
         \A l \in {"start", "list", "sent", "listsent"} : At(l)' = At(l)
  PROVE  StatsAgree' /\ ListedCounted' /\ SnapshotCounts'
<1>1. /\ inboundCount + Cardinality(At("start")) = Cardinality(seen)
      /\ outboundCount + Cardinality(At("sent")) = Cardinality(Replied)
      /\ ListedCounted /\ SnapshotCounts
  BY StatsByLabel DEF IInv
<1>2. StatsAgree'
  <2>1. /\ inboundCount' + Cardinality(At("start")') = Cardinality(seen')
        /\ outboundCount' + Cardinality(At("sent")') = Cardinality(Replied')
    BY <1>1
  <2>2. StatsAgree' <=> /\ inboundCount' + Cardinality(At("start")') = Cardinality(seen')
                        /\ outboundCount' + Cardinality(At("sent")') = Cardinality(Replied')
    BY StatsByLabelNext
  <2>3. QED
    BY <2>1, <2>2
<1>3. ListedCounted'
  BY <1>1 DEF ListedCounted, Listed
<1>4. SnapshotCounts'
  BY <1>1 DEF SnapshotCounts, Listed
<1>5. QED
  BY <1>2, <1>3, <1>4

\* While nothing arrives and nothing is sent, the replies are as they were.
LEMMA SentKept ==
  ASSUME IInv, UNCHANGED <<arrivals, outbox>>
  PROVE  ReplyInOrder' /\ RepliesInArrivalOrder' /\ Replied' = Replied
<1>1. ReplyInOrder'
  BY DEF IInv, ReplyInOrder, ChunksOf, NumbersOf, Arrival
<1>2. RepliesInArrivalOrder'
  BY DEF IInv, RepliesInArrivalOrder
<1>3. Replied' = Replied
  BY DEF Replied, ChunksOf, Arrival
<1>4. QED
  BY <1>1, <1>2, <1>3

\* The receive loop of c takes the oldest message of its queue.
LEMMA ReceiveInv == ASSUME IInv, NEW c \in Channel, Receive(c) PROVE IInv'
<1>n. PICK n : n = Head(inbox[c])
  OBVIOUS
<1>0. /\ pc[c] = "idle" /\ inbox[c] # << >> /\ c \in Worker
      /\ cur' = [cur EXCEPT ![c] = n] /\ inbox' = [inbox EXCEPT ![c] = Tail(@)]
      /\ pc' = [pc EXCEPT ![c] = "dedup"]
      /\ UNCHANGED <<arrivals, target, chunks, next, seen, prefs, inboundCount,
                     outboundCount, recent, snapshot, events, outbox>>
      /\ TypeOK /\ Owned /\ QueuedFresh
  BY <1>n DEF Receive, Goto, reply, stats, IInv, Worker
<1>1. /\ Len(inbox[c]) \in Nat /\ Len(inbox[c]) > 0 /\ DOMAIN inbox[c] = 1..Len(inbox[c])
      /\ 1 \in DOMAIN inbox[c] /\ n = inbox[c][1] /\ n \in Arrival
      /\ Tail(inbox[c]) \in Seq(Arrival)
      /\ DOMAIN Tail(inbox[c]) = 1..(Len(inbox[c]) - 1)
      /\ \A i \in 1..(Len(inbox[c]) - 1) :
           Tail(inbox[c])[i] = inbox[c][i + 1] /\ i + 1 \in DOMAIN inbox[c]
  <2>1. inbox[c] \in Seq(Arrival) /\ inbox[c] # << >>
    BY <1>0 DEF TypeOK
  <2>2. /\ Len(inbox[c]) \in Nat /\ Len(inbox[c]) > 0 /\ DOMAIN inbox[c] = 1..Len(inbox[c])
    BY <2>1, EmptySeq, LenProperties
  <2>3. /\ n \in Arrival /\ Tail(inbox[c]) \in Seq(Arrival)
        /\ Len(Tail(inbox[c])) = Len(inbox[c]) - 1
        /\ \A i \in 1..Len(Tail(inbox[c])) : Tail(inbox[c])[i] = inbox[c][i + 1]
    BY <1>n, <2>1, HeadTailProperties
  <2>4. n = inbox[c][1]
    BY <1>n, <2>1
  <2>5. DOMAIN Tail(inbox[c]) = 1..Len(Tail(inbox[c]))
    BY <2>3, LenProperties
  <2>6. QED
    BY <2>2, <2>3, <2>4, <2>5
<1>2. Len(arrivals) \in Nat /\ n \in Nat /\ n > 0 /\ Arrival \subseteq Nat
  BY <1>0, <1>1 DEF TypeOK, Arrival
<1>3. /\ \A i, j \in DOMAIN inbox[c] : i < j => inbox[c][i] < inbox[c][j]
      /\ \A d \in Channel : \A i \in DOMAIN inbox[d] :
           /\ arrivals[inbox[d][i]].meta = d
           /\ events[inbox[d][i]] = << >>
           /\ \A e \in Channel : ChunksOf(inbox[d][i], e) = {}
  BY <1>0 DEF Owned, QueuedFresh
<1>4. arrivals[n].meta = c /\ events[n] = << >> /\ \A e \in Channel : ChunksOf(n, e) = {}
  <2>1. /\ arrivals[inbox[c][1]].meta = c /\ events[inbox[c][1]] = << >>
        /\ \A e \in Channel : ChunksOf(inbox[c][1], e) = {}
    <3>1. 1 \in DOMAIN inbox[c]
      BY <1>1
    <3>2. QED
      BY <1>3, <3>1
  <2>2. n = inbox[c][1]
    BY <1>1
  <2>3. QED
    BY <2>1, <2>2
<1>5. \A i \in DOMAIN inbox'[c] : /\ i \in Nat /\ i + 1 \in DOMAIN inbox[c]
                                  /\ inbox'[c][i] = inbox[c][i + 1]
                                  /\ n < inbox'[c][i]
  <2>1. inbox'[c] = Tail(inbox[c])
    BY <1>0 DEF TypeOK
  <2>2. ASSUME NEW i \in DOMAIN inbox'[c]
        PROVE  /\ i \in Nat /\ i + 1 \in DOMAIN inbox[c] /\ inbox'[c][i] = inbox[c][i + 1]
               /\ n < inbox'[c][i]
    <3>1. i \in Nat /\ 1 < i + 1 /\ i + 1 \in DOMAIN inbox[c] /\ inbox'[c][i] = inbox[c][i + 1]
      BY <1>1, <2>1, <2>2
    <3>2. inbox[c][1] < inbox[c][i + 1]
      BY <1>1, <1>3, <3>1
    <3>3. QED
      BY <1>1, <3>1, <3>2
  <2>3. QED
    BY <2>2
<1>6. \A d \in Channel : d # c => inbox'[d] = inbox[d]
  BY <1>0 DEF TypeOK
<1>7. \A d \in Channel : \A i \in DOMAIN inbox'[d] :
        \E k \in DOMAIN inbox[d] : inbox'[d][i] = inbox[d][k]
  BY <1>5, <1>6
<1>8. cur[c] = 0 /\ cur'[c] = n /\ \A v \in Worker : v # c => cur'[v] = cur[v] /\ pc'[v] = pc[v]
  BY <1>0 DEF TypeOK
<1>9. pc'[c] = "dedup"
  BY <1>0 DEF TypeOK
<1>10. TypeOK'
  <2>1. inbox' \in [Channel -> Seq(Arrival)]
    BY <1>0, <1>1 DEF TypeOK
  <2>2. cur' \in [Worker -> Arrival \cup {0}]
    BY <1>0, <1>1 DEF TypeOK
  <2>3. pc' \in [Worker -> Label]
    BY <1>0 DEF TypeOK, Label
  <2>4. \A w \in Worker : pc'[w] \in {"idle", "gone"} <=> cur'[w] = 0
    BY <1>0, <1>2, <1>8, <1>9 DEF TypeOK
  <2>5. Arrival' = Arrival /\ Chunk' = Chunk
    BY <1>0 DEF Arrival, Chunk, Place
  <2>6. QED
    BY <1>0, <2>1, <2>2, <2>3, <2>4, <2>5 DEF TypeOK
<1>11. Owned'
  <2>1. ASSUME NEW d \in Channel
        PROVE  /\ \A i, j \in DOMAIN inbox'[d] : i < j => inbox'[d][i] < inbox'[d][j]
               /\ \A i \in DOMAIN inbox'[d] : arrivals[inbox'[d][i]].meta = d
               /\ cur'[d] # 0 => /\ arrivals[cur'[d]].meta = d
                                 /\ \A i \in DOMAIN inbox'[d] : cur'[d] < inbox'[d][i]
    <3>1. CASE d = c
      <4>1. ASSUME NEW i \in DOMAIN inbox'[c], NEW j \in DOMAIN inbox'[c], i < j
            PROVE  inbox'[c][i] < inbox'[c][j]
        <5>1. i + 1 < j + 1
          BY <1>5, <4>1
        <5>2. QED
          BY <1>3, <1>5, <5>1
      <4>2. QED
        BY <1>3, <1>4, <1>5, <1>8, <3>1, <4>1
    <3>2. CASE d # c
      BY <1>0, <1>6, <1>8, <3>2 DEF Owned, Worker
    <3>3. QED
      BY <3>1, <3>2
  <2>2. \A j \in Job : cur'[j] # 0 => arrivals[cur'[j]].meta = None
    BY <1>0, <1>8, GatewayAssumption DEF Owned, Worker
  <2>3. \A w \in Worker : w # c => cur[w] # n
    <3>1. ASSUME NEW w \in Channel, w # c, cur[w] = n PROVE FALSE
      BY <1>0, <1>2, <1>4, <3>1 DEF Owned
    <3>2. ASSUME NEW w \in Job, cur[w] = n PROVE FALSE
      BY <1>0, <1>2, <1>4, <3>2, GatewayAssumption DEF Owned
    <3>3. QED
      BY <3>1, <3>2 DEF Worker
  <2>4. \A v, w \in Worker : cur'[v] # 0 /\ cur'[v] = cur'[w] => v = w
    BY <1>0, <1>8, <2>3 DEF Owned
  <2>5. QED
    BY <1>0, <2>1, <2>2, <2>4 DEF Owned
<1>12. \A k : \A d \in Channel :
         ChunksOf(k, d)' = ChunksOf(k, d) /\ NumbersOf(k, d)' = NumbersOf(k, d)
  BY <1>0 DEF ChunksOf, NumbersOf
<1>13. QueuedFresh'
  <2>1. ASSUME NEW d \in Channel, NEW i \in DOMAIN inbox'[d]
        PROVE  /\ events[inbox'[d][i]] = << >>
               /\ \A e \in Channel : ChunksOf(inbox'[d][i], e) = {}
    <3>1. PICK k \in DOMAIN inbox[d] : inbox'[d][i] = inbox[d][k]
      BY <1>7
    <3>2. /\ events[inbox[d][k]] = << >>
          /\ \A e \in Channel : ChunksOf(inbox[d][k], e) = {}
      BY <1>3
    <3>3. QED
      BY <3>1, <3>2
  <2>2. \A d \in Channel : \A i \in DOMAIN inbox'[d] :
          /\ events'[inbox'[d][i]] = << >>
          /\ \A e \in Channel : {k \in DOMAIN outbox'[e] : outbox'[e][k].arrival = inbox'[d][i]} = {}
    BY <1>0, <2>1 DEF ChunksOf
  <2>3. \A k \in 1..MaxArrivals : k > Len(arrivals)' => events'[k] = << >>
    BY <1>0 DEF QueuedFresh
  <2>4. QED
    BY <2>2, <2>3 DEF QueuedFresh, ChunksOf
<1>14. EventsSoFar'
  <2>1. EventsBy(c)'
    BY <1>0, <1>4, <1>8, <1>9 DEF EventsBy
  <2>2. \A w \in Worker : w # c => EventsBy(w)'
    BY <1>0, <1>8 DEF IInv, EventsSoFar, EventsBy
  <2>3. QED
    BY <1>0, <2>1, <2>2 DEF IInv, EventsSoFar
<1>15. ChunksSoFar'
  <2>1. ChunksBy(c)'
    <3>2. ~Sending(c)' /\ SentBy(c)' = 0 /\ 1..0 = {}
      BY <1>9 DEF Sending, SentBy
    <3>3. ASSUME NEW e \in Channel PROVE NumbersOf(cur[c], e)' = {}
      <4>1. {k \in DOMAIN outbox'[e] : outbox'[e][k].arrival = cur'[c]} = {}
        BY <1>0, <1>4, <1>8 DEF ChunksOf
      <4>2. QED
        BY <4>1 DEF NumbersOf, ChunksOf
    <3>4. QED
      BY <1>9, <3>2, <3>3 DEF ChunksBy, Sending
  <2>2. ASSUME NEW w \in Worker, w # c PROVE ChunksBy(w)'
    BY <1>0, <1>8, <2>2 DEF IInv, ChunksSoFar, ChunksBy, NumbersOf, ChunksOf, Sending, SentBy
  <2>3. QED
    BY <2>1, <2>2 DEF ChunksSoFar
<1>16. KeysOnce'
  <2>1. \A k : Passed(k)' = Passed(k)
    BY <1>0, <1>8, <1>9 DEF Passed
  <2>2. Arrival' = Arrival
    BY <1>0 DEF Arrival
  <2>3. QED
    BY <1>0, <2>1, <2>2 DEF IInv, KeysOnce
<1>17. SentInOrder'
  <2>1. ASSUME NEW b \in Channel, NEW d \in Channel, NEW i \in DOMAIN outbox[b],
               arrivals[outbox[b][i].arrival].meta = d
        PROVE  /\ cur'[d] # 0 => outbox[b][i].arrival <= cur'[d]
               /\ \A k \in DOMAIN inbox'[d] : outbox[b][i].arrival < inbox'[d][k]
    <3>1. /\ cur[d] # 0 => outbox[b][i].arrival <= cur[d]
          /\ \A k \in DOMAIN inbox[d] : outbox[b][i].arrival < inbox[d][k]
      BY <2>1 DEF IInv, SentInOrder
    <3>2. outbox[b][i].arrival \in Arrival
      <4>1. outbox[b] \in Seq(Chunk)
        BY <1>0 DEF TypeOK
      <4>2. outbox[b][i] \in Chunk
        BY <2>1, <4>1, ElementOfSeq, LenProperties
      <4>3. QED
        BY <4>2 DEF Chunk
    <3>3. CASE d = c
      <4>1. outbox[b][i].arrival < n
        BY <1>1, <3>1, <3>3
      <4>2. outbox[b][i].arrival <= cur'[d]
        <5>1. outbox[b][i].arrival \in Nat /\ n \in Nat
          BY <1>2, <3>2
        <5>2. cur'[d] = n
          BY <1>8, <3>3
        <5>3. QED
          BY <4>1, <5>1, <5>2
      <4>3. QED
        BY <1>7, <3>1, <4>2
    <3>4. CASE d # c
      BY <1>6, <1>8, <3>1, <3>4 DEF Worker
    <3>5. QED
      BY <3>3, <3>4
  <2>2. QED
    BY <1>0, <2>1 DEF SentInOrder
<1>18. ReplyInOrder' /\ RepliesInArrivalOrder' /\ Replied' = Replied
  BY <1>0, SentKept
<1>19. StatsAgree' /\ ListedCounted' /\ SnapshotCounts'
  <2>1. pc \in [Worker -> Label] /\ "idle" \in Label /\ "dedup" \in Label \ {"idle"}
    BY <1>0 DEF TypeOK, Label
  <2>2. \A l : l # "dedup" /\ l # "idle" => At(l)' = At(l)
    BY <1>0, <2>1, OneMoves
  <2>3. \A l \in {"start", "list", "sent", "listsent"} : At(l)' = At(l)
    BY <2>2
  <2>4. QED
    BY <1>0, <1>18, <2>3, StatsKept
<1>20. QED
  BY <1>10, <1>11, <1>13, <1>14, <1>15, <1>16, <1>17, <1>18, <1>19 DEF IInv
\* The ticker of cron job j fires: its message arrives, and is handled at once.
LEMMA FireInv == ASSUME IInv, NEW j \in Job, Fire(j) PROVE IInv'
<1>m. PICK m : m = JobMessage[j]
  OBVIOUS
<1>n. PICK new : new = Len(arrivals')
  OBVIOUS
<1>0. /\ m \in Message /\ m.meta = None /\ j \in Worker /\ pc[j] = "idle"
      /\ Len(arrivals) < MaxArrivals /\ arrivals' = Append(arrivals, m)
      /\ cur' = [cur EXCEPT ![j] = new] /\ pc' = [pc EXCEPT ![j] = "dedup"]
      /\ UNCHANGED <<inbox, target, chunks, next, seen, prefs, inboundCount,
                     outboundCount, recent, snapshot, events, outbox>>
      /\ TypeOK /\ Owned
  BY <1>m, <1>n, GatewayAssumption DEF Fire, Goto, Message, Worker, reply, stats, IInv
<1>1. /\ arrivals' \in Seq(Message) /\ Len(arrivals') <= MaxArrivals
      /\ Arrival' = Arrival \cup {new}
      /\ new \in 1..MaxArrivals
      /\ \A n \in Arrival : arrivals'[n] = arrivals[n] /\ n \in Nat /\ n < new
      /\ arrivals'[new] = m
      /\ \A d \in Channel : \A i \in DOMAIN outbox[d] : outbox[d][i].arrival \in Arrival
      /\ \A d \in Channel : \A i \in DOMAIN inbox[d] : inbox[d][i] \in Arrival
      /\ \A d \in Channel : ChunksOf(new, d) = {}
      /\ events[new] = << >>
  BY <1>0, <1>n, OneArrives
<1>2. /\ outbox' \in [Channel -> Seq(Chunk')] /\ inbox \in [Channel -> Seq(Arrival')]
      /\ ReplyInOrder' /\ RepliesInArrivalOrder' /\ Replied' = Replied
      /\ seen' \subseteq {arrivals'[n].key : n \in Arrival'}
  BY <1>0, ArrivalKeeps
<1>3. new \in Arrival' /\ new # 0 /\ new \notin Arrival
  BY <1>1
<1>4. \A w \in Worker : cur[w] \in Arrival \cup {0}
  BY <1>0 DEF TypeOK
<1>5. /\ cur[j] = 0 /\ cur'[j] = new /\ pc'[j] = "dedup"
      /\ \A v \in Worker : v # j => cur'[v] = cur[v] /\ pc'[v] = pc[v]
      /\ \A c \in Channel : c \in Worker /\ c # j
  BY <1>0, GatewayAssumption DEF TypeOK, Worker
<1>6. \A w \in Worker : cur[w] # new
  BY <1>3, <1>4
<1>7. TypeOK'
  <2>1. cur' \in [Worker -> Arrival' \cup {0}]
    BY <1>0, <1>1, <1>3 DEF TypeOK
  <2>2. pc' \in [Worker -> Label]
    BY <1>0 DEF TypeOK, Label
  <2>3. \A w \in Worker : pc'[w] \in {"idle", "gone"} <=> cur'[w] = 0
    BY <1>0, <1>3, <1>5 DEF TypeOK
  <2>4. QED
    BY <1>0, <1>1, <1>2, <2>1, <2>2, <2>3 DEF TypeOK
<1>8. \A w \in Worker : cur[w] # 0 => arrivals'[cur[w]] = arrivals[cur[w]]
  BY <1>1, <1>4
<1>9. Owned'
  <2>1. ASSUME NEW d \in Channel
        PROVE  /\ \A i, k \in DOMAIN inbox[d] : i < k => inbox[d][i] < inbox[d][k]
               /\ \A i \in DOMAIN inbox[d] : arrivals'[inbox[d][i]].meta = d
               /\ cur'[d] # 0 => /\ arrivals'[cur'[d]].meta = d
                                 /\ \A i \in DOMAIN inbox[d] : cur'[d] < inbox[d][i]
    <3>1. \A i \in DOMAIN inbox[d] : arrivals'[inbox[d][i]] = arrivals[inbox[d][i]]
      BY <1>1
    <3>2. cur'[d] = cur[d] /\ (cur[d] # 0 => arrivals'[cur[d]] = arrivals[cur[d]])
      BY <1>5, <1>8
    <3>3. /\ \A i, k \in DOMAIN inbox[d] : i < k => inbox[d][i] < inbox[d][k]
          /\ \A i \in DOMAIN inbox[d] : arrivals[inbox[d][i]].meta = d
          /\ cur[d] # 0 => /\ arrivals[cur[d]].meta = d
                           /\ \A i \in DOMAIN inbox[d] : cur[d] < inbox[d][i]
      BY <1>0 DEF Owned
    <3>4. \A i \in DOMAIN inbox[d] : arrivals'[inbox[d][i]].meta = d
      BY <3>1, <3>3
    <3>5. QED
      BY <3>2, <3>3, <3>4
  <2>2. ASSUME NEW k \in Job, cur'[k] # 0 PROVE arrivals'[cur'[k]].meta = None
    <3>1. CASE k = j
      BY <1>0, <1>1, <1>5, <3>1
    <3>2. CASE k # j
      <4>1. k \in Worker /\ cur'[k] = cur[k] /\ cur[k] # 0
        BY <1>5, <2>2, <3>2 DEF Worker
      <4>2. arrivals'[cur[k]] = arrivals[cur[k]] /\ arrivals[cur[k]].meta = None
        BY <1>0, <1>8, <4>1 DEF Owned
      <4>3. QED
        BY <4>1, <4>2
    <3>3. QED
      BY <3>1, <3>2
  <2>3. \A v, w \in Worker : cur'[v] # 0 /\ cur'[v] = cur'[w] => v = w
    BY <1>0, <1>5, <1>6 DEF Owned
  <2>4. QED
    BY <1>0, <2>1, <2>2, <2>3 DEF Owned
<1>10. QueuedFresh'
  <2>1. QueuedFresh
    BY DEF IInv
  <2>2. \A n \in 1..MaxArrivals : n > Len(arrivals') => n > Len(arrivals)
    BY <1>0, OneArrives
  <2>3. QED
    BY <1>0, <2>1, <2>2 DEF QueuedFresh, ChunksOf
<1>11. EventsSoFar'
  <2>1. EventsBy(j)'
    BY <1>0, <1>1, <1>5 DEF EventsBy
  <2>2. \A w \in Worker : w # j => EventsBy(w)'
    BY <1>0, <1>5 DEF IInv, EventsSoFar, EventsBy
  <2>3. QED
    BY <1>0, <2>1, <2>2 DEF IInv, EventsSoFar
<1>12. ChunksSoFar'
  <2>1. ChunksBy(j)'
    <3>1. ~Sending(j)' /\ SentBy(j)' = 0 /\ 1..0 = {}
      BY <1>5 DEF Sending, SentBy
    <3>2. ASSUME NEW e \in Channel PROVE NumbersOf(cur[j], e)' = {}
      <4>1. {k \in DOMAIN outbox'[e] : outbox'[e][k].arrival = cur'[j]} = {}
        BY <1>0, <1>1, <1>5 DEF ChunksOf
      <4>2. QED
        BY <4>1 DEF NumbersOf, ChunksOf
    <3>3. QED
      BY <1>5, <3>1, <3>2 DEF ChunksBy, Sending
  <2>2. ASSUME NEW w \in Worker, w # j PROVE ChunksBy(w)'
    BY <1>0, <1>5, <2>2 DEF IInv, ChunksSoFar, ChunksBy, NumbersOf, ChunksOf, Sending, SentBy
  <2>3. QED
    BY <2>1, <2>2 DEF ChunksSoFar
<1>13. KeysOnce'
  <2>1. \A k : Passed(k)' = Passed(k)
    BY <1>0, <1>5 DEF Passed
  <2>2. ~Passed(new)
    BY <1>1, <1>6 DEF Passed
  <2>3. /\ \A n, k \in Arrival :
             Passed(n) /\ Passed(k) /\ n # k => arrivals[n].key # arrivals[k].key
        /\ \A n \in Arrival : Passed(n) => arrivals[n].key \in seen
    BY DEF IInv, KeysOnce
  <2>4. \A n \in Arrival' : Passed(n)' => n \in Arrival /\ Passed(n) /\ arrivals'[n] = arrivals[n]
    BY <1>1, <2>1, <2>2
  <2>5. QED
    BY <1>0, <1>2, <2>3, <2>4 DEF KeysOnce
<1>14. SentInOrder'
  <2>1. ASSUME NEW b \in Channel, NEW d \in Channel, NEW i \in DOMAIN outbox[b],
               arrivals'[outbox[b][i].arrival].meta = d
        PROVE  /\ cur'[d] # 0 => outbox[b][i].arrival <= cur'[d]
               /\ \A k \in DOMAIN inbox[d] : outbox[b][i].arrival < inbox[d][k]
    <3>1. arrivals[outbox[b][i].arrival].meta = d /\ cur'[d] = cur[d]
      BY <1>1, <1>5, <2>1
    <3>2. QED
      BY <3>1 DEF IInv, SentInOrder
  <2>2. QED
    BY <1>0, <2>1 DEF SentInOrder
<1>15. StatsAgree' /\ ListedCounted' /\ SnapshotCounts'
  <2>1. pc \in [Worker -> Label] /\ "idle" \in Label /\ "dedup" \in Label \ {"idle"}
    BY <1>0 DEF TypeOK, Label
  <2>2. \A l : l # "dedup" /\ l # "idle" => At(l)' = At(l)
    BY <1>0, <2>1, OneMoves
  <2>3. \A l \in {"start", "list", "sent", "listsent"} : At(l)' = At(l)
    BY <2>2
  <2>4. QED
    BY <1>0, <1>2, <2>3, StatsKept
<1>16. QED
  BY <1>2, <1>7, <1>9, <1>10, <1>11, <1>12, <1>13, <1>14, <1>15 DEF IInv

\* A loop that ends, the preferences API, a dashboard request and the end of the
\* context leave the messages alone.
LEMMA SideInv ==
  ASSUME IInv,
         \/ \E w \in Worker : LoopEnds(w)
         \/ \E u \in User, c \in Preference \cup {None} : SetPreference(u, c)
         \/ CopyRecent \/ LoadCounters \/ Cancel
  PROVE  IInv'
<1>1. CASE \E w \in Worker : LoopEnds(w)
  <2>1. PICK w \in Worker : LoopEnds(w)
    BY <1>1
  <2>2. /\ pc[w] = "idle" /\ pc' = [pc EXCEPT ![w] = "gone"]
        /\ UNCHANGED <<arrivals, inbox, cur, target, chunks, next, seen, prefs,
                       inboundCount, outboundCount, recent, snapshot, cancelled, events, outbox>>
        /\ TypeOK
    BY <2>1 DEF LoopEnds, Goto, reply, stats, IInv
  <2>3. cur[w] = 0 /\ pc'[w] = "gone" /\ \A v \in Worker : v # w => pc'[v] = pc[v]
    BY <2>2 DEF TypeOK
  <2>4. TypeOK'
    <3>1. pc' \in [Worker -> Label]
      BY <2>2 DEF TypeOK, Label
    <3>2. \A v \in Worker : pc'[v] \in {"idle", "gone"} <=> cur'[v] = 0
      BY <2>2, <2>3 DEF TypeOK
    <3>3. Arrival' = Arrival /\ Chunk' = Chunk
      BY <2>2 DEF Arrival, Chunk, Place
    <3>4. QED
      BY <2>2, <3>1, <3>2, <3>3 DEF TypeOK
  <2>5. Owned' /\ QueuedFresh' /\ SentInOrder'
    BY <2>2 DEF IInv, Owned, QueuedFresh, SentInOrder, ChunksOf
  <2>6. EventsSoFar'
    <3>1. \A v \in Worker : EventsBy(v)'
      BY <2>2, <2>3 DEF IInv, EventsSoFar, EventsBy
    <3>2. QED
      BY <2>2, <3>1 DEF IInv, EventsSoFar
  <2>7. ASSUME NEW v \in Worker PROVE ChunksBy(v)'
    <3>1. CASE v = w
      BY <2>2, <2>3, <3>1 DEF ChunksBy, Sending
    <3>2. CASE v # w
      BY <2>2, <2>3, <3>2 DEF IInv, ChunksSoFar, ChunksBy, NumbersOf, ChunksOf, Sending, SentBy
    <3>3. QED
      BY <3>1, <3>2
  <2>8. KeysOnce'
    <3>1. \A k : Passed(k)' = Passed(k)
      BY <2>2, <2>3 DEF Passed
    <3>2. Arrival' = Arrival
      BY <2>2 DEF Arrival
    <3>3. QED
      BY <2>2, <3>1, <3>2 DEF IInv, KeysOnce
  <2>9. ReplyInOrder' /\ RepliesInArrivalOrder' /\ Replied' = Replied
    BY <2>2, SentKept
  <2>10. StatsAgree' /\ ListedCounted' /\ SnapshotCounts'
    <3>1. pc \in [Worker -> Label] /\ "idle" \in Label /\ "gone" \in Label \ {"idle"}
      BY <2>2 DEF TypeOK, Label
    <3>2. \A l : l # "gone" /\ l # "idle" => At(l)' = At(l)
      BY <2>2, <3>1, OneMoves
    <3>3. \A l \in {"start", "list", "sent", "listsent"} : At(l)' = At(l)
      BY <3>2
    <3>4. QED
      BY <2>2, <2>9, <3>3, StatsKept
  <2>11. QED
    BY <2>4, <2>5, <2>6, <2>7, <2>8, <2>9, <2>10 DEF IInv, ChunksSoFar
<1>2. ASSUME \/ \E u \in User, c \in Preference \cup {None} : SetPreference(u, c)
             \/ CopyRecent \/ LoadCounters \/ Cancel
      PROVE  IInv'
  <2>1. UNCHANGED <<arrivals, inbox, pc, cur, target, chunks, next, seen,
                    inboundCount, outboundCount, recent, events, outbox>>
    BY <1>2 DEF SetPreference, CopyRecent, LoadCounters, Cancel, reply, stats
  <2>2. /\ prefs' \in [User -> Preference \cup {None}]
        /\ snapshot' \in Seq(Direction) \cup {None}
        /\ snapshot' # None => snapshot' = snapshot \/ snapshot' = recent
    BY <1>2 DEF SetPreference, CopyRecent, LoadCounters, Cancel, stats, IInv, TypeOK
  <2>3. TypeOK'
    <3>1. Arrival' = Arrival /\ Chunk' = Chunk
      BY <2>1 DEF Arrival, Chunk, Place
    <3>2. QED
      BY <2>1, <2>2, <3>1 DEF IInv, TypeOK
  <2>4. Owned' /\ QueuedFresh' /\ SentInOrder'
    BY <2>1 DEF IInv, Owned, QueuedFresh, SentInOrder, ChunksOf
  <2>5. EventsSoFar'
    BY <2>1 DEF IInv, EventsSoFar, EventsBy
  <2>6. ChunksSoFar'
    BY <2>1 DEF IInv, ChunksSoFar, ChunksBy, NumbersOf, ChunksOf, Sending, SentBy
  <2>7. KeysOnce'
    <3>1. \A k : Passed(k)' = Passed(k)
      BY <2>1 DEF Passed
    <3>2. Arrival' = Arrival
      BY <2>1 DEF Arrival
    <3>3. QED
      BY <2>1, <3>1, <3>2 DEF IInv, KeysOnce
  <2>8. ReplyInOrder' /\ RepliesInArrivalOrder'
    BY <2>1, SentKept
  <2>9. StatsAgree' /\ ListedCounted'
    BY <2>1 DEF IInv, StatsAgree, ListedCounted, At, Listed, Arrival, ChunksOf
  <2>10. SnapshotCounts'
    <3>1. /\ Cardinality(Listed("in", recent)) <= inboundCount
          /\ Cardinality(Listed("out", recent)) <= outboundCount
      <4>1. /\ recent \in Seq(Direction) /\ inboundCount \in Nat /\ outboundCount \in Nat
            /\ MaxArrivals \in Nat
        BY GatewayAssumption DEF IInv, TypeOK
      <4>2. /\ Cardinality(Listed("in", recent)) \in Nat
            /\ Cardinality(Listed("out", recent)) \in Nat
            /\ Cardinality(At("list")) \in Nat /\ Cardinality(At("listsent")) \in Nat
        BY <4>1, ListedFinite, WorkersFinite
      <4>3. QED
        BY <4>1, <4>2 DEF IInv, ListedCounted
    <3>2. QED
      BY <2>1, <2>2, <3>1 DEF IInv, SnapshotCounts, Listed
  <2>11. QED
    BY <2>3, <2>4, <2>5, <2>6, <2>7, <2>8, <2>9, <2>10 DEF IInv
<1>3. QED
  BY <1>1, <1>2
-----------------------------------------------------------------------------
(* A worker handles its message: the others are left alone.                  *)

Alone(w) ==
  /\ UNCHANGED <<arrivals, inbox>>
  /\ \A v \in Worker : v # w =>
       /\ pc'[v] = pc[v] /\ cur'[v] = cur[v]
       /\ target'[v] = target[v] /\ chunks'[v] = chunks[v] /\ next'[v] = next[v]
  /\ cur'[w] \in {cur[w], 0}
  /\ \A n \in 1..MaxArrivals : n # cur[w] => events'[n] = events[n]

Progress == {<< >>, Begun, Failed, Completed, Told}

\* What holds of the others' messages still does.
LEMMA OthersKept ==
  ASSUME IInv, NEW w \in Worker, cur[w] # 0, Alone(w),
         \A n \in Arrival : n # cur[w] =>
           \A c \in Channel : /\ ChunksOf(n, c)' = ChunksOf(n, c)
                              /\ NumbersOf(n, c)' = NumbersOf(n, c),
         events'[cur[w]] \in Progress, EventsBy(w)', ChunksBy(w)'
  PROVE  Owned' /\ QueuedFresh' /\ EventsSoFar' /\ ChunksSoFar'
<1>1. /\ cur[w] \in Arrival /\ cur[w] \in 1..MaxArrivals
      /\ \A v \in Worker : v # w => cur[v] # cur[w]
      /\ \A c \in Channel : \A i \in DOMAIN inbox[c] : inbox[c][i] # cur[w]
  BY HandlerOwns
<1>2. /\ \A v \in Worker : cur'[v] \in {cur[v], 0}
      /\ \A v \in Worker : v # w => cur'[v] = cur[v]
  BY DEF Alone
<1>3. Owned /\ QueuedFresh /\ EventsSoFar /\ ChunksSoFar /\ TypeOK
  BY DEF IInv
<1>4. Arrival \subseteq 1..MaxArrivals
  BY <1>3, GatewayAssumption DEF TypeOK, Arrival
<1>5. Owned'
  <2>1. ASSUME NEW c \in Channel
        PROVE  /\ \A i, j \in DOMAIN inbox[c] : i < j => inbox[c][i] < inbox[c][j]
               /\ \A i \in DOMAIN inbox[c] : arrivals[inbox[c][i]].meta = c
               /\ cur'[c] # 0 => /\ arrivals[cur'[c]].meta = c
                                 /\ \A i \in DOMAIN inbox[c] : cur'[c] < inbox[c][i]
    <3>1. cur'[c] # 0 => cur'[c] = cur[c]
      BY <1>2 DEF Worker
    <3>2. QED
      BY <1>3, <3>1 DEF Owned
  <2>2. \A j \in Job : cur'[j] # 0 => arrivals[cur'[j]].meta = None
    BY <1>2, <1>3 DEF Owned, Worker
  <2>3. \A u, v \in Worker : cur'[u] # 0 /\ cur'[u] = cur'[v] => u = v
    BY <1>2, <1>3 DEF Owned
  <2>4. QED
    BY <2>1, <2>2, <2>3 DEF Owned, Alone
<1>6. QueuedFresh'
  <2>1. ASSUME NEW n \in 1..MaxArrivals, n > Len(arrivals) PROVE events'[n] = << >>
    <3>1. n # cur[w]
      BY <1>1, <1>3, <2>1 DEF Arrival, TypeOK
    <3>2. QED
      BY <1>3, <2>1, <3>1 DEF QueuedFresh, Alone
  <2>2. ASSUME NEW c \in Channel, NEW i \in DOMAIN inbox[c]
        PROVE  /\ events'[inbox[c][i]] = << >>
               /\ \A d \in Channel :
                    {k \in DOMAIN outbox'[d] : outbox'[d][k].arrival = inbox[c][i]} = {}
    <3>n. PICK n : n = inbox[c][i]
      OBVIOUS
    <3>1. n \in Arrival /\ n # cur[w] /\ n \in 1..MaxArrivals
      <4>1. inbox[c] \in Seq(Arrival)
        BY <1>3 DEF TypeOK
      <4>2. inbox[c][i] \in Arrival
        BY <2>2, <4>1, ElementOfSeq, LenProperties
      <4>3. QED
        BY <1>1, <1>4, <3>n, <4>2
    <3>2. events[n] = << >> /\ \A d \in Channel : ChunksOf(n, d) = {}
      BY <1>3, <3>n DEF QueuedFresh
    <3>3. events'[n] = << >>
      BY <3>1, <3>2 DEF Alone
    <3>4. \A d \in Channel : ChunksOf(n, d)' = {}
      BY <3>1, <3>2
    <3>5. QED
      BY <3>n, <3>3, <3>4 DEF ChunksOf
  <2>3. inbox' = inbox /\ arrivals' = arrivals
    BY DEF Alone
  <2>4. QED
    BY <2>1, <2>2, <2>3 DEF QueuedFresh, ChunksOf
<1>7. EventsSoFar'
  <2>1. ASSUME NEW n \in 1..MaxArrivals PROVE events'[n] \in Progress
    BY <1>3, <2>1 DEF Alone, EventsSoFar, Progress
  <2>2. ASSUME NEW v \in Worker, v # w PROVE EventsBy(v)'
    <3>1. cur[v] # 0 => cur[v] \in 1..MaxArrivals /\ cur[v] # cur[w]
      BY <1>1, <1>3, <1>4, <2>2 DEF TypeOK
    <3>2. /\ pc'[v] = pc[v] /\ cur'[v] = cur[v] /\ next'[v] = next[v]
          /\ cur[v] # 0 => events'[cur[v]] = events[cur[v]]
      BY <2>2, <3>1 DEF Alone
    <3>3. EventsBy(v)
      BY <1>3 DEF EventsSoFar
    <3>4. QED
      BY <3>2, <3>3 DEF EventsBy
  <2>3. QED
    BY <2>1, <2>2 DEF EventsSoFar, Progress
<1>8. ChunksSoFar'
  <2>1. ASSUME NEW v \in Worker, v # w PROVE ChunksBy(v)'
    <3>1. /\ pc'[v] = pc[v] /\ cur'[v] = cur[v] /\ target'[v] = target[v]
          /\ chunks'[v] = chunks[v] /\ next'[v] = next[v]
      BY <2>1 DEF Alone
    <3>2. ChunksBy(v)
      BY <1>3 DEF ChunksSoFar
    <3>3. ASSUME cur[v] # 0, NEW c \in Channel
          PROVE  {outbox'[c][i].chunk : i \in {k \in DOMAIN outbox'[c] : outbox'[c][k].arrival = cur[v]}}
                   = NumbersOf(cur[v], c)
      <4>n. PICK n : n = cur[v]
        OBVIOUS
      <4>1. n \in Arrival /\ n # cur[w]
        BY <1>1, <1>3, <2>1, <3>3, <4>n DEF TypeOK
      <4>2. NumbersOf(n, c)' = NumbersOf(n, c)
        BY <4>1
      <4>3. QED
        BY <4>n, <4>2 DEF NumbersOf, ChunksOf
    <3>4. ASSUME cur[v] # 0, NEW c \in Channel PROVE NumbersOf(cur[v], c)' = NumbersOf(cur[v], c)
      <4>1. NumbersOf(cur[v], c)'
              = {outbox'[c][i].chunk : i \in {k \in DOMAIN outbox'[c] : outbox'[c][k].arrival = cur'[v]}}
        BY DEF NumbersOf, ChunksOf
      <4>2. cur'[v] = cur[v]
        BY <3>1
      <4>3. NumbersOf(cur[v], c)'
              = {outbox'[c][i].chunk : i \in {k \in DOMAIN outbox'[c] : outbox'[c][k].arrival = cur[v]}}
        BY <4>1, <4>2
      <4>4. QED
        BY <3>3, <3>4, <4>3
    <3>5. Sending(v)' = Sending(v) /\ SentBy(v)' = SentBy(v)
      BY <3>1 DEF Sending, SentBy
    <3>6. QED
      BY <3>1, <3>2, <3>4, <3>5 DEF ChunksBy, Sending
  <2>2. QED
    BY <2>1 DEF ChunksSoFar
<1>9. QED
  BY <1>5, <1>6, <1>7, <1>8

\* No key passes the filter while the filter stays as it is.
LEMMA KeysKept ==
  ASSUME IInv, NEW w \in Worker, cur[w] # 0, Alone(w), seen' = seen,
         Passed(cur[w]) \/ (cur'[w] = 0 /\ events' = events)
  PROVE  KeysOnce'
<1>1. arrivals' = arrivals /\ Arrival' = Arrival /\ KeysOnce /\ Arrival \subseteq 1..MaxArrivals
      /\ 0 \notin Arrival
  BY GatewayAssumption DEF Alone, Arrival, IInv, TypeOK
<1>2. ASSUME NEW n \in Arrival, Passed(n)' PROVE Passed(n)
  <2>1. CASE n # cur[w]
    BY <1>1, <1>2, <2>1 DEF Passed, Alone
  <2>2. CASE n = cur[w]
    BY <1>1, <1>2, <2>2 DEF Passed, Alone
  <2>3. QED
    BY <2>1, <2>2
<1>3. QED
  BY <1>1, <1>2 DEF KeysOnce

\* A step of a handler that sends nothing.
LEMMA QuietKept ==
  ASSUME IInv, NEW w \in Worker, cur[w] # 0, Alone(w), outbox' = outbox,
         events'[cur[w]] \in Progress, EventsBy(w)', ChunksBy(w)', KeysOnce',
         TypeOK', StatsAgree', ListedCounted', SnapshotCounts'
  PROVE  IInv'
<1>1. \A n \in Arrival : n # cur[w] =>
        \A c \in Channel : ChunksOf(n, c)' = ChunksOf(n, c) /\ NumbersOf(n, c)' = NumbersOf(n, c)
  BY DEF ChunksOf, NumbersOf
<1>2. Owned' /\ QueuedFresh' /\ EventsSoFar' /\ ChunksSoFar'
  BY <1>1, OthersKept
<1>3. arrivals' = arrivals /\ inbox' = inbox /\ \A v \in Worker : cur'[v] \in {cur[v], 0}
  BY DEF Alone
<1>4. SentInOrder'
  <2>1. ASSUME NEW c \in Channel, NEW d \in Channel, NEW i \in DOMAIN outbox[c],
               arrivals[outbox[c][i].arrival].meta = d
        PROVE  /\ cur'[d] # 0 => outbox[c][i].arrival <= cur'[d]
               /\ \A k \in DOMAIN inbox[d] : outbox[c][i].arrival < inbox[d][k]
    <3>1. cur'[d] # 0 => cur'[d] = cur[d]
      BY <1>3 DEF Worker
    <3>2. QED
      BY <2>1, <3>1 DEF IInv, SentInOrder
  <2>2. QED
    BY <1>3, <2>1 DEF SentInOrder
<1>5. ReplyInOrder' /\ RepliesInArrivalOrder'
  BY <1>3, SentKept
<1>6. QED
  BY <1>2, <1>4, <1>5 DEF IInv
\* A handler goes on to its next step ...
LEMMA Moved ==
  ASSUME TypeOK, NEW w \in Worker, pc[w] \notin {"idle", "gone"},
         NEW label \in Label \ {"idle", "gone"}, Goto(w, label), cur' = cur
  PROVE  /\ pc' \in [Worker -> Label] /\ pc'[w] = label
         /\ \A v \in Worker : v # w => pc'[v] = pc[v]
         /\ \A v \in Worker : pc'[v] \in {"idle", "gone"} <=> cur'[v] = 0
<1>1. pc \in [Worker -> Label] /\ pc' = [pc EXCEPT ![w] = label]
  BY DEF TypeOK, Goto
<1>2. pc' \in [Worker -> Label] /\ pc'[w] = label /\ \A v \in Worker : v # w => pc'[v] = pc[v]
  BY <1>1
<1>3. QED
  BY <1>2 DEF TypeOK

\* ... or returns.
LEMMA Finished ==
  ASSUME TypeOK, NEW w \in Worker, pc[w] \notin {"idle", "gone"}, Finish(w)
  PROVE  /\ pc' \in [Worker -> Label] /\ cur' \in [Worker -> Arrival \cup {0}]
         /\ target' \in [Worker -> Channel \cup {None}]
         /\ chunks' \in [Worker -> 0..MaxChunks] /\ next' \in [Worker -> 0..MaxChunks]
         /\ pc'[w] = "idle" /\ cur'[w] = 0
         /\ \A v \in Worker : v # w =>
              /\ pc'[v] = pc[v] /\ cur'[v] = cur[v]
              /\ target'[v] = target[v] /\ chunks'[v] = chunks[v] /\ next'[v] = next[v]
         /\ \A v \in Worker : pc'[v] \in {"idle", "gone"} <=> cur'[v] = 0
         /\ EventsBy(w)' /\ ChunksBy(w)'
<1>1. /\ pc' \in [Worker -> Label] /\ pc'[w] = "idle"
      /\ \A v \in Worker : v # w => pc'[v] = pc[v]
  BY DEF TypeOK, Goto, Finish, Label
<1>2. /\ cur' \in [Worker -> Arrival \cup {0}] /\ cur'[w] = 0
      /\ \A v \in Worker : v # w => cur'[v] = cur[v]
  BY DEF TypeOK, Finish
<1>3. /\ target' \in [Worker -> Channel \cup {None}]
      /\ \A v \in Worker : v # w => target'[v] = target[v]
  BY DEF TypeOK, Finish
<1>4. 0 \in 0..MaxChunks
  BY GatewayAssumption
<1>5. /\ chunks' \in [Worker -> 0..MaxChunks] /\ next' \in [Worker -> 0..MaxChunks]
      /\ \A v \in Worker : v # w => chunks'[v] = chunks[v] /\ next'[v] = next[v]
  BY <1>4 DEF TypeOK, Finish
<1>6. \A v \in Worker : pc'[v] \in {"idle", "gone"} <=> cur'[v] = 0
  BY <1>1, <1>2 DEF TypeOK
<1>7. EventsBy(w)' /\ ChunksBy(w)'
  BY <1>1, <1>2 DEF EventsBy, ChunksBy, Sending
<1>8. QED
  BY <1>1, <1>2, <1>3, <1>5, <1>6, <1>7

LEMMA Published ==
  ASSUME TypeOK, NEW w \in Worker, cur[w] \in 1..MaxArrivals, NEW type \in EventType,
         Publish(type, w)
  PROVE  /\ events' \in [1..MaxArrivals -> Seq(EventType)]
         /\ events'[cur[w]] = Append(events[cur[w]], type)
         /\ \A n \in 1..MaxArrivals : n # cur[w] => events'[n] = events[n]
<1>1. events \in [1..MaxArrivals -> Seq(EventType)]
  BY DEF TypeOK
<1>2. events' = [events EXCEPT ![cur[w]] = Append(events[cur[w]], type)]
  BY DEF Publish
<1>3. Append(events[cur[w]], type) \in Seq(EventType)
  BY <1>1, AppendProperties
<1>4. QED
  BY <1>1, <1>2, <1>3

\* A sequence with one more element is known by its elements.
LEMMA AppendIs ==
  ASSUME NEW S, NEW s \in Seq(S), NEW t \in Seq(S), NEW e \in S, NEW k \in Nat,
         Len(s) = k, Len(t) = k + 1, \A i \in 1..k : t[i] = s[i], t[k + 1] = e
  PROVE  Append(s, e) = t
<1>1. /\ Append(s, e) \in Seq(S) /\ Len(Append(s, e)) = Len(s) + 1
      /\ \A i \in 1..Len(s) : Append(s, e)[i] = s[i]
      /\ Append(s, e)[Len(s) + 1] = e
  BY AppendProperties
<1>2. \A i \in 1..Len(Append(s, e)) : Append(s, e)[i] = t[i]
  BY <1>1
<1>3. QED
  BY <1>1, <1>2, SeqEqual

\* Each event takes the history of its message one step on.
LEMMA Histories ==
  /\ Append(<< >>, "agent.started") = Begun
  /\ Append(Begun, "agent.error") = Failed
  /\ Append(Begun, "agent.completed") = Completed
  /\ Append(Completed, "message.sent") = Told
<1>1. /\ Begun \in Seq(EventType) /\ Failed \in Seq(EventType)
      /\ Completed \in Seq(EventType) /\ Told \in Seq(EventType)
  BY DEF Begun, Failed, Completed, Told, EventType
<1>2. Len(Begun) = 1 /\ Len(Failed) = 2 /\ Len(Completed) = 2 /\ Len(Told) = 3
  BY DEF Begun, Failed, Completed, Told
<1>3. /\ "agent.error" \in EventType /\ "agent.completed" \in EventType
      /\ "message.sent" \in EventType
  BY DEF EventType
<1>4. Append(<< >>, "agent.started") = Begun
  BY DEF Begun
<1>5. ASSUME NEW s \in Seq(EventType), NEW t \in Seq(EventType), NEW e \in EventType,
             \/ s = Begun /\ t = Failed /\ e = "agent.error"
             \/ s = Begun /\ t = Completed /\ e = "agent.completed"
             \/ s = Completed /\ t = Told /\ e = "message.sent"
      PROVE  Append(s, e) = t
  <2>1. CASE s = Begun /\ t \in {Failed, Completed}
    <3>k. PICK k \in Nat : k = 1
      OBVIOUS
    <3>1. Len(s) = k /\ Len(t) = k + 1 /\ \A i \in 1..k : t[i] = s[i]
      BY <2>1, <1>2, <3>k DEF Begun, Failed, Completed
    <3>2. t[k + 1] = e
      BY <1>5, <2>1, <3>k DEF Begun, Failed, Completed, Told
    <3>3. QED
      BY <3>1, <3>2, AppendIs
  <2>2. CASE s = Completed /\ t = Told
    <3>k. PICK k \in Nat : k = 2
      OBVIOUS
    <3>1. Len(s) = k /\ Len(t) = k + 1 /\ \A i \in 1..k : t[i] = s[i]
      BY <2>2, <1>2, <3>k DEF Completed, Told
    <3>2. t[k + 1] = e
      BY <1>5, <2>2, <3>k DEF Begun, Failed, Completed, Told
    <3>3. QED
      BY <3>1, <3>2, AppendIs
  <2>3. QED
    BY <1>5, <2>1, <2>2
<1>6. Append(Begun, "agent.error") = Failed
  BY <1>1, <1>3, <1>5
<1>7. Append(Begun, "agent.completed") = Completed
  BY <1>1, <1>3, <1>5
<1>8. Append(Completed, "message.sent") = Told
  BY <1>1, <1>3, <1>5
<1>9. QED
  BY <1>4, <1>6, <1>7, <1>8

\* What a handler has sent stays sent when it moves on.
LEMMA ChunksMove ==
  ASSUME IInv, NEW w \in Worker, cur[w] # 0, cur'[w] = cur[w], outbox' = outbox,
         SentBy(w)' = SentBy(w), target'[w] = target[w] \/ SentBy(w) = 0,
         pc'[w] = "resolve" => chunks'[w] > 0,
         Sending(w)' => target'[w] \in Channel /\ next'[w] \in 1..chunks'[w],
         pc'[w] \in {"sent", "listsent"} => next'[w] = 1
  PROVE  ChunksBy(w)'
<1>1. ASSUME NEW c \in Channel
      PROVE  NumbersOf(cur[w], c)' = IF c = target'[w] THEN 1..SentBy(w) ELSE {}
  <2>1. NumbersOf(cur[w], c)' = NumbersOf(cur[w], c)
    BY DEF NumbersOf, ChunksOf
  <2>2. NumbersOf(cur[w], c) = IF c = target[w] THEN 1..SentBy(w) ELSE {}
    BY DEF IInv, ChunksSoFar, ChunksBy
  <2>3. SentBy(w) = 0 => 1..SentBy(w) = {}
    OBVIOUS
  <2>4. QED
    BY <2>1, <2>2, <2>3
<1>2. QED
  BY <1>1 DEF ChunksBy

\* The statistics as numbers.
LEMMA StatsFacts ==
  ASSUME IInv
  PROVE  /\ inboundCount \in Nat /\ outboundCount \in Nat /\ MaxArrivals \in Nat
         /\ \A l : Cardinality(At(l)) \in Nat
         /\ Cardinality(seen) \in Nat /\ Cardinality(seen) <= MaxArrivals
         /\ Cardinality(Replied) \in Nat /\ Cardinality(Replied) <= MaxArrivals
         /\ \A x : Cardinality(Listed(x, recent)) \in Nat
         /\ inboundCount + Cardinality(At("start")) = Cardinality(seen)
         /\ outboundCount + Cardinality(At("sent")) = Cardinality(Replied)
         /\ Cardinality(Listed("in", recent)) + Cardinality(At("list")) <= inboundCount
         /\ Cardinality(Listed("out", recent)) + Cardinality(At("listsent")) <= outboundCount
<1>1. TypeOK /\ KeysOnce /\ ListedCounted /\ StatsAgree
  BY DEF IInv
<1>2. /\ Cardinality(seen) \in Nat /\ Cardinality(seen) <= MaxArrivals
  BY <1>1, KeysBounded DEF TypeOK, KeysOnce
<1>3. /\ Cardinality(Replied) \in Nat /\ Cardinality(Replied) <= MaxArrivals
  BY <1>1, RepliesBounded DEF TypeOK
<1>4. \A x : Cardinality(Listed(x, recent)) \in Nat
  BY <1>1, ListedFinite DEF TypeOK
<1>5. inboundCount \in Nat /\ outboundCount \in Nat /\ MaxArrivals \in Nat
  BY <1>1, GatewayAssumption DEF TypeOK
<1>6. /\ inboundCount + Cardinality(At("start")) = Cardinality(seen)
      /\ outboundCount + Cardinality(At("sent")) = Cardinality(Replied)
  BY <1>1, StatsByLabel
<1>7. QED
  BY <1>1, <1>2, <1>3, <1>4, <1>5, <1>6, WorkersFinite DEF ListedCounted

\* The counters only grow, so a snapshot stays covered.
LEMMA SnapshotKept ==
  ASSUME IInv, snapshot' = snapshot, inboundCount' \in Nat, outboundCount' \in Nat,
         inboundCount <= inboundCount', outboundCount <= outboundCount'
  PROVE  SnapshotCounts'
<1>1. /\ SnapshotCounts /\ inboundCount \in Nat /\ outboundCount \in Nat
      /\ snapshot \in Seq(Direction) \cup {None}
  BY StatsFacts DEF IInv, TypeOK
<1>2. CASE snapshot = None
  BY <1>2 DEF SnapshotCounts
<1>3. CASE snapshot # None
  <2>1. /\ Cardinality(Listed("in", snapshot)) \in Nat
        /\ Cardinality(Listed("out", snapshot)) \in Nat
    BY <1>1, <1>3, ListedFinite
  <2>2. /\ Cardinality(Listed("in", snapshot)) <= inboundCount
        /\ Cardinality(Listed("out", snapshot)) <= outboundCount
    BY <1>1, <1>3 DEF SnapshotCounts
  <2>3. /\ Cardinality(Listed("in", snapshot)) <= inboundCount'
        /\ Cardinality(Listed("out", snapshot)) <= outboundCount'
    BY <1>1, <2>1, <2>2
  <2>4. QED
    BY <2>3 DEF SnapshotCounts, Listed
<1>4. QED
  BY <1>2, <1>3
LEMMA NotEmpty == Begun # << >> /\ Failed # << >> /\ Completed # << >> /\ Told # << >>
BY DEF Begun, Failed, Completed, Told

\* A message whose handler is past the filter has passed it.
LEMMA PastFilter ==
  ASSUME IInv, NEW w \in Worker, pc[w] \notin {"idle", "gone", "dedup"}
  PROVE  cur[w] # 0 /\ Passed(cur[w])
<1>1. cur[w] # 0 /\ EventsBy(w) /\ ChunksBy(w) /\ pc[w] \in Label
  BY DEF IInv, TypeOK, EventsSoFar, ChunksSoFar
<1>2. CASE pc[w] \in {"start", "list"}
  BY <1>1, <1>2 DEF Passed
<1>3. CASE pc[w] \notin {"start", "list"}
  <2>1. pc[w] = "send" => next[w] = 1 \/ next[w] > 1
    <3>1. ASSUME pc[w] = "send" PROVE next[w] = 1 \/ next[w] > 1
      <4>1. next[w] \in 1..chunks[w] /\ chunks[w] \in 0..MaxChunks /\ MaxChunks \in Nat
        BY <1>1, <3>1, GatewayAssumption DEF ChunksBy, Sending, IInv, TypeOK
      <4>2. QED
        BY <4>1
    <3>2. QED
      BY <3>1
  <2>2. events[cur[w]] # << >>
    BY <1>1, <1>3, <2>1, NotEmpty DEF EventsBy, Label
  <2>3. QED
    BY <1>1, <2>2 DEF Passed
<1>4. QED
  BY <1>1, <1>2, <1>3

\* A handler that returns, having told what it had to tell.
LEMMA FinishInv ==
  ASSUME IInv, NEW w \in Worker,
         pc[w] \notin {"idle", "gone", "start", "list", "sent", "listsent"}, Finish(w),
         UNCHANGED <<arrivals, inbox, seen, prefs, inboundCount, outboundCount, recent,
                     snapshot, outbox>>,
         events' \in [1..MaxArrivals -> Seq(EventType)],
         \A n \in 1..MaxArrivals : n # cur[w] => events'[n] = events[n],
         events'[cur[w]] \in Progress,
         events' = events \/ Passed(cur[w])
  PROVE  IInv'
<1>0. TypeOK /\ cur[w] # 0 /\ pc[w] \in Label
  BY DEF IInv, TypeOK
<1>1. /\ pc' \in [Worker -> Label] /\ cur' \in [Worker -> Arrival \cup {0}]
      /\ target' \in [Worker -> Channel \cup {None}]
      /\ chunks' \in [Worker -> 0..MaxChunks] /\ next' \in [Worker -> 0..MaxChunks]
      /\ cur'[w] = 0
      /\ \A v \in Worker : v # w =>
           /\ pc'[v] = pc[v] /\ cur'[v] = cur[v]
           /\ target'[v] = target[v] /\ chunks'[v] = chunks[v] /\ next'[v] = next[v]
      /\ \A v \in Worker : pc'[v] \in {"idle", "gone"} <=> cur'[v] = 0
      /\ EventsBy(w)' /\ ChunksBy(w)'
  BY <1>0, Finished
<1>2. Alone(w)
  BY <1>1 DEF Alone
<1>3. TypeOK'
  <2>1. Arrival' = Arrival /\ Chunk' = Chunk
    BY DEF Arrival, Chunk, Place
  <2>2. QED
    BY <1>0, <1>1, <2>1 DEF TypeOK
<1>4. KeysOnce'
  BY <1>0, <1>1, <1>2, KeysKept
<1>5. StatsAgree' /\ ListedCounted' /\ SnapshotCounts'
  <2>1. /\ pc \in [Worker -> Label] /\ pc' = [pc EXCEPT ![w] = "idle"]
        /\ "idle" \in Label \ {pc[w]}
    BY <1>0 DEF TypeOK, Finish, Goto, Label
  <2>2. \A l : l # "idle" /\ l # pc[w] => At(l)' = At(l)
    BY <1>0, <2>1, OneMoves
  <2>3. \A l \in {"start", "list", "sent", "listsent"} : At(l)' = At(l)
    BY <2>2
  <2>4. Replied' = Replied
    BY SentKept
  <2>5. QED
    BY <2>3, <2>4, StatsKept
<1>6. QED
  BY <1>0, <1>1, <1>2, <1>3, <1>4, <1>5, QuietKept

\* The duplicate filter.
LEMMA DedupInv == ASSUME IInv, NEW w \in Worker, Dedup(w) PROVE IInv'
<1>0. /\ TypeOK /\ cur[w] # 0 /\ pc[w] = "dedup" /\ events[cur[w]] = << >>
      /\ UNCHANGED <<arrivals, inbox, prefs, inboundCount, outboundCount, recent,
                     snapshot, events, outbox>>
  <2>1. TypeOK /\ pc[w] = "dedup"
    BY DEF Dedup, IInv
  <2>2. cur[w] # 0
    BY <2>1 DEF TypeOK
  <2>3. events[cur[w]] = << >>
    BY <2>1, <2>2 DEF IInv, EventsSoFar, EventsBy
  <2>4. QED
    BY <2>1, <2>2, <2>3 DEF Dedup, stats
<1>1. CASE Finish(w) /\ seen' = seen
  BY <1>0, <1>1, FinishInv DEF TypeOK, Progress
<1>2. CASE /\ Msg(w).key \notin seen /\ seen' = seen \cup {Msg(w).key}
           /\ Goto(w, "start") /\ UNCHANGED <<cur, target, chunks, next>>
  <2>0. "start" \in Label \ {"idle", "gone"} /\ "start" \in Label \ {"dedup"} /\ "dedup" \in Label
    BY DEF Label
  <2>1. /\ pc' \in [Worker -> Label] /\ pc'[w] = "start"
        /\ \A v \in Worker : v # w => pc'[v] = pc[v]
        /\ \A v \in Worker : pc'[v] \in {"idle", "gone"} <=> cur'[v] = 0
    BY <1>0, <1>2, <2>0, Moved
  <2>2. /\ cur[w] \in Arrival /\ Msg(w) \in Message
        /\ \A v \in Worker : v # w => cur[v] # cur[w]
    BY <1>0, HandlerOwns
  <2>3. Alone(w)
    BY <1>0, <1>2, <2>1 DEF Alone
  <2>4. TypeOK'
    <3>1. Arrival' = Arrival /\ Chunk' = Chunk
      BY <1>0 DEF Arrival, Chunk, Place
    <3>2. seen' \in SUBSET {m.key : m \in Message}
      BY <1>0, <1>2, <2>2 DEF TypeOK
    <3>3. QED
      BY <1>0, <1>2, <2>1, <3>1, <3>2 DEF TypeOK
  <2>5. EventsBy(w)'
    BY <1>0, <1>2, <2>1 DEF EventsBy
  <2>6. ChunksBy(w)'
    <3>1. ~Sending(w)' /\ SentBy(w)' = 0 /\ SentBy(w) = 0
      BY <1>0, <2>1 DEF Sending, SentBy
    <3>2. QED
      BY <1>0, <1>2, <2>1, <3>1, ChunksMove
  <2>7. KeysOnce'
    <3>1. KeysOnce /\ arrivals' = arrivals /\ Arrival' = Arrival
      BY <1>0 DEF IInv, Arrival
    <3>2. ASSUME NEW n \in Arrival, Passed(n)', n # cur[w] PROVE Passed(n)
      BY <1>0, <1>2, <2>1, <3>2 DEF Passed
    <3>3. \A n \in Arrival : Passed(n) => arrivals[n].key \in seen /\ arrivals[n].key # Msg(w).key
      BY <1>2, <3>1 DEF KeysOnce
    <3>4. ASSUME NEW n \in Arrival, NEW k \in Arrival, Passed(n)', Passed(k)', n # k
          PROVE  arrivals[n].key # arrivals[k].key
      <4>1. CASE n = cur[w]
        BY <3>2, <3>3, <3>4, <4>1 DEF Msg
      <4>2. CASE k = cur[w]
        BY <3>2, <3>3, <3>4, <4>2 DEF Msg
      <4>3. CASE n # cur[w] /\ k # cur[w]
        BY <3>1, <3>2, <3>4, <4>3 DEF KeysOnce
      <4>4. QED
        BY <4>1, <4>2, <4>3
    <3>5. ASSUME NEW n \in Arrival, Passed(n)' PROVE arrivals[n].key \in seen'
      BY <1>2, <3>2, <3>3, <3>5 DEF Msg
    <3>6. seen' \subseteq {arrivals[n].key : n \in Arrival}
      BY <1>2, <2>2, <3>1 DEF KeysOnce, Msg
    <3>7. QED
      BY <3>1, <3>4, <3>5, <3>6 DEF KeysOnce
  <2>8. Replied' = Replied
    BY <1>0, SentKept
  <2>9. /\ \A l : l # "start" /\ l # "dedup" => At(l)' = At(l)
        /\ Cardinality(At("start")') = Cardinality(At("start")) + 1
    <3>1. pc \in [Worker -> Label] /\ pc' = [pc EXCEPT ![w] = "start"]
      BY <1>0, <1>2 DEF TypeOK, Goto
    <3>2. QED
      BY <1>0, <2>0, <3>1, OneMoves
  <2>10. StatsAgree'
    <3>1. Cardinality(seen') = Cardinality(seen) + 1
      <4>1. IsFiniteSet(seen)
        BY <1>0, KeysBounded DEF IInv, KeysOnce, TypeOK
      <4>2. Cardinality(seen \cup {Msg(w).key}) = Cardinality(seen) + 1
        BY <1>2, <4>1, FS_AddElement
      <4>3. QED
        BY <1>2, <4>2
    <3>2. /\ inboundCount + Cardinality(At("start")) = Cardinality(seen)
          /\ outboundCount + Cardinality(At("sent")) = Cardinality(Replied)
          /\ inboundCount \in Nat /\ Cardinality(At("start")) \in Nat
      BY StatsFacts
    <3>3. inboundCount' + Cardinality(At("start")') = Cardinality(seen')
      BY <1>0, <2>9, <3>1, <3>2
    <3>4. At("sent")' = At("sent")
      BY <2>9
    <3>5. outboundCount' + Cardinality(At("sent")') = Cardinality(Replied')
      BY <1>0, <2>8, <3>2, <3>4
    <3>6. QED
      BY <3>3, <3>5, StatsByLabelNext
  <2>11. ListedCounted' /\ SnapshotCounts'
    BY <1>0, <2>9 DEF IInv, ListedCounted, SnapshotCounts, Listed
  <2>12. QED
    BY <1>0, <2>3, <2>4, <2>5, <2>6, <2>7, <2>10, <2>11, QuietKept DEF Progress
<1>3. QED
  BY <1>1, <1>2 DEF Dedup, reply

\* A failed run, and a failed call to the platform.
LEMMA FailsInv == ASSUME IInv, NEW w \in Worker, Fail(w) \/ SendFails(w) PROVE IInv'
<1>0. TypeOK /\ EventsSoFar /\ pc[w] \in {"process", "send"}
  BY DEF Fail, SendFails, IInv
<1>1. /\ cur[w] # 0 /\ Passed(cur[w])
      /\ cur[w] \in 1..MaxArrivals
  BY <1>0, PastFilter, HandlerOwns
<1>2. CASE Fail(w)
  <2>1. /\ pc[w] = "process" /\ events[cur[w]] = Begun
    BY <1>0, <1>1, <1>2 DEF Fail, EventsSoFar, EventsBy
  <2>2. "agent.error" \in EventType
    BY DEF EventType
  <2>3. /\ events' \in [1..MaxArrivals -> Seq(EventType)]
        /\ events'[cur[w]] = Append(events[cur[w]], "agent.error")
        /\ \A n \in 1..MaxArrivals : n # cur[w] => events'[n] = events[n]
    BY <1>0, <1>1, <1>2, <2>2, Published DEF Fail
  <2>4. events'[cur[w]] \in Progress
    BY <2>1, <2>3, Histories DEF Progress
  <2>5. /\ Finish(w)
        /\ UNCHANGED <<arrivals, inbox, seen, prefs, inboundCount, outboundCount, recent,
                       snapshot, outbox>>
    BY <1>2 DEF Fail, stats
  <2>6. QED
    BY <1>1, <2>1, <2>3, <2>4, <2>5, FinishInv
<1>3. CASE SendFails(w)
  <2>1. /\ pc[w] = "send" /\ Finish(w) /\ events' = events
        /\ UNCHANGED <<arrivals, inbox, seen, prefs, inboundCount, outboundCount, recent,
                       snapshot, outbox>>
    BY <1>3 DEF SendFails, stats
  <2>2. events[cur[w]] \in Progress /\ events \in [1..MaxArrivals -> Seq(EventType)]
    BY <1>0, <1>1 DEF EventsSoFar, Progress, TypeOK
  <2>3. QED
    BY <2>1, <2>2, FinishInv
<1>4. QED
  BY <1>2, <1>3
\* RecordInbound counts the message.
LEMMA CountInv == ASSUME IInv, NEW w \in Worker, Count(w) PROVE IInv'
<1>0. /\ TypeOK /\ pc[w] = "start" /\ pc' = [pc EXCEPT ![w] = "list"]
      /\ inboundCount' = inboundCount + 1 /\ Goto(w, "list")
      /\ UNCHANGED <<arrivals, inbox, cur, target, chunks, next, seen, prefs,
                     outboundCount, recent, snapshot, events, outbox>>
  BY DEF Count, Goto, reply, IInv
<1>1. "list" \in Label \ {"idle", "gone"} /\ "list" \in Label \ {"start"} /\ "start" \in Label
  BY DEF Label
<1>2. cur[w] # 0 /\ Passed(cur[w])
  BY <1>0, PastFilter
<1>3. /\ pc' \in [Worker -> Label] /\ pc'[w] = "list"
      /\ \A v \in Worker : v # w => pc'[v] = pc[v]
      /\ \A v \in Worker : pc'[v] \in {"idle", "gone"} <=> cur'[v] = 0
  BY <1>0, <1>1, Moved
<1>4. Alone(w)
  BY <1>0, <1>3 DEF Alone
<1>5. events[cur[w]] = << >> /\ EventsBy(w)'
  <2>1. events[cur[w]] = << >>
    BY <1>0, <1>2 DEF IInv, EventsSoFar, EventsBy
  <2>2. QED
    BY <1>0, <1>3, <2>1 DEF EventsBy
<1>6. ChunksBy(w)'
  <2>1. ~Sending(w)' /\ SentBy(w)' = 0 /\ SentBy(w) = 0
    BY <1>0, <1>3 DEF Sending, SentBy
  <2>2. QED
    BY <1>0, <1>2, <1>3, <2>1, ChunksMove
<1>7. KeysOnce'
  BY <1>0, <1>2, <1>4, KeysKept
<1>8. Replied' = Replied
  BY <1>0, SentKept
<1>9. /\ \A l : l # "list" /\ l # "start" => At(l)' = At(l)
      /\ Cardinality(At("list")') = Cardinality(At("list")) + 1
      /\ Cardinality(At("start")') = Cardinality(At("start")) - 1
  <2>1. pc \in [Worker -> Label]
    BY <1>0 DEF TypeOK
  <2>2. QED
    BY <1>0, <1>1, <2>1, OneMoves
<1>10. At("sent")' = At("sent") /\ At("listsent")' = At("listsent")
  BY <1>9
<1>11. /\ inboundCount \in Nat /\ MaxArrivals \in Nat /\ outboundCount \in Nat
       /\ Cardinality(At("start")) \in Nat /\ Cardinality(At("list")) \in Nat
       /\ Cardinality(At("start")') \in Nat
       /\ Cardinality(seen) \in Nat /\ Cardinality(seen) <= MaxArrivals
       /\ inboundCount + Cardinality(At("start")) = Cardinality(seen)
       /\ outboundCount + Cardinality(At("sent")) = Cardinality(Replied)
       /\ Cardinality(Listed("in", recent)) \in Nat
       /\ Cardinality(Listed("in", recent)) + Cardinality(At("list")) <= inboundCount
       /\ Cardinality(Listed("out", recent)) + Cardinality(At("listsent")) <= outboundCount
  <2>1. Cardinality(At("start")') \in Nat
    BY WorkersFiniteNext
  <2>2. QED
    BY <2>1, StatsFacts
<1>12. StatsAgree'
  <2>1. inboundCount' + Cardinality(At("start")') = Cardinality(seen')
    BY <1>0, <1>9, <1>11
  <2>2. outboundCount' + Cardinality(At("sent")') = Cardinality(Replied')
    BY <1>0, <1>8, <1>10, <1>11
  <2>3. QED
    BY <2>1, <2>2, StatsByLabelNext
<1>13. ListedCounted'
  <2>1. Listed("in", recent)' = Listed("in", recent) /\ Listed("out", recent)' = Listed("out", recent)
    BY <1>0 DEF Listed
  <2>2. Cardinality(Listed("in", recent)') + Cardinality(At("list")') <= inboundCount'
    BY <1>0, <1>9, <1>11, <2>1
  <2>3. Cardinality(Listed("out", recent)') + Cardinality(At("listsent")') <= outboundCount'
    BY <1>0, <1>10, <1>11, <2>1
  <2>4. QED
    BY <2>2, <2>3 DEF ListedCounted
<1>14. SnapshotCounts'
  <2>1. inboundCount' \in Nat /\ inboundCount <= inboundCount' /\ outboundCount' \in Nat
        /\ outboundCount <= outboundCount'
    BY <1>0, <1>11
  <2>2. QED
    BY <1>0, <2>1, SnapshotKept
<1>15. TypeOK'
  <2>1. Arrival' = Arrival /\ Chunk' = Chunk
    BY <1>0 DEF Arrival, Chunk, Place
  <2>2. inboundCount' \in 0..MaxArrivals
    <3>1. inboundCount' \in Nat /\ inboundCount' + Cardinality(At("start")') = Cardinality(seen)
      BY <1>0, <1>9, <1>11
    <3>2. QED
      BY <1>11, <3>1
  <2>3. QED
    BY <1>0, <1>3, <2>1, <2>2 DEF TypeOK
<1>16. events'[cur[w]] \in Progress
  BY <1>0, <1>5 DEF Progress
<1>17. QED
  BY <1>0, <1>2, <1>4, <1>5, <1>6, <1>7, <1>12, <1>13, <1>14, <1>15, <1>16, QuietKept

\* RecordInbound lists it, and the start of the run is published.
LEMMA StartInv == ASSUME IInv, NEW w \in Worker, Start(w) PROVE IInv'
<1>0. /\ TypeOK /\ pc[w] = "list" /\ pc' = [pc EXCEPT ![w] = "process"]
      /\ addRecent("in") /\ Publish("agent.started", w) /\ Goto(w, "process")
      /\ UNCHANGED <<arrivals, inbox, cur, target, chunks, next, seen, prefs,
                     inboundCount, outboundCount, snapshot, outbox>>
  BY DEF Start, Goto, reply, IInv
<1>1. /\ "process" \in Label \ {"idle", "gone"} /\ "process" \in Label \ {"list"}
      /\ "list" \in Label /\ "agent.started" \in EventType /\ "in" \in Direction /\ "out" \in Direction
  BY DEF Label, EventType, Direction
<1>2. cur[w] # 0 /\ Passed(cur[w]) /\ cur[w] \in 1..MaxArrivals
  BY <1>0, PastFilter, HandlerOwns
<1>3. /\ pc' \in [Worker -> Label] /\ pc'[w] = "process"
      /\ \A v \in Worker : v # w => pc'[v] = pc[v]
      /\ \A v \in Worker : pc'[v] \in {"idle", "gone"} <=> cur'[v] = 0
  BY <1>0, <1>1, Moved
<1>4. /\ events' \in [1..MaxArrivals -> Seq(EventType)]
      /\ events'[cur[w]] = Append(events[cur[w]], "agent.started")
      /\ \A n \in 1..MaxArrivals : n # cur[w] => events'[n] = events[n]
  BY <1>0, <1>1, <1>2, Published
<1>5. Alone(w)
  BY <1>0, <1>3, <1>4 DEF Alone
<1>6. events'[cur[w]] = Begun
  <2>1. events[cur[w]] = << >>
    BY <1>0, <1>2 DEF IInv, EventsSoFar, EventsBy
  <2>2. QED
    BY <1>4, <2>1, Histories
<1>7. EventsBy(w)' /\ Begun \in Progress
  BY <1>0, <1>3, <1>6 DEF EventsBy, Progress
<1>8. ChunksBy(w)'
  <2>1. ~Sending(w)' /\ SentBy(w)' = 0 /\ SentBy(w) = 0
    BY <1>0, <1>3 DEF Sending, SentBy
  <2>2. QED
    BY <1>0, <1>2, <1>3, <2>1, ChunksMove
<1>9. KeysOnce'
  BY <1>0, <1>2, <1>5, KeysKept
<1>10. /\ \A l : l # "process" /\ l # "list" => At(l)' = At(l)
       /\ Cardinality(At("list")') = Cardinality(At("list")) - 1
  <2>1. pc \in [Worker -> Label]
    BY <1>0 DEF TypeOK
  <2>2. QED
    BY <1>0, <1>1, <2>1, OneMoves
<1>11. /\ At("start")' = At("start") /\ At("sent")' = At("sent")
       /\ At("listsent")' = At("listsent")
  BY <1>10
<1>12. /\ recent' \in Seq(Direction) /\ Len(recent') <= RecentCap
       /\ \A x \in Direction :
            /\ Cardinality(Listed(x, recent)) \in Nat
            /\ Cardinality(Listed(x, recent')) \in Nat
            /\ Cardinality(Listed(x, recent')) <=
                 Cardinality(Listed(x, recent)) + (IF x = "in" THEN 1 ELSE 0)
  BY <1>0, <1>1, OneListed DEF TypeOK
<1>13. TypeOK'
  <2>1. Arrival' = Arrival /\ Chunk' = Chunk
    BY <1>0 DEF Arrival, Chunk, Place
  <2>2. QED
    BY <1>0, <1>3, <1>4, <1>12, <2>1 DEF TypeOK
<1>14. StatsAgree'
  <2>1. Replied' = Replied
    BY <1>0, SentKept
  <2>2. /\ inboundCount' + Cardinality(At("start")') = Cardinality(seen')
        /\ outboundCount' + Cardinality(At("sent")') = Cardinality(Replied')
    BY <1>0, <1>11, <2>1, StatsFacts
  <2>3. QED
    BY <2>2, StatsByLabelNext
<1>15. ListedCounted'
  <2>1. /\ Cardinality(At("list")) \in Nat /\ Cardinality(At("listsent")) \in Nat
        /\ inboundCount \in Nat /\ outboundCount \in Nat
        /\ Cardinality(Listed("in", recent)) + Cardinality(At("list")) <= inboundCount
        /\ Cardinality(Listed("out", recent)) + Cardinality(At("listsent")) <= outboundCount
    BY StatsFacts
  <2>2. /\ Cardinality(Listed("in", recent)) \in Nat /\ Cardinality(Listed("in", recent')) \in Nat
        /\ Cardinality(Listed("in", recent')) <= Cardinality(Listed("in", recent)) + 1
    BY <1>1, <1>12
  <2>3. /\ Cardinality(Listed("out", recent)) \in Nat /\ Cardinality(Listed("out", recent')) \in Nat
        /\ Cardinality(Listed("out", recent')) <= Cardinality(Listed("out", recent)) + 0
    BY <1>1, <1>12
  <2>4. Cardinality(Listed("in", recent')) + Cardinality(At("list")') <= inboundCount
    BY <1>10, <2>1, <2>2
  <2>5. Cardinality(Listed("out", recent')) + Cardinality(At("listsent")') <= outboundCount
    BY <1>11, <2>1, <2>3
  <2>6. QED
    BY <1>0, <2>4, <2>5 DEF ListedCounted
<1>16. SnapshotCounts'
  BY <1>0 DEF IInv, SnapshotCounts, Listed
<1>17. QED
  BY <1>0, <1>2, <1>5, <1>6, <1>7, <1>8, <1>9, <1>13, <1>14, <1>15, <1>16, QuietKept
\* A handler between two steps that the statistics do not tell apart.
LEMMA StatsUnmoved ==
  ASSUME IInv, NEW w \in Worker, NEW old \in Label, NEW label \in Label \ {old},
         {old, label} \cap {"start", "list", "sent", "listsent"} = {},
         pc[w] = old, pc' = [pc EXCEPT ![w] = label],
         UNCHANGED <<arrivals, outbox, inboundCount, outboundCount, recent, snapshot, seen>>
  PROVE  StatsAgree' /\ ListedCounted' /\ SnapshotCounts'
<1>1. pc \in [Worker -> Label]
  BY DEF IInv, TypeOK
<1>2. \A l : l # label /\ l # old => At(l)' = At(l)
  BY <1>1, OneMoves
<1>3. \A l \in {"start", "list", "sent", "listsent"} : At(l)' = At(l)
  BY <1>2
<1>4. Replied' = Replied
  BY SentKept
<1>5. QED
  BY <1>3, <1>4, StatsKept

\* The agent answers with n chunks.
LEMMA AnswerInv ==
  ASSUME IInv, NEW w \in Worker, NEW n \in 1..MaxChunks, Answer(w, n) PROVE IInv'
<1>0. /\ TypeOK /\ pc[w] = "process" /\ pc' = [pc EXCEPT ![w] = "resolve"]
      /\ Publish("agent.completed", w) /\ Goto(w, "resolve")
      /\ chunks' = [chunks EXCEPT ![w] = n]
      /\ UNCHANGED <<arrivals, inbox, cur, target, next, seen, prefs, inboundCount,
                     outboundCount, recent, snapshot, outbox>>
  BY DEF Answer, Goto, stats, IInv
<1>1. /\ "resolve" \in Label \ {"idle", "gone"} /\ "resolve" \in Label \ {"process"}
      /\ "process" \in Label /\ "agent.completed" \in EventType
  BY DEF Label, EventType
<1>2. cur[w] # 0 /\ Passed(cur[w]) /\ cur[w] \in 1..MaxArrivals
  BY <1>0, PastFilter, HandlerOwns
<1>3. /\ pc' \in [Worker -> Label] /\ pc'[w] = "resolve"
      /\ \A v \in Worker : v # w => pc'[v] = pc[v]
      /\ \A v \in Worker : pc'[v] \in {"idle", "gone"} <=> cur'[v] = 0
  BY <1>0, <1>1, Moved
<1>4. /\ events' \in [1..MaxArrivals -> Seq(EventType)]
      /\ events'[cur[w]] = Append(events[cur[w]], "agent.completed")
      /\ \A k \in 1..MaxArrivals : k # cur[w] => events'[k] = events[k]
  BY <1>0, <1>1, <1>2, Published
<1>5. /\ chunks' \in [Worker -> 0..MaxChunks] /\ chunks'[w] = n /\ n > 0
      /\ \A v \in Worker : v # w => chunks'[v] = chunks[v]
  <2>1. n \in 0..MaxChunks /\ n > 0
    BY GatewayAssumption
  <2>2. QED
    BY <1>0, <2>1 DEF TypeOK
<1>6. Alone(w)
  BY <1>0, <1>3, <1>4, <1>5 DEF Alone
<1>7. events'[cur[w]] = Completed
  <2>1. events[cur[w]] = Begun
    BY <1>0, <1>2 DEF IInv, EventsSoFar, EventsBy
  <2>2. QED
    BY <1>4, <2>1, Histories
<1>8. EventsBy(w)' /\ Completed \in Progress
  BY <1>0, <1>3, <1>7 DEF EventsBy, Progress
<1>9. ChunksBy(w)'
  <2>1. ~Sending(w)' /\ SentBy(w)' = 0 /\ SentBy(w) = 0
    BY <1>0, <1>3 DEF Sending, SentBy
  <2>2. QED
    BY <1>0, <1>2, <1>3, <1>5, <2>1, ChunksMove
<1>10. KeysOnce'
  BY <1>0, <1>2, <1>6, KeysKept
<1>11. TypeOK'
  <2>1. Arrival' = Arrival /\ Chunk' = Chunk
    BY <1>0 DEF Arrival, Chunk, Place
  <2>2. QED
    BY <1>0, <1>3, <1>4, <1>5, <2>1 DEF TypeOK
<1>12. StatsAgree' /\ ListedCounted' /\ SnapshotCounts'
  BY <1>0, <1>1, StatsUnmoved
<1>13. QED
  BY <1>0, <1>2, <1>6, <1>7, <1>8, <1>9, <1>10, <1>11, <1>12, QuietKept

\* The reply goes to the preferred channel or to the message's own, if registered.
LEMMA ResolveInv == ASSUME IInv, NEW w \in Worker, Resolve(w) PROVE IInv'
<1>c. PICK c : c = IF prefs[Msg(w).user] = None THEN Msg(w).channel ELSE prefs[Msg(w).user]
  OBVIOUS
<1>0. /\ TypeOK /\ EventsSoFar /\ pc[w] = "resolve"
      /\ UNCHANGED <<arrivals, inbox, seen, prefs, inboundCount, outboundCount, recent,
                     snapshot, events, outbox>>
  BY DEF Resolve, stats, IInv
<1>1. /\ "send" \in Label \ {"idle", "gone"} /\ "send" \in Label \ {"resolve"}
      /\ "resolve" \in Label
  BY DEF Label
<1>2. cur[w] # 0 /\ Passed(cur[w]) /\ cur[w] \in 1..MaxArrivals
  BY <1>0, PastFilter, HandlerOwns
<1>3. events[cur[w]] = Completed /\ chunks[w] > 0 /\ chunks[w] \in 0..MaxChunks
  BY <1>0, <1>2 DEF IInv, EventsSoFar, EventsBy, ChunksSoFar, ChunksBy, TypeOK
<1>4. events'[cur[w]] \in Progress
  BY <1>0, <1>3 DEF Progress
<1>5. CASE Finish(w)
  BY <1>0, <1>2, <1>4, <1>5, FinishInv DEF TypeOK
<1>6. CASE /\ c \in Channel /\ target' = [target EXCEPT ![w] = c]
           /\ next' = [next EXCEPT ![w] = 1] /\ Goto(w, "send") /\ UNCHANGED <<cur, chunks>>
  <2>1. /\ pc' \in [Worker -> Label] /\ pc'[w] = "send"
        /\ \A v \in Worker : v # w => pc'[v] = pc[v]
        /\ \A v \in Worker : pc'[v] \in {"idle", "gone"} <=> cur'[v] = 0
    BY <1>0, <1>1, <1>6, Moved
  <2>2. /\ target' \in [Worker -> Channel \cup {None}] /\ target'[w] = c
        /\ \A v \in Worker : v # w => target'[v] = target[v]
    BY <1>0, <1>6 DEF TypeOK
  <2>3. /\ next' \in [Worker -> 0..MaxChunks] /\ next'[w] = 1
        /\ \A v \in Worker : v # w => next'[v] = next[v]
    <3>1. 1 \in 0..MaxChunks
      BY GatewayAssumption
    <3>2. QED
      BY <1>0, <1>6, <3>1 DEF TypeOK
  <2>4. Alone(w)
    BY <1>0, <1>6, <2>1, <2>2, <2>3 DEF Alone
  <2>5. EventsBy(w)'
    BY <1>0, <1>3, <1>6, <2>1, <2>3 DEF EventsBy
  <2>6. ChunksBy(w)'
    <3>1. SentBy(w)' = 0 /\ SentBy(w) = 0
      BY <1>0, <2>1, <2>3 DEF Sending, SentBy
    <3>2. next'[w] \in 1..chunks'[w]
      BY <1>3, <1>6, <2>3
    <3>3. QED
      BY <1>0, <1>2, <1>6, <2>1, <2>2, <3>1, <3>2, ChunksMove
  <2>7. KeysOnce'
    BY <1>0, <1>2, <2>4, KeysKept
  <2>8. TypeOK'
    <3>1. Arrival' = Arrival /\ Chunk' = Chunk
      BY <1>0 DEF Arrival, Chunk, Place
    <3>2. QED
      BY <1>0, <1>6, <2>1, <2>2, <2>3, <3>1 DEF TypeOK
  <2>9. StatsAgree' /\ ListedCounted' /\ SnapshotCounts'
    BY <1>0, <1>1, <1>6, StatsUnmoved DEF Goto
  <2>10. QED
    BY <1>0, <1>2, <1>4, <2>4, <2>5, <2>6, <2>7, <2>8, <2>9, QuietKept
<1>7. Finish(w) \/ /\ c \in Channel /\ target' = [target EXCEPT ![w] = c]
                   /\ next' = [next EXCEPT ![w] = 1] /\ Goto(w, "send")
                   /\ UNCHANGED <<cur, chunks>>
  BY <1>c DEF Resolve
<1>8. QED
  BY <1>5, <1>6, <1>7

\* The next chunk, or the end of the reply.
LEMMA MoreInv == ASSUME IInv, NEW w \in Worker, More(w) PROVE IInv'
<1>0. /\ TypeOK /\ EventsSoFar /\ pc[w] = "more"
      /\ UNCHANGED <<arrivals, inbox, seen, prefs, inboundCount, outboundCount, recent,
                     snapshot, events, outbox>>
  BY DEF More, stats, IInv
<1>1. /\ "send" \in Label \ {"idle", "gone"} /\ "send" \in Label \ {"more"}
      /\ "more" \in Label
  BY DEF Label
<1>2. cur[w] # 0 /\ Passed(cur[w]) /\ cur[w] \in 1..MaxArrivals
  BY <1>0, PastFilter, HandlerOwns
<1>3. /\ events[cur[w]] = Told /\ target[w] \in Channel /\ next[w] \in 1..chunks[w]
      /\ chunks[w] \in 0..MaxChunks /\ MaxChunks \in Nat
  BY <1>0, <1>2, GatewayAssumption
  DEF IInv, EventsSoFar, EventsBy, ChunksSoFar, ChunksBy, Sending, TypeOK
<1>4. events'[cur[w]] \in Progress
  BY <1>0, <1>3 DEF Progress
<1>5. CASE Finish(w)
  BY <1>0, <1>2, <1>4, <1>5, FinishInv DEF TypeOK
<1>6. CASE /\ next[w] < chunks[w] /\ next' = [next EXCEPT ![w] = @ + 1]
           /\ Goto(w, "send") /\ UNCHANGED <<cur, target, chunks>>
  <2>1. /\ pc' \in [Worker -> Label] /\ pc'[w] = "send"
        /\ \A v \in Worker : v # w => pc'[v] = pc[v]
        /\ \A v \in Worker : pc'[v] \in {"idle", "gone"} <=> cur'[v] = 0
    BY <1>0, <1>1, <1>6, Moved
  <2>2. next[w] + 1 \in 1..chunks[w] /\ next[w] + 1 \in 0..MaxChunks /\ next[w] \in Nat
        /\ next[w] > 0
    BY <1>3, <1>6
  <2>3. /\ next' \in [Worker -> 0..MaxChunks] /\ next'[w] = next[w] + 1
        /\ \A v \in Worker : v # w => next'[v] = next[v]
    BY <1>0, <1>6, <2>2 DEF TypeOK
  <2>4. Alone(w)
    BY <1>0, <1>6, <2>1, <2>3 DEF Alone
  <2>5. EventsBy(w)'
    <3>1. next'[w] # 1
      BY <2>2, <2>3
    <3>2. QED
      BY <1>0, <1>3, <1>6, <2>1, <3>1 DEF EventsBy
  <2>6. ChunksBy(w)'
    <3>1. SentBy(w)' = SentBy(w)
      <4>1. SentBy(w) = next[w]
        BY <1>0 DEF Sending, SentBy
      <4>2. SentBy(w)' = next'[w] - 1
        BY <2>1 DEF Sending, SentBy
      <4>3. QED
        BY <2>2, <2>3, <4>1, <4>2
    <3>2. next'[w] \in 1..chunks'[w] /\ target'[w] = target[w] /\ target'[w] \in Channel
      BY <1>3, <1>6, <2>2, <2>3
    <3>3. QED
      BY <1>0, <1>2, <1>6, <2>1, <3>1, <3>2, ChunksMove
  <2>7. KeysOnce'
    BY <1>0, <1>2, <2>4, KeysKept
  <2>8. TypeOK'
    <3>1. Arrival' = Arrival /\ Chunk' = Chunk
      BY <1>0 DEF Arrival, Chunk, Place
    <3>2. QED
      BY <1>0, <1>6, <2>1, <2>3, <3>1 DEF TypeOK
  <2>9. StatsAgree' /\ ListedCounted' /\ SnapshotCounts'
    BY <1>0, <1>1, <1>6, StatsUnmoved DEF Goto
  <2>10. QED
    BY <1>0, <1>2, <1>4, <2>4, <2>5, <2>6, <2>7, <2>8, <2>9, QuietKept
<1>7. QED
  BY <1>5, <1>6 DEF More
\* The first chunk counts as the outbound message.
LEMMA CountSentInv == ASSUME IInv, NEW w \in Worker, CountSent(w) PROVE IInv'
<1>0. /\ TypeOK /\ pc[w] = "sent" /\ pc' = [pc EXCEPT ![w] = "listsent"]
      /\ outboundCount' = outboundCount + 1 /\ Goto(w, "listsent")
      /\ UNCHANGED <<arrivals, inbox, cur, target, chunks, next, seen, prefs,
                     inboundCount, recent, snapshot, events, outbox>>
  BY DEF CountSent, Goto, reply, IInv
<1>1. /\ "listsent" \in Label \ {"idle", "gone"} /\ "listsent" \in Label \ {"sent"}
      /\ "sent" \in Label
  BY DEF Label
<1>2. cur[w] # 0 /\ Passed(cur[w])
  BY <1>0, PastFilter
<1>3. /\ pc' \in [Worker -> Label] /\ pc'[w] = "listsent"
      /\ \A v \in Worker : v # w => pc'[v] = pc[v]
      /\ \A v \in Worker : pc'[v] \in {"idle", "gone"} <=> cur'[v] = 0
  BY <1>0, <1>1, Moved
<1>4. Alone(w)
  BY <1>0, <1>3 DEF Alone
<1>5. /\ events[cur[w]] = Completed /\ next[w] = 1
      /\ target[w] \in Channel /\ next[w] \in 1..chunks[w]
  BY <1>0, <1>2 DEF IInv, EventsSoFar, EventsBy, ChunksSoFar, ChunksBy, Sending
<1>6. EventsBy(w)' /\ events'[cur[w]] \in Progress
  BY <1>0, <1>3, <1>5 DEF EventsBy, Progress
<1>7. ChunksBy(w)'
  <2>1. SentBy(w)' = SentBy(w)
    BY <1>0, <1>3 DEF Sending, SentBy
  <2>2. QED
    BY <1>0, <1>2, <1>3, <1>5, <2>1, ChunksMove
<1>8. KeysOnce'
  BY <1>0, <1>2, <1>4, KeysKept
<1>9. Replied' = Replied
  BY <1>0, SentKept
<1>10. /\ \A l : l # "listsent" /\ l # "sent" => At(l)' = At(l)
       /\ Cardinality(At("listsent")') = Cardinality(At("listsent")) + 1
       /\ Cardinality(At("sent")') = Cardinality(At("sent")) - 1
  <2>1. pc \in [Worker -> Label]
    BY <1>0 DEF TypeOK
  <2>2. QED
    BY <1>0, <1>1, <2>1, OneMoves
<1>11. At("start")' = At("start") /\ At("list")' = At("list")
  BY <1>10
<1>12. /\ inboundCount \in Nat /\ MaxArrivals \in Nat /\ outboundCount \in Nat
       /\ Cardinality(At("sent")) \in Nat /\ Cardinality(At("listsent")) \in Nat
       /\ Cardinality(At("sent")') \in Nat
       /\ Cardinality(Replied) \in Nat /\ Cardinality(Replied) <= MaxArrivals
       /\ inboundCount + Cardinality(At("start")) = Cardinality(seen)
       /\ outboundCount + Cardinality(At("sent")) = Cardinality(Replied)
       /\ Cardinality(Listed("out", recent)) \in Nat
       /\ Cardinality(Listed("in", recent)) + Cardinality(At("list")) <= inboundCount
       /\ Cardinality(Listed("out", recent)) + Cardinality(At("listsent")) <= outboundCount
  <2>1. Cardinality(At("sent")') \in Nat
    BY WorkersFiniteNext
  <2>2. QED
    BY <2>1, StatsFacts
<1>13. StatsAgree'
  <2>1. outboundCount' + Cardinality(At("sent")') = Cardinality(Replied')
    BY <1>0, <1>9, <1>10, <1>12
  <2>2. inboundCount' + Cardinality(At("start")') = Cardinality(seen')
    BY <1>0, <1>11, <1>12
  <2>3. QED
    BY <2>1, <2>2, StatsByLabelNext
<1>14. ListedCounted'
  <2>1. Listed("in", recent)' = Listed("in", recent) /\ Listed("out", recent)' = Listed("out", recent)
    BY <1>0 DEF Listed
  <2>2. Cardinality(Listed("out", recent)') + Cardinality(At("listsent")') <= outboundCount'
    BY <1>0, <1>10, <1>12, <2>1
  <2>3. Cardinality(Listed("in", recent)') + Cardinality(At("list")') <= inboundCount'
    BY <1>0, <1>11, <1>12, <2>1
  <2>4. QED
    BY <2>2, <2>3 DEF ListedCounted
<1>15. SnapshotCounts'
  <2>1. inboundCount' \in Nat /\ inboundCount <= inboundCount' /\ outboundCount' \in Nat
        /\ outboundCount <= outboundCount'
    BY <1>0, <1>12
  <2>2. QED
    BY <1>0, <2>1, SnapshotKept
<1>16. TypeOK'
  <2>1. Arrival' = Arrival /\ Chunk' = Chunk
    BY <1>0 DEF Arrival, Chunk, Place
  <2>2. outboundCount' \in 0..MaxArrivals
    <3>1. outboundCount' \in Nat /\ outboundCount' + Cardinality(At("sent")') = Cardinality(Replied)
      BY <1>0, <1>10, <1>12
    <3>2. QED
      BY <1>12, <3>1
  <2>3. QED
    BY <1>0, <1>3, <2>1, <2>2 DEF TypeOK
<1>17. QED
  BY <1>0, <1>2, <1>4, <1>6, <1>7, <1>8, <1>13, <1>14, <1>15, <1>16, QuietKept

\* It is listed, and message.sent is published.
LEMMA SentInv == ASSUME IInv, NEW w \in Worker, Sent(w) PROVE IInv'
<1>0. /\ TypeOK /\ pc[w] = "listsent" /\ pc' = [pc EXCEPT ![w] = "more"]
      /\ addRecent("out") /\ Publish("message.sent", w) /\ Goto(w, "more")
      /\ UNCHANGED <<arrivals, inbox, cur, target, chunks, next, seen, prefs,
                     inboundCount, outboundCount, snapshot, outbox>>
  BY DEF Sent, Goto, reply, IInv
<1>1. /\ "more" \in Label \ {"idle", "gone"} /\ "more" \in Label \ {"listsent"}
      /\ "listsent" \in Label /\ "message.sent" \in EventType
      /\ "in" \in Direction /\ "out" \in Direction
  BY DEF Label, EventType, Direction
<1>2. cur[w] # 0 /\ Passed(cur[w]) /\ cur[w] \in 1..MaxArrivals
  BY <1>0, PastFilter, HandlerOwns
<1>3. /\ pc' \in [Worker -> Label] /\ pc'[w] = "more"
      /\ \A v \in Worker : v # w => pc'[v] = pc[v]
      /\ \A v \in Worker : pc'[v] \in {"idle", "gone"} <=> cur'[v] = 0
  BY <1>0, <1>1, Moved
<1>4. /\ events' \in [1..MaxArrivals -> Seq(EventType)]
      /\ events'[cur[w]] = Append(events[cur[w]], "message.sent")
      /\ \A n \in 1..MaxArrivals : n # cur[w] => events'[n] = events[n]
  BY <1>0, <1>1, <1>2, Published
<1>5. Alone(w)
  BY <1>0, <1>3, <1>4 DEF Alone
<1>6. events'[cur[w]] = Told
  <2>1. events[cur[w]] = Completed
    BY <1>0, <1>2 DEF IInv, EventsSoFar, EventsBy
  <2>2. QED
    BY <1>4, <2>1, Histories
<1>7. EventsBy(w)' /\ Told \in Progress
  BY <1>0, <1>3, <1>6 DEF EventsBy, Progress
<1>8. ChunksBy(w)'
  <2>1. SentBy(w)' = SentBy(w)
    BY <1>0, <1>3 DEF Sending, SentBy
  <2>2. target[w] \in Channel /\ next[w] \in 1..chunks[w]
    BY <1>0 DEF IInv, ChunksSoFar, ChunksBy, Sending
  <2>3. QED
    BY <1>0, <1>2, <1>3, <2>1, <2>2, ChunksMove
<1>9. KeysOnce'
  BY <1>0, <1>2, <1>5, KeysKept
<1>10. /\ \A l : l # "more" /\ l # "listsent" => At(l)' = At(l)
       /\ Cardinality(At("listsent")') = Cardinality(At("listsent")) - 1
  <2>1. pc \in [Worker -> Label]
    BY <1>0 DEF TypeOK
  <2>2. QED
    BY <1>0, <1>1, <2>1, OneMoves
<1>11. /\ At("start")' = At("start") /\ At("sent")' = At("sent")
       /\ At("list")' = At("list")
  BY <1>10
<1>12. /\ recent' \in Seq(Direction) /\ Len(recent') <= RecentCap
       /\ \A x \in Direction :
            /\ Cardinality(Listed(x, recent)) \in Nat
            /\ Cardinality(Listed(x, recent')) \in Nat
            /\ Cardinality(Listed(x, recent')) <=
                 Cardinality(Listed(x, recent)) + (IF x = "out" THEN 1 ELSE 0)
  BY <1>0, <1>1, OneListed DEF TypeOK
<1>13. TypeOK'
  <2>1. Arrival' = Arrival /\ Chunk' = Chunk
    BY <1>0 DEF Arrival, Chunk, Place
  <2>2. QED
    BY <1>0, <1>3, <1>4, <1>12, <2>1 DEF TypeOK
<1>14. StatsAgree'
  <2>1. Replied' = Replied
    BY <1>0, SentKept
  <2>2. /\ inboundCount' + Cardinality(At("start")') = Cardinality(seen')
        /\ outboundCount' + Cardinality(At("sent")') = Cardinality(Replied')
    BY <1>0, <1>11, <2>1, StatsFacts
  <2>3. QED
    BY <2>2, StatsByLabelNext
<1>15. ListedCounted'
  <2>1. /\ Cardinality(At("list")) \in Nat /\ Cardinality(At("listsent")) \in Nat
        /\ inboundCount \in Nat /\ outboundCount \in Nat
        /\ Cardinality(Listed("in", recent)) + Cardinality(At("list")) <= inboundCount
        /\ Cardinality(Listed("out", recent)) + Cardinality(At("listsent")) <= outboundCount
    BY StatsFacts
  <2>2. /\ Cardinality(Listed("in", recent)) \in Nat /\ Cardinality(Listed("in", recent')) \in Nat
        /\ Cardinality(Listed("in", recent')) <= Cardinality(Listed("in", recent)) + 0
    BY <1>1, <1>12
  <2>3. /\ Cardinality(Listed("out", recent)) \in Nat /\ Cardinality(Listed("out", recent')) \in Nat
        /\ Cardinality(Listed("out", recent')) <= Cardinality(Listed("out", recent)) + 1
    BY <1>1, <1>12
  <2>4. Cardinality(Listed("in", recent')) + Cardinality(At("list")') <= inboundCount
    BY <1>11, <2>1, <2>2
  <2>5. Cardinality(Listed("out", recent')) + Cardinality(At("listsent")') <= outboundCount
    BY <1>10, <2>1, <2>3
  <2>6. QED
    BY <1>0, <2>4, <2>5 DEF ListedCounted
<1>16. SnapshotCounts'
  BY <1>0 DEF IInv, SnapshotCounts, Listed
<1>17. QED
  BY <1>0, <1>2, <1>5, <1>6, <1>7, <1>8, <1>9, <1>13, <1>14, <1>15, <1>16, QuietKept

\* A chunk goes out: the next one of the reply, and nothing later went before it.
LEMMA SendChunkInv == ASSUME IInv, NEW w \in Worker, SendChunk(w) PROVE IInv'
<1>l. PICK label : label = IF next[w] = 1 THEN "sent" ELSE "more"
  OBVIOUS
<1>c. PICK c : c = target[w]
  OBVIOUS
<1>n. PICK n : n = cur[w]
  OBVIOUS
<1>k. PICK k : k = next[w]
  OBVIOUS
<1>s. PICK s : s = [arrival |-> n, chunk |-> k, to |-> Address(c, Msg(w))]
  OBVIOUS
<1>0. /\ TypeOK /\ pc[w] = "send" /\ pc' = [pc EXCEPT ![w] = label] /\ Goto(w, label)
      /\ outbox' = [outbox EXCEPT ![c] = Append(@, s)]
      /\ UNCHANGED <<arrivals, inbox, cur, target, chunks, next, seen, prefs,
                     inboundCount, outboundCount, recent, snapshot, events>>
  BY <1>l, <1>c, <1>n, <1>k, <1>s DEF SendChunk, Goto, reply, stats, IInv
<1>1. /\ label \in Label \ {"idle", "gone"} /\ label \in Label \ {"send"} /\ "send" \in Label
  BY <1>l DEF Label
<1>2. /\ cur[w] # 0 /\ Passed(cur[w]) /\ n \in Arrival /\ n \in 1..MaxArrivals
      /\ Msg(w) \in Message
  BY <1>0, <1>n, PastFilter, HandlerOwns
<1>3. /\ c \in Channel /\ k \in 1..chunks[w] /\ chunks[w] \in 0..MaxChunks /\ MaxChunks \in Nat
      /\ \A d \in Channel : NumbersOf(n, d) = IF d = c THEN 1..(k - 1) ELSE {}
  BY <1>0, <1>2, <1>c, <1>n, <1>k, GatewayAssumption
  DEF IInv, ChunksSoFar, ChunksBy, Sending, SentBy, TypeOK
<1>4. k \in Nat /\ k > 0 /\ k \in 1..MaxChunks /\ k - 1 \in Nat
  BY <1>3
<1>5. s \in Chunk /\ s.arrival = n /\ s.chunk = k
  <2>1. Address(c, Msg(w)) \in Place
    BY <1>2, <1>3 DEF Address, Place
  <2>2. QED
    BY <1>2, <1>4, <1>s, <2>1 DEF Chunk
<1>6. /\ pc' \in [Worker -> Label] /\ pc'[w] = label
      /\ \A v \in Worker : v # w => pc'[v] = pc[v]
      /\ \A v \in Worker : pc'[v] \in {"idle", "gone"} <=> cur'[v] = 0
  BY <1>0, <1>1, Moved
<1>7. Alone(w)
  BY <1>0, <1>6 DEF Alone
<1>8. outbox \in [Channel -> Seq(Chunk)]
  BY <1>0 DEF TypeOK
<1>9. /\ outbox' \in [Channel -> Seq(Chunk)]
      /\ \A d \in Channel : d # c => outbox'[d] = outbox[d]
      /\ Len(outbox[c]) + 1 \notin DOMAIN outbox[c]
      /\ DOMAIN outbox'[c] = DOMAIN outbox[c] \cup {Len(outbox[c]) + 1}
      /\ \A i \in DOMAIN outbox[c] : /\ outbox'[c][i] = outbox[c][i]
                                     /\ i \in Nat /\ i < Len(outbox[c]) + 1
      /\ outbox'[c][Len(outbox[c]) + 1] = s
  BY <1>0, <1>3, <1>5, <1>8, OneChunk
<1>10. ASSUME NEW m, NEW d \in Channel
       PROVE  /\ d # c \/ m # n =>
                   ChunksOf(m, d)' = ChunksOf(m, d) /\ NumbersOf(m, d)' = NumbersOf(m, d)
              /\ d = c /\ m = n =>
                   /\ ChunksOf(m, d)' = ChunksOf(m, d) \cup {Len(outbox[c]) + 1}
                   /\ NumbersOf(m, d)' = NumbersOf(m, d) \cup {k}
  <2>1. \A x : \A e \in Channel :
          /\ e # c \/ x # s.arrival =>
               ChunksOf(x, e)' = ChunksOf(x, e) /\ NumbersOf(x, e)' = NumbersOf(x, e)
          /\ e = c /\ x = s.arrival =>
               /\ ChunksOf(x, e)' = ChunksOf(x, e) \cup {Len(outbox[c]) + 1}
               /\ NumbersOf(x, e)' = NumbersOf(x, e) \cup {s.chunk}
    <3>1. outbox' = [outbox EXCEPT ![c] = Append(@, s)] /\ s \in Chunk /\ c \in Channel
      BY <1>0, <1>3, <1>5
    <3>2. QED
      BY <1>8, <3>1, ChunkNumbers, Zenon
  <2>2. s.arrival = n /\ s.chunk = k
    BY <1>5
  <2>3. QED
    BY <2>1, <2>2
<1>z. PICK z : z = Len(outbox[c]) + 1
  OBVIOUS
<1>11. (1..(k - 1)) \cup {k} = 1..k
  BY <1>4
<1>12. /\ \A d \in Channel : d # c => ChunksOf(n, d)' = {} /\ NumbersOf(n, d)' = {}
       /\ ChunksOf(n, c)' = ChunksOf(n, c) \cup {z} /\ NumbersOf(n, c)' = 1..k
  <2>1. \A d \in Channel : d # c => NumbersOf(n, d) = {} /\ ChunksOf(n, d) = {}
    BY <1>3, NumbersEmpty
  <2>2. \A d \in Channel : d # c => ChunksOf(n, d)' = {} /\ NumbersOf(n, d)' = {}
    BY <1>10, <2>1
  <2>3. ChunksOf(n, c)' = ChunksOf(n, c) \cup {z} /\ NumbersOf(n, c)' = NumbersOf(n, c) \cup {k}
    BY <1>3, <1>10, <1>z
  <2>4. QED
    BY <1>3, <1>11, <2>2, <2>3
<1>13. /\ events[n] = IF k = 1 THEN Completed ELSE Told
       /\ EventsBy(w)' /\ events'[cur[w]] \in Progress
  <2>1. k = 1 \/ k > 1
    BY <1>4
  <2>2. events[n] = IF k = 1 THEN Completed ELSE Told
    BY <1>0, <1>2, <1>n, <1>k, <2>1 DEF IInv, EventsSoFar, EventsBy
  <2>3. EventsBy(w)'
    BY <1>0, <1>6, <1>l, <1>n, <1>k, <2>2 DEF EventsBy
  <2>4. QED
    BY <1>0, <1>n, <2>2, <2>3 DEF Progress
<1>14. ChunksBy(w)'
  <2>1. SentBy(w)' = k /\ target'[w] = c /\ next'[w] = k /\ chunks'[w] = chunks[w]
    BY <1>0, <1>6, <1>l, <1>c, <1>k DEF SentBy, Sending
  <2>2. ASSUME NEW d \in Channel
        PROVE  NumbersOf(cur[w], d)' = IF d = c THEN 1..k ELSE {}
    <3>1. NumbersOf(cur[w], d)' = NumbersOf(n, d)'
      BY <1>0, <1>n DEF NumbersOf, ChunksOf
    <3>2. QED
      BY <1>12, <3>1
  <2>3. pc'[w] \in {"sent", "listsent"} => next'[w] = 1
    BY <1>6, <1>l, <1>k, <2>1
  <2>4. pc'[w] # "resolve"
    BY <1>6, <1>l
  <2>5. QED
    BY <1>3, <2>1, <2>2, <2>3, <2>4 DEF ChunksBy
<1>15. Owned' /\ QueuedFresh' /\ EventsSoFar' /\ ChunksSoFar'
  <2>1. \A m \in Arrival : m # cur[w] =>
          \A d \in Channel : /\ ChunksOf(m, d)' = ChunksOf(m, d)
                             /\ NumbersOf(m, d)' = NumbersOf(m, d)
    BY <1>10, <1>n
  <2>2. QED
    BY <1>2, <1>7, <1>13, <1>14, <2>1, OthersKept
<1>16. KeysOnce'
  BY <1>0, <1>2, <1>7, KeysKept
<1>17. Arrival' = Arrival /\ Chunk' = Chunk
  BY <1>0 DEF Arrival, Chunk, Place
<1>18. TypeOK'
  BY <1>0, <1>6, <1>9, <1>17 DEF TypeOK
<1>19. ReplyInOrder'
  <2>0. ReplyInOrder
    BY DEF IInv
  <2>1. ASSUME NEW m \in Arrival, NEW d \in Channel
        PROVE  /\ \A i, j \in ChunksOf(m, d)' : i < j => outbox'[d][i].chunk < outbox'[d][j].chunk
               /\ \E b \in 0..MaxChunks : NumbersOf(m, d)' = 1..b
               /\ ChunksOf(m, d)' # {} => \A e \in Channel \ {d} : ChunksOf(m, e)' = {}
    <3>1. CASE m = n /\ d = c
      <4>1. k \in 0..MaxChunks /\ NumbersOf(m, d)' = 1..k
        BY <1>4, <1>12, <3>1
      <4>2. \A e \in Channel \ {d} : ChunksOf(m, e)' = {}
        BY <1>12, <3>1
      <4>3. ASSUME NEW i \in ChunksOf(m, d)', NEW j \in ChunksOf(m, d)', i < j
            PROVE  outbox'[d][i].chunk < outbox'[d][j].chunk
        <5>1. \A x \in ChunksOf(n, c) : x \in DOMAIN outbox[c] /\ outbox[c][x].chunk \in 1..(k - 1)
          BY <1>3 DEF NumbersOf, ChunksOf
        <5>2. i \in ChunksOf(n, c)
          BY <1>9, <1>12, <1>z, <3>1, <4>3, <5>1
        <5>3. CASE j \in ChunksOf(n, c)
          <6>1. outbox[c][i].chunk < outbox[c][j].chunk
            BY <1>2, <1>3, <2>0, <4>3, <5>2, <5>3 DEF ReplyInOrder
          <6>2. QED
            BY <1>9, <3>1, <5>1, <5>2, <5>3, <6>1
        <5>4. CASE j = z
          <6>1. outbox'[c][j].chunk = k /\ outbox'[c][i] = outbox[c][i]
            BY <1>5, <1>9, <1>z, <5>1, <5>2, <5>4
          <6>2. QED
            BY <1>4, <3>1, <5>1, <5>2, <6>1
        <5>5. QED
          BY <1>12, <3>1, <4>3, <5>3, <5>4
      <4>4. QED
        BY <4>1, <4>2, <4>3
    <3>2. CASE m = n /\ d # c
      <4>1. 0 \in 0..MaxChunks /\ 1..0 = {}
        BY <1>3
      <4>2. QED
        BY <1>12, <3>2, <4>1
    <3>3. CASE m # n
      <4>1. /\ \A i, j \in ChunksOf(m, d) : i < j => outbox[d][i].chunk < outbox[d][j].chunk
            /\ \E b \in 0..MaxChunks : NumbersOf(m, d) = 1..b
            /\ ChunksOf(m, d) # {} => \A e \in Channel \ {d} : ChunksOf(m, e) = {}
        BY <2>0 DEF ReplyInOrder
      <4>2. \A e \in Channel : ChunksOf(m, e)' = ChunksOf(m, e) /\ NumbersOf(m, e)' = NumbersOf(m, e)
        BY <1>10, <3>3
      <4>3. \A i \in ChunksOf(m, d) : outbox'[d][i] = outbox[d][i]
        BY <1>9 DEF ChunksOf
      <4>4. QED
        BY <4>1, <4>2, <4>3
    <3>4. QED
      BY <3>1, <3>2, <3>3
  <2>2. QED
    BY <1>17, <2>1 DEF ReplyInOrder
<1>20. \A d \in Channel : \A i \in DOMAIN outbox'[d] :
         \/ i \in DOMAIN outbox[d] /\ outbox'[d][i] = outbox[d][i]
         \/ d = c /\ i = z /\ outbox'[d][i] = s
  BY <1>9, <1>z
<1>21. arrivals[n].meta = (IF w \in Channel THEN w ELSE None) /\ n \in Nat
  <2>1. Owned /\ n # 0
    BY <1>2, <1>n DEF IInv
  <2>2. n \in Nat
    BY <1>2, GatewayAssumption
  <2>3. QED
    BY <2>1, <2>2, <1>n, GatewayAssumption DEF Owned, Worker
<1>22. SentInOrder'
  <2>1. ASSUME NEW b \in Channel, NEW d \in Channel, NEW i \in DOMAIN outbox'[b],
               arrivals[outbox'[b][i].arrival].meta = d
        PROVE  /\ cur[d] # 0 => outbox'[b][i].arrival <= cur[d]
               /\ \A x \in DOMAIN inbox[d] : outbox'[b][i].arrival < inbox[d][x]
    <3>1. CASE i \in DOMAIN outbox[b] /\ outbox'[b][i] = outbox[b][i]
      BY <2>1, <3>1 DEF IInv, SentInOrder
    <3>2. CASE outbox'[b][i] = s
      <4>1. d = w
        BY <1>5, <1>21, <2>1, <3>2, GatewayAssumption
      <4>2. \A x \in DOMAIN inbox[d] : n < inbox[d][x]
        BY <1>2, <1>n, <4>1 DEF IInv, Owned
      <4>3. QED
        BY <1>5, <1>21, <1>n, <3>2, <4>1, <4>2
    <3>3. QED
      BY <1>20, <3>1, <3>2
  <2>2. QED
    BY <1>0, <2>1 DEF SentInOrder
<1>23. RepliesInArrivalOrder'
  <2>1. ASSUME NEW d \in Channel, NEW i \in DOMAIN outbox'[d], NEW j \in DOMAIN outbox'[d],
               i < j, arrivals[outbox'[d][i].arrival].meta # None,
               arrivals[outbox'[d][i].arrival].meta = arrivals[outbox'[d][j].arrival].meta
        PROVE  outbox'[d][i].arrival <= outbox'[d][j].arrival
    <3>1. i \in DOMAIN outbox[d] /\ outbox'[d][i] = outbox[d][i]
      <4>1. CASE d # c
        BY <1>9, <4>1
      <4>2. CASE d = c
        BY <1>9, <2>1, <4>2
      <4>3. QED
        BY <4>1, <4>2
    <3>2. CASE j \in DOMAIN outbox[d] /\ outbox'[d][j] = outbox[d][j]
      BY <2>1, <3>1, <3>2 DEF IInv, RepliesInArrivalOrder
    <3>3. CASE outbox'[d][j] = s
      <4>1. /\ arrivals[n].meta # None /\ arrivals[outbox[d][i].arrival].meta = arrivals[n].meta
        BY <1>5, <2>1, <3>1, <3>3
      <4>2. w \in Channel /\ arrivals[outbox[d][i].arrival].meta = w
        BY <1>21, <4>1
      <4>3. outbox[d][i].arrival <= n
        BY <1>2, <1>n, <3>1, <4>2 DEF IInv, SentInOrder
      <4>4. QED
        BY <1>5, <3>1, <3>3, <4>3
    <3>4. QED
      BY <1>20, <3>2, <3>3
  <2>2. arrivals' = arrivals
    BY <1>0
  <2>3. \A d \in Channel : \A i, j \in DOMAIN outbox'[d] :
          i < j /\ arrivals'[outbox'[d][i].arrival].meta # None
          /\ arrivals'[outbox'[d][i].arrival].meta = arrivals'[outbox'[d][j].arrival].meta
          => outbox'[d][i].arrival <= outbox'[d][j].arrival
    BY <2>1, <2>2
  <2>4. QED
    BY <2>3 DEF RepliesInArrivalOrder
<1>24. /\ \A l : l # label /\ l # "send" => At(l)' = At(l)
       /\ Cardinality(At(label)') = Cardinality(At(label)) + 1
  <2>1. pc \in [Worker -> Label]
    BY <1>0 DEF TypeOK
  <2>2. QED
    BY <1>0, <1>1, <2>1, OneMoves
<1>25. /\ At("start")' = At("start") /\ At("list")' = At("list")
       /\ At("listsent")' = At("listsent") /\ (k # 1 => At("sent")' = At("sent"))
  BY <1>24, <1>l, <1>k
<1>26. Replied' = Replied \cup {n} /\ (n \in Replied <=> k # 1)
  <2>1. \A m \in Arrival : m # n => (m \in Replied' <=> m \in Replied)
    BY <1>10, <1>17 DEF Replied
  <2>2. n \in Replied'
    BY <1>2, <1>3, <1>12, <1>17 DEF Replied
  <2>3. ChunksOf(n, c) = {} <=> k = 1
    <3>1. ChunksOf(n, c) = {} <=> 1..(k - 1) = {}
      BY <1>3, NumbersEmpty
    <3>2. 1..(k - 1) = {} <=> k = 1
      BY <1>4
    <3>3. QED
      BY <3>1, <3>2
  <2>4. \A d \in Channel : d # c => ChunksOf(n, d) = {}
    BY <1>3, NumbersEmpty
  <2>5. n \in Replied <=> k # 1
    BY <1>2, <1>3, <2>3, <2>4 DEF Replied
  <2>6. Replied \subseteq Arrival /\ Replied' \subseteq Arrival
    BY <1>17 DEF Replied
  <2>7. QED
    BY <1>2, <2>1, <2>2, <2>5, <2>6
<1>27. StatsAgree'
  <2>1. /\ inboundCount + Cardinality(At("start")) = Cardinality(seen)
        /\ outboundCount + Cardinality(At("sent")) = Cardinality(Replied)
        /\ outboundCount \in Nat /\ Cardinality(At("sent")) \in Nat
        /\ Cardinality(Replied) \in Nat
    BY StatsFacts
  <2>2. inboundCount' + Cardinality(At("start")') = Cardinality(seen')
    BY <1>0, <1>25, <2>1
  <2>3. outboundCount' + Cardinality(At("sent")') = Cardinality(Replied')
    <3>1. CASE k = 1
      <4>1. IsFiniteSet(Replied)
        BY <1>0, RepliesBounded DEF TypeOK
      <4>2. Cardinality(Replied \cup {n}) = Cardinality(Replied) + 1
        BY <1>26, <3>1, <4>1, FS_AddElement
      <4>3. label = "sent"
        BY <1>l, <1>k, <3>1
      <4>4. Cardinality(Replied') = Cardinality(Replied) + 1
        BY <1>26, <4>2
      <4>5. Cardinality(At("sent")') = Cardinality(At("sent")) + 1
        BY <1>24, <4>3
      <4>6. QED
        BY <1>0, <2>1, <4>4, <4>5
    <3>2. CASE k # 1
      <4>1. Replied' = Replied /\ At("sent")' = At("sent")
        BY <1>25, <1>26, <3>2
      <4>2. QED
        BY <1>0, <2>1, <4>1
    <3>3. QED
      BY <3>1, <3>2
  <2>4. QED
    BY <2>2, <2>3, StatsByLabelNext
<1>28. ListedCounted' /\ SnapshotCounts'
  BY <1>0, <1>25 DEF IInv, ListedCounted, SnapshotCounts, Listed
<1>29. QED
  BY <1>15, <1>16, <1>18, <1>19, <1>22, <1>23, <1>27, <1>28 DEF IInv
LEMMA StepInv == IInv /\ [Next]_vars => IInv'
<1> SUFFICES ASSUME IInv, [Next]_vars PROVE IInv'
  OBVIOUS
<1>1. CASE UNCHANGED vars
  <2>1. UNCHANGED <<arrivals, inbox, pc, cur, target, chunks, next, seen, prefs, inboundCount,
                    outboundCount, recent, snapshot, cancelled, events, outbox>>
    BY <1>1 DEF vars
  <2>2. Arrival' = Arrival /\ Chunk' = Chunk
    BY <2>1 DEF Arrival, Chunk, Place
  <2>3. TypeOK' /\ Owned' /\ QueuedFresh' /\ EventsSoFar'
    <3>1. TypeOK'
      BY <2>1, <2>2 DEF IInv, TypeOK
    <3>2. Owned' /\ QueuedFresh'
      BY <2>1 DEF IInv, Owned, QueuedFresh, ChunksOf
    <3>3. EventsSoFar'
      BY <2>1 DEF IInv, EventsSoFar, EventsBy
    <3>4. QED
      BY <3>1, <3>2, <3>3
  <2>4. KeysOnce'
    BY <2>1, <2>2 DEF IInv, KeysOnce, Passed
  <2>5. ChunksSoFar' /\ SentInOrder'
    BY <2>1 DEF IInv, ChunksSoFar, ChunksBy, NumbersOf, ChunksOf, Sending, SentBy, SentInOrder
  <2>6. ReplyInOrder' /\ RepliesInArrivalOrder' /\ Replied' = Replied
    BY <2>1, SentKept
  <2>7. StatsAgree' /\ ListedCounted' /\ SnapshotCounts'
    <3>1. \A l \in {"start", "list", "sent", "listsent"} : At(l)' = At(l)
      BY <2>1 DEF At
    <3>2. QED
      BY <2>1, <2>6, <3>1, StatsKept
  <2>8. QED
    BY <2>3, <2>4, <2>5, <2>6, <2>7 DEF IInv
<1>2. ASSUME NEW m \in Inbound, Arrive(m) PROVE IInv'
  BY <1>2, ArriveInv
<1>3. ASSUME NEW c \in Channel, Receive(c) PROVE IInv'
  BY <1>3, ReceiveInv
<1>4. ASSUME NEW j \in Job, Fire(j) PROVE IInv'
  BY <1>4, FireInv
<1>5. ASSUME NEW w \in Worker, Handle(w) PROVE IInv'
  <2>1. CASE Dedup(w)
    BY <2>1, DedupInv
  <2>2. CASE Count(w)
    BY <2>2, CountInv
  <2>3. CASE Start(w)
    BY <2>3, StartInv
  <2>4. CASE \E n \in 1..MaxChunks : Answer(w, n)
    BY <2>4, AnswerInv
  <2>5. CASE Fail(w) \/ SendFails(w)
    BY <2>5, FailsInv
  <2>6. CASE Resolve(w)
    BY <2>6, ResolveInv
  <2>7. CASE SendChunk(w)
    BY <2>7, SendChunkInv
  <2>8. CASE CountSent(w)
    BY <2>8, CountSentInv
  <2>9. CASE Sent(w)
    BY <2>9, SentInv
  <2>10. CASE More(w)
    BY <2>10, MoreInv
  <2>11. QED
    BY <1>5, <2>1, <2>2, <2>3, <2>4, <2>5, <2>6, <2>7, <2>8, <2>9, <2>10 DEF Handle
<1>6. ASSUME \/ \E w \in Worker : LoopEnds(w)
             \/ \E u \in User, c \in Preference \cup {None} : SetPreference(u, c)
             \/ CopyRecent \/ LoadCounters \/ Cancel
      PROVE  IInv'
  BY <1>6, SideInv
<1>7. QED
  BY <1>1, <1>2, <1>3, <1>4, <1>5, <1>6 DEF Next

LEMMA Always == Spec => []IInv
BY InitInv, StepInv, PTL DEF Spec

-----------------------------------------------------------------------------
(* What the invariant says of the pipeline.                                  *)

\* Every history so far is the beginning of one of the two whole ones.
LEMMA Beginnings ==
  ASSUME NEW h \in Progress
  PROVE  \E whole \in {<<"agent.started", "agent.error">>,
                       <<"agent.started", "agent.completed", "message.sent">>} :
           IsPrefix(h, whole)
<1>1. IsPrefix(<< >>, Told)
  <2>1. Len(<< >>) <= Len(Told) /\ SubSeq(<< >>, 1, Len(<< >>)) = SubSeq(Told, 1, Len(<< >>))
    BY DEF Told
  <2>2. QED
    BY <2>1 DEF IsPrefix
<1>2. IsPrefix(Begun, Told)
  BY DEF IsPrefix, Begun, Told
<1>3. IsPrefix(Failed, Failed)
  BY DEF IsPrefix, Failed
<1>4. IsPrefix(Completed, Told)
  BY DEF IsPrefix, Completed, Told
<1>5. IsPrefix(Told, Told)
  BY DEF IsPrefix, Told
<1>6. QED
  BY <1>1, <1>2, <1>3, <1>4, <1>5 DEF Progress, Failed, Told

\* Whatever is delivered, however often and by whom, at any speed of the loops and
\* jobs: the agent is run for a key at most once, and the events of each message
\* come in their order.  receiveMessages and handleMessageReceived of gateway.go.
THEOREM EventsInOrder == Spec => []EventInv
<1>1. ASSUME IInv PROVE EventInv
  <2>1. TypeOK /\ EventsSoFar /\ KeysOnce
    BY <1>1 DEF IInv
  <2>2. Arrival \subseteq 1..MaxArrivals
    BY <2>1, GatewayAssumption DEF TypeOK, Arrival
  <2>3. EventOrder
    <3>1. \A n \in Arrival : events[n] \in Progress
      BY <2>1, <2>2 DEF EventsSoFar, Progress
    <3>2. QED
      BY <3>1, Beginnings DEF EventOrder
  <2>4. ProcessedOnce
    <3>1. ASSUME NEW n \in Arrival, Happened("agent.started", n) PROVE Passed(n)
      <4>1. events[n] # << >>
        BY <3>1 DEF Happened
      <4>2. QED
        BY <4>1 DEF Passed
    <3>2. QED
      BY <2>1, <3>1 DEF KeysOnce, ProcessedOnce
  <2>5. QED
    BY <2>1, <2>3, <2>4 DEF EventInv
<1>2. QED
  BY <1>1, Always, PTL

\* A reply goes to one channel, in order and without a gap, and the replies to the
\* messages of one channel never overtake one another.  The chunk loop of
\* handleMessageReceived, and the receive loops' one message at a time.
THEOREM OrderlyReplies == Spec => []RepliesInOrder
<1>1. IInv => RepliesInOrder
  BY DEF IInv, RepliesInOrder
<1>2. QED
  BY <1>1, Always, PTL

\* The counters count each message run and each reply begun, once.  Stats.
THEOREM StatsCount == Spec => []StatsAgree
<1>1. IInv => StatsAgree
  BY DEF IInv
<1>2. QED
  BY <1>1, Always, PTL

\* A snapshot never lists more than its counters say, though it is not taken in one
\* step.  Stats.Snapshot, and the order of RecordInbound's and RecordOutbound's writes.
THEOREM SnapshotCovered == Spec => []SnapshotCounts
<1>1. IInv => SnapshotCounts
  BY DEF IInv
<1>2. QED
  BY <1>1, Always, PTL
=============================================================================
