---------------------------- MODULE Deduplicator ----------------------------
(***************************************************************************)
(* The gateway's duplicate filter (internal/gateway/deduplicator.go): a    *)
(* ring of the last Size recorded keys, an index from key to the time it   *)
(* was recorded, and a TTL.  Every call of Seen runs under one mutex, so   *)
(* it is one step; receive loops of different channels interleave between  *)
(* calls, and the wall clock advances between calls.                       *)
(***************************************************************************)
EXTENDS Integers, Sequences

CONSTANTS
  Message,     \* inbound messages: [id, channel, user, content]
  NoId,        \* the empty message ID (channels that assign none)
  Size,        \* capacity of the ring
  TTL,         \* how long a recorded key counts as seen
  MaxClock,    \* bound: the clock stops here
  MaxAccepted  \* bound: the number of messages recorded as first seen

ASSUME DedupAssumption ==
  /\ Size \in Nat \ {0}
  /\ TTL \in Nat \ {0}
  /\ MaxClock \in Nat
  /\ MaxAccepted \in Nat

VARIABLES
  now,       \* the wall clock
  index,     \* key -> time it was recorded, for the keys not forgotten
  ring,      \* slot -> key, Empty when never written
  head,      \* next slot to write
  accepted,  \* history: the keys recorded, oldest first, with their time
  answer     \* history: the last call of Seen and what it returned

vars == <<now, index, ring, head, accepted, answer>>

Slot == 0..(Size - 1)
Empty == << >>

\* The key of a message.  The code hashes channel, user and content when there
\* is no ID; the hash is taken to be injective on the messages considered.
dedupKey(m) ==
  IF m.id # NoId THEN <<m.id>> ELSE <<m.channel, m.user, m.content>>

Key == {dedupKey(m) : m \in Message}

-----------------------------------------------------------------------------
Init ==
  /\ now = 0
  /\ index = [k \in {} |-> 0]
  /\ ring = [i \in Slot |-> Empty]
  /\ head = 0
  /\ accepted = << >>
  /\ answer = [dup |-> FALSE]

\* Time passes between calls.
Tick ==
  /\ now < MaxClock
  /\ now' = now + 1
  /\ UNCHANGED <<index, ring, head, accepted, answer>>

\* Mutants of Fresh and Record: an entry outlives its window by one tick;
\* nothing is evicted; the key of the wrong slot is evicted.
FreshTooLong(key) == key \in DOMAIN index /\ now - index[key] <= TTL

RecordNoEviction(key) ==
  /\ index' = [k \in DOMAIN index \cup {key} |->
                 IF k = key THEN now ELSE index[k]]
  /\ ring' = [ring EXCEPT ![head] = key]
  /\ head' = (head + 1) % Size

RecordWrongEviction(key) ==
  /\ index' = [k \in (DOMAIN index \ {ring[(head + 1) % Size]}) \cup {key} |->
                 IF k = key THEN now ELSE index[k]]
  /\ ring' = [ring EXCEPT ![head] = key]
  /\ head' = (head + 1) % Size

Fresh(key) == key \in DOMAIN index /\ now - index[key] < TTL

\* Recording a key frees the slot at head: whatever key that slot names leaves
\* the index.  An expired entry of the key itself is replaced.
Record(key) ==
  /\ index' = [k \in (DOMAIN index \ {ring[head]}) \cup {key} |->
                 IF k = key THEN now ELSE index[k]]
  /\ ring' = [ring EXCEPT ![head] = key]
  /\ head' = (head + 1) % Size

SeenDuplicate(m) ==
  /\ Fresh(dedupKey(m))
  /\ answer' = [dup |-> TRUE, msg |-> m, at |-> now]
  /\ UNCHANGED <<now, index, ring, head, accepted>>

SeenFirst(m) ==
  /\ ~Fresh(dedupKey(m))
  /\ Len(accepted) < MaxAccepted
  /\ Record(dedupKey(m))
  /\ accepted' = Append(accepted, [key |-> dedupKey(m), msg |-> m, at |-> now])
  /\ answer' = [dup |-> FALSE]
  /\ UNCHANGED now

Seen(m) == SeenDuplicate(m) \/ SeenFirst(m)

Next == Tick \/ \E m \in Message : Seen(m)

Spec == Init /\ [][Next]_vars

-----------------------------------------------------------------------------
Recording == [key : Key, msg : Message, at : Nat]
Answer == [dup : {FALSE}] \cup [dup : {TRUE}, msg : Message, at : Nat]

\* Type correctness of the filter's state and of the history.
TypeOK ==
  /\ now \in Nat
  /\ DOMAIN index \subseteq Key
  /\ \A k \in DOMAIN index : index[k] \in Nat
  /\ ring \in [Slot -> Key \cup {Empty}]
  /\ head \in Slot
  /\ accepted \in Seq(Recording)
  /\ answer \in Answer

\* The position in the history of what slot i holds: slots before head were
\* written in the current lap, the others in the lap before.
Position(i) ==
  Len(accepted) - head + i + 1 - (IF i < head THEN 0 ELSE Size)

\* The ring is exactly the last Size recorded keys, in order: each slot holds
\* the key recorded at its position, and slots never reached are empty.
RingIsRecentHistory ==
  \A i \in Slot :
    ring[i] = IF Position(i) >= 1 THEN accepted[Position(i)].key ELSE Empty

\* Position n is the last time its key was recorded.
IsLatest(n) ==
  \A m \in n+1..Len(accepted) : accepted[m].key # accepted[n].key

\* The last recording, at position n, is still remembered: its slot has not
\* been rewritten, and neither has a slot that still held the same key from an
\* expired earlier recording when position n was written.
Survives(n) ==
  /\ Len(accepted) - n < Size
  /\ \A m \in 1..n-1 :
       accepted[m].key = accepted[n].key => ~(n - Size < m /\ m <= Len(accepted) - Size)

\* What the index remembers and forgets, exactly: a key is in the index if and
\* only if its last recording survives, with the time of that recording.  In
\* particular a slot left by an expired entry makes the ring forget the
\* refreshed entry when that slot is rewritten.
IndexExact ==
  /\ \A k \in DOMAIN index : \E n \in DOMAIN accepted : accepted[n].key = k
  /\ \A n \in DOMAIN accepted :
       IsLatest(n) =>
         /\ (accepted[n].key \in DOMAIN index) <=> Survives(n)
         /\ Survives(n) => index[accepted[n].key] = accepted[n].at

\* A message is dropped only if a message with its key was processed less than
\* TTL before: eviction, expiry and refresh never make Seen drop a message
\* whose key is new or whose window is over.
DropsOnlyRecent ==
  answer.dup =>
    \E n \in DOMAIN accepted :
      /\ accepted[n].key = dedupKey(answer.msg)
      /\ answer.at - accepted[n].at < TTL

\* A key that was not in the ring when it was recorded is guarded for the
\* whole window: the same key is processed again only after TTL, or after more
\* than Size recordings (its slot had to be rewritten).
FreshKeyGuarded ==
  \A n, m \in DOMAIN accepted :
    /\ n < m
    /\ accepted[n].key = accepted[m].key
    /\ \A p \in 1..n-1 : n - Size <= p => accepted[p].key # accepted[n].key
    => \/ accepted[m].at - accepted[n].at >= TTL
       \/ m - n > Size
=============================================================================
