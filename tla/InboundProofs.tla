--------------------------- MODULE InboundProofs ----------------------------
(***************************************************************************)
(* Proofs about what messages pass on their way in: the duplicate filter,  *)
(* for every ring size, TTL and set of messages, and the Signal adapter's  *)
(* connection, for any number of connections and messages.                 *)
(*                                                                         *)
(* The argument for the filter: the ring is the last Size recorded keys    *)
(* (RingIsRecentHistory), so rewriting a slot forgets exactly the key      *)
(* recorded Size recordings ago (IndexExact); what Seen may drop and what  *)
(* it may let through follow from what the index remembers.  For Signal:   *)
(* the connection that the loop has lost was the newest one, the only one  *)
(* that could be up.                                                       *)
(***************************************************************************)
EXTENDS Deduplicator, Signal, TLAPS

\* No message has the key that marks an empty slot, so Seen never mistakes one
\* for the other when it evicts (deduplicator.go:54-57).
LEMMA KeyNotEmpty == Empty \notin Key
BY DEF Key, dedupKey, Empty

\* Every message has a key.
LEMMA KeyOfMessage == ASSUME NEW m \in Message PROVE dedupKey(m) \in Key
BY DEF Key

\* Advancing the head stays in the ring and wraps at Size.
LEMMA HeadAdvance ==
  ASSUME NEW h \in Slot
  PROVE  /\ (h + 1) % Size \in Slot
         /\ (h + 1) % Size = IF h + 1 = Size THEN 0 ELSE h + 1
<1>1. CASE h + 1 = Size
  BY <1>1, DedupAssumption DEF Slot
<1>2. CASE h + 1 # Size
  BY <1>2, DedupAssumption DEF Slot
<1>3. QED
  BY <1>1, <1>2

\* Every step keeps the filter's state well typed.
LEMMA TypeStep == TypeOK /\ [Next]_vars => TypeOK'
<1> SUFFICES ASSUME TypeOK, [Next]_vars PROVE TypeOK'
  OBVIOUS
<1>1. CASE Tick
  BY <1>1 DEF TypeOK, Tick
<1>2. ASSUME NEW m \in Message, SeenDuplicate(m) PROVE TypeOK'
  BY <1>2 DEF TypeOK, SeenDuplicate, Answer
<1>3. ASSUME NEW m \in Message, SeenFirst(m) PROVE TypeOK'
  <2>1. dedupKey(m) \in Key
    BY KeyOfMessage
  <2>2. head' \in Slot
    BY <1>3, HeadAdvance DEF TypeOK, SeenFirst, Record
  <2>3. ring' \in [Slot -> Key \cup {Empty}]
    BY <1>3, <2>1 DEF TypeOK, SeenFirst, Record
  <2>4. DOMAIN index' \subseteq Key /\ \A k \in DOMAIN index' : index'[k] \in Nat
    BY <1>3, <2>1 DEF TypeOK, SeenFirst, Record
  <2>5. accepted' \in Seq(Recording)
    BY <1>3, <2>1 DEF TypeOK, SeenFirst, Recording
  <2>6. QED
    BY <1>3, <2>2, <2>3, <2>4, <2>5 DEF TypeOK, SeenFirst, Answer
<1>4. CASE UNCHANGED vars
  BY <1>4 DEF TypeOK, vars
<1>5. QED
  BY <1>1, <1>2, <1>3, <1>4 DEF Next, Seen

-----------------------------------------------------------------------------
\* Appending a recording keeps the older ones.
LEMMA AppendKeeps ==
  ASSUME NEW s \in Seq(Recording), NEW r \in Recording
  PROVE  /\ Append(s, r) \in Seq(Recording)
         /\ Len(Append(s, r)) = Len(s) + 1
         /\ Append(s, r)[Len(s) + 1] = r
         /\ \A n \in 1..Len(s) : Append(s, r)[n] = s[n]
         /\ Len(s) \in Nat
         /\ DOMAIN s = 1..Len(s)
         /\ DOMAIN Append(s, r) = 1..(Len(s) + 1)
OBVIOUS

\* What recording a message does to the history.
LEMMA Accepting ==
  ASSUME TypeOK, NEW m \in Message, SeenFirst(m)
  PROVE  /\ dedupKey(m) \in Key
         /\ Len(accepted) \in Nat
         /\ DOMAIN accepted = 1..Len(accepted)
         /\ Len(accepted') = Len(accepted) + 1
         /\ DOMAIN accepted' = 1..(Len(accepted) + 1)
         /\ accepted'[Len(accepted) + 1] =
              [key |-> dedupKey(m), msg |-> m, at |-> now]
         /\ accepted'[Len(accepted) + 1].key = dedupKey(m)
         /\ accepted'[Len(accepted) + 1].at = now
         /\ \A n \in 1..Len(accepted) : accepted'[n] = accepted[n]
<1>1. dedupKey(m) \in Key
  BY KeyOfMessage
<1>2. [key |-> dedupKey(m), msg |-> m, at |-> now] \in Recording
  BY <1>1 DEF TypeOK, Recording
<1>3. QED
  BY <1>1, <1>2, AppendKeeps DEF TypeOK, SeenFirst

\* Recording writes the newest key at head and leaves every other slot at its
\* position in the history.
LEMMA RingStep ==
  ASSUME TypeOK, RingIsRecentHistory, NEW m \in Message, SeenFirst(m)
  PROVE  RingIsRecentHistory'
<1> DEFINE L == Len(accepted)
<1>1. /\ L \in Nat
      /\ Len(accepted') = L + 1
      /\ accepted'[L + 1].key = dedupKey(m)
      /\ \A n \in 1..L : accepted'[n] = accepted[n]
  BY Accepting
<1>2. /\ head \in 0..(Size - 1)
      /\ head' = IF head + 1 = Size THEN 0 ELSE head + 1
      /\ ring' = [ring EXCEPT ![head] = dedupKey(m)]
  BY HeadAdvance DEF TypeOK, SeenFirst, Record, Slot
<1> HIDE DEF L
<1> SUFFICES ASSUME NEW i \in Slot
             PROVE  ring'[i] = IF Position(i)' >= 1
                               THEN accepted'[Position(i)'].key ELSE Empty
  BY DEF RingIsRecentHistory
<1>3. i \in 0..(Size - 1) /\ Size \in Nat
  BY DedupAssumption DEF Slot
<1>4. Position(i) = L - head + i + 1 - (IF i < head THEN 0 ELSE Size)
  BY DEF Position, L
<1>5. Position(i)' = (L + 1) - head' + i + 1 - (IF i < head' THEN 0 ELSE Size)
  BY <1>1 DEF Position
<1>6. CASE i = head
  <2>1. Position(i)' = L + 1
    BY <1>1, <1>2, <1>3, <1>5, <1>6
  <2>2. ring'[i] = dedupKey(m)
    BY <1>2, <1>6 DEF TypeOK
  <2>3. L + 1 >= 1
    BY <1>1
  <2>4. QED
    BY <2>1, <2>2, <2>3, <1>1
<1>7. CASE i # head
  <2>1. Position(i)' = Position(i)
    <3>1. L \in Nat /\ head \in 0..(Size - 1)
      BY <1>1, <1>2
    <3>2. CASE head + 1 = Size
      <4>1. head' = 0
        BY <3>2, <1>2
      <4>2. i < head /\ ~(i < 0)
        BY <3>1, <3>2, <1>3, <1>7
      <4>3. QED
        BY <3>1, <3>2, <4>1, <4>2, <1>3, <1>4, <1>5
    <3>3. CASE head + 1 # Size
      <4>1. head' = head + 1
        BY <3>3, <1>2
      <4>2. i < head <=> i < head + 1
        BY <3>1, <1>3, <1>7
      <4>3. QED
        BY <3>1, <3>3, <4>1, <4>2, <1>3, <1>4, <1>5
    <3>4. QED
      BY <3>2, <3>3
  <2>2. Position(i) \in Int /\ Position(i) <= L
    BY <1>1, <1>2, <1>3, <1>4
  <2>3. ring'[i] = ring[i]
    BY <1>2, <1>7 DEF TypeOK
  <2>4. CASE Position(i) >= 1
    <3>1. Position(i) \in 1..L
      BY <2>2, <2>4, <1>1
    <3>2. accepted'[Position(i)] = accepted[Position(i)]
      BY <3>1, <1>1
    <3>3. QED
      BY <2>1, <2>3, <2>4, <3>2 DEF RingIsRecentHistory
  <2>5. CASE ~(Position(i) >= 1)
    BY <2>1, <2>3, <2>5 DEF RingIsRecentHistory
  <2>6. QED
    BY <2>4, <2>5
<1>8. QED
  BY <1>6, <1>7

\* The key that recording evicts is the one recorded Size recordings ago.
LEMMA Evicted ==
  ASSUME TypeOK, RingIsRecentHistory, NEW m \in Message, SeenFirst(m)
  PROVE  /\ Len(accepted) + 1 - Size >= 1 =>
              ring[head] = accepted[Len(accepted) + 1 - Size].key
         /\ ~(Len(accepted) + 1 - Size >= 1) => ring[head] \notin Key
<1>1. Position(head) = Len(accepted) + 1 - Size
  BY Accepting, DedupAssumption DEF TypeOK, Position, Slot
<1>2. QED
  BY <1>1, KeyNotEmpty DEF TypeOK, RingIsRecentHistory

\* Recording keeps the account of the index exact: the recorded key's new entry
\* survives, the evicted key does not, and every other key is as before.
LEMMA IndexStep ==
  ASSUME TypeOK, RingIsRecentHistory, IndexExact,
         NEW m \in Message, SeenFirst(m)
  PROVE  IndexExact'
<1> DEFINE L == Len(accepted)
           key == dedupKey(m)
           e == ring[head]
<1>1. /\ key \in Key
      /\ L \in Nat
      /\ DOMAIN accepted = 1..L
      /\ Len(accepted') = L + 1
      /\ DOMAIN accepted' = 1..(L + 1)
      /\ accepted'[L + 1].key = key
      /\ accepted'[L + 1].at = now
      /\ \A n \in 1..L : accepted'[n] = accepted[n]
  BY Accepting
<1>2. index' = [k \in (DOMAIN index \ {e}) \cup {key} |->
                  IF k = key THEN now ELSE index[k]]
  BY DEF SeenFirst, Record
<1>3. /\ L + 1 - Size >= 1 => e = accepted[L + 1 - Size].key
      /\ ~(L + 1 - Size >= 1) => e \notin Key
  BY Evicted
<1>4. \A n \in 1..L : accepted[n].key \in Key
  <2>1. accepted \in Seq(Recording)
    BY DEF TypeOK
  <2>2. \A n \in 1..L : accepted[n] \in Recording
    BY <2>1, AppendKeeps
  <2>3. QED
    BY <2>2 DEF Recording
<1>5. Size \in Nat /\ Size >= 1
  BY DedupAssumption
<1> HIDE DEF L, key, e
<1>6. \A k \in DOMAIN index' : \E n \in DOMAIN accepted' : accepted'[n].key = k
  <2> SUFFICES ASSUME NEW k \in DOMAIN index'
               PROVE  \E n \in 1..(L + 1) : accepted'[n].key = k
    BY <1>1
  <2>1. CASE k = key
    <3>1. L + 1 \in 1..(L + 1)
      BY <1>1
    <3>2. QED
      BY <3>1, <2>1, <1>1
  <2>2. CASE k # key
    <3>1. k \in DOMAIN index
      BY <2>2, <1>2
    <3>2. PICK n \in 1..L : accepted[n].key = k
      BY <3>1, <1>1 DEF IndexExact
    <3>3. n \in 1..(L + 1) /\ accepted'[n].key = k
      BY <3>2, <1>1
    <3>4. QED
      BY <3>3
  <2>3. QED
    BY <2>1, <2>2
<1>7. ASSUME NEW n \in DOMAIN accepted', IsLatest(n)'
      PROVE  /\ (accepted'[n].key \in DOMAIN index') <=> Survives(n)'
             /\ Survives(n)' => index'[accepted'[n].key] = accepted'[n].at
  <2>1. CASE n = L + 1
    <3>1. key \in DOMAIN index' /\ index'[key] = now
      BY <1>2
    <3>2. Survives(n)'
      BY <2>1, <1>1, <1>5 DEF Survives
    <3>3. QED
      BY <3>1, <3>2, <2>1, <1>1
  <2>2. CASE n # L + 1
    <3>1. n \in 1..L /\ accepted'[n] = accepted[n]
      BY <2>2, <1>1
    <3>2. accepted[n].key # key
      <4>1. L + 1 \in n+1..L+1
        BY <3>1, <1>1
      <4>2. QED
        BY <4>1, <3>1, <1>7, <1>1 DEF IsLatest
    <3>3. IsLatest(n)
      <4> SUFFICES ASSUME NEW j \in n+1..L
                   PROVE  accepted[j].key # accepted[n].key
        BY DEF IsLatest, L
      <4>1. j \in n+1..L+1 /\ j \in 1..L
        BY <3>1, <1>1
      <4>2. QED
        BY <4>1, <3>1, <1>7, <1>1 DEF IsLatest
    <3>4. /\ (accepted[n].key \in DOMAIN index) <=> Survives(n)
          /\ Survives(n) => index[accepted[n].key] = accepted[n].at
      BY <3>1, <3>3, <1>1 DEF IndexExact
    <3>5. /\ (accepted[n].key \in DOMAIN index') <=>
               (accepted[n].key \in DOMAIN index /\ accepted[n].key # e)
          /\ accepted[n].key \in DOMAIN index' =>
               index'[accepted[n].key] = index[accepted[n].key]
      BY <1>2, <3>2
    <3>6. Survives(n)' <=> Survives(n) /\ accepted[n].key # e
      <4>1. \A j \in 1..n-1 : j \in 1..L /\ accepted'[j] = accepted[j]
        BY <3>1, <1>1
      <4>2. ASSUME Survives(n)' PROVE Survives(n) /\ accepted[n].key # e
        <5>1. L + 1 - n < Size
          BY <4>2, <1>1 DEF Survives
        <5>2. ASSUME NEW j \in 1..n-1, accepted[j].key = accepted[n].key
              PROVE  ~(n - Size < j /\ j <= L + 1 - Size)
          <6>1. accepted'[j].key = accepted'[n].key
            BY <5>2, <4>1, <3>1
          <6>2. ~(n - Size < j /\ j <= Len(accepted') - Size)
            BY <6>1, <4>2 DEF Survives
          <6>3. QED
            BY <6>2, <3>1, <1>1, <1>5
        <5>3. L - n < Size
          BY <5>1, <3>1, <1>1, <1>5
        <5>4. \A j \in 1..n-1 : accepted[j].key = accepted[n].key =>
                ~(n - Size < j /\ j <= L - Size)
          BY <5>2, <3>1, <1>1, <1>5
        <5>5. ASSUME accepted[n].key = e PROVE FALSE
          <6>1. L + 1 - Size >= 1
            BY <5>5, <1>3, <1>4, <3>1
          <6>2. accepted[L + 1 - Size].key = accepted[n].key
            BY <6>1, <5>5, <1>3
          <6>3. L + 1 - Size \in 1..n-1 /\ n - Size < L + 1 - Size
            BY <6>1, <5>1, <3>1, <1>1, <1>5
          <6>4. QED
            BY <6>2, <6>3, <5>2, <1>1, <1>5
        <5>6. QED
          BY <5>3, <5>4, <5>5 DEF Survives, L
      <4>3. ASSUME Survives(n), accepted[n].key # e PROVE Survives(n)'
        <5>1. /\ L - n < Size
              /\ \A j \in 1..n-1 : accepted[j].key = accepted[n].key =>
                   ~(n - Size < j /\ j <= L - Size)
          BY <4>3 DEF Survives, L
        <5>2. L + 1 - n < Size
          <6>1. SUFFICES ASSUME L + 1 - n = Size PROVE FALSE
            BY <5>1, <3>1, <1>1, <1>5
          <6>2. n = L + 1 - Size /\ L + 1 - Size >= 1
            BY <6>1, <3>1, <1>1, <1>5
          <6>3. QED
            BY <6>2, <1>3, <4>3
        <5>3. ASSUME NEW j \in 1..n-1, accepted[j].key = accepted[n].key,
                     n - Size < j, j <= L + 1 - Size
              PROVE  FALSE
          <6>1. j = L + 1 - Size
            BY <5>1, <5>3, <3>1, <1>1, <1>5
          <6>2. L + 1 - Size >= 1
            BY <6>1, <5>3, <3>1, <1>1
          <6>3. QED
            BY <6>1, <6>2, <1>3, <5>3, <4>3
        <5>4. ASSUME NEW j \in 1..n-1, accepted'[j].key = accepted'[n].key
              PROVE  ~(n - Size < j /\ j <= Len(accepted') - Size)
          <6>1. accepted[j].key = accepted[n].key
            BY <5>4, <4>1, <3>1
          <6>2. ~(n - Size < j /\ j <= L + 1 - Size)
            BY <6>1, <5>3
          <6>3. QED
            BY <6>2, <3>1, <1>1, <1>5
        <5>5. QED
          BY <5>2, <5>4, <1>1 DEF Survives
      <4>4. QED
        BY <4>2, <4>3
    <3>7. QED
      BY <3>1, <3>4, <3>5, <3>6
  <2>3. QED
    BY <2>1, <2>2
<1>8. QED
  BY <1>6, <1>7 DEF IndexExact

\* Every recorded key has a last recording.
HasLatest ==
  \A n \in DOMAIN accepted :
    \E l \in DOMAIN accepted :
      n <= l /\ accepted[l].key = accepted[n].key /\ IsLatest(l)

\* Recording a message makes it the latest of its key and keeps, for any other
\* key, the latest recording it had.
LEMMA LatestStep ==
  ASSUME TypeOK, HasLatest, NEW m \in Message, SeenFirst(m)
  PROVE  HasLatest'
<1> DEFINE key == dedupKey(m)
<1>0. PICK L : L = Len(accepted)
  OBVIOUS
<1>1. /\ L \in Nat
      /\ DOMAIN accepted = 1..L
      /\ Len(accepted') = L + 1
      /\ DOMAIN accepted' = 1..(L + 1)
      /\ accepted'[L + 1].key = key
      /\ \A n \in 1..L : accepted'[n] = accepted[n]
  BY <1>0, Accepting
<1> HIDE DEF key
<1>2. IsLatest(L + 1)' /\ L + 1 \in 1..(L + 1)
  BY <1>1 DEF IsLatest
<1> SUFFICES ASSUME NEW n \in 1..(L + 1)
             PROVE  \E l \in 1..(L + 1) :
                      n <= l /\ accepted'[l].key = accepted'[n].key /\ IsLatest(l)'
  BY <1>1 DEF HasLatest
<1>3. CASE accepted'[n].key = key
  BY <1>1, <1>2, <1>3
<1>4. CASE accepted'[n].key # key
  <2>1. n \in 1..L
    BY <1>1, <1>4
  <2>2. PICK l \in 1..L : n <= l /\ accepted[l].key = accepted[n].key /\ IsLatest(l)
    BY <2>1, <1>1 DEF HasLatest
  <2>3. accepted'[l].key = accepted'[n].key /\ l \in 1..(L + 1)
    BY <2>1, <2>2, <1>1
  <2>4. IsLatest(l)'
    <3> SUFFICES ASSUME NEW j \in l+1..L+1
                 PROVE  accepted'[j].key # accepted'[l].key
      BY <1>1 DEF IsLatest
    <3>1. CASE j = L + 1
      BY <3>1, <2>3, <1>1, <1>4
    <3>2. CASE j # L + 1
      <4>1. j \in 1..L /\ j \in l+1..L
        BY <3>2, <2>2, <1>1
      <4>2. accepted[j].key # accepted[l].key
        BY <1>0, <4>1, <2>2 DEF IsLatest
      <4>3. QED
        BY <4>1, <4>2, <2>2, <1>1
    <3>3. QED
      BY <3>1, <3>2
  <2>5. QED
    BY <2>2, <2>3, <2>4
<1>5. QED
  BY <1>3, <1>4

-----------------------------------------------------------------------------
\* Recordings carry times that are not in the future.
TimesPast == \A n \in DOMAIN accepted : accepted[n].at <= now

\* A recording carries the present time, and the time does not move under it.
LEMMA TimesStep ==
  ASSUME TypeOK, TimesPast, NEW m \in Message, SeenFirst(m)
  PROVE  TimesPast'
<1>1. now \in Nat /\ now' = now
  BY DEF TypeOK, SeenFirst
<1>2. PICK L : L = Len(accepted)
  OBVIOUS
<1>3. /\ L \in Nat
      /\ DOMAIN accepted = 1..L
      /\ DOMAIN accepted' = 1..(L + 1)
      /\ accepted'[L + 1].at = now
      /\ \A n \in 1..L : accepted'[n] = accepted[n]
  BY <1>2, Accepting
<1>4. ASSUME NEW n \in 1..(L + 1) PROVE accepted'[n].at <= now
  <2>1. CASE n = L + 1
    BY <2>1, <1>1, <1>3
  <2>2. CASE n # L + 1
    BY <2>2, <1>3 DEF TimesPast
  <2>3. QED
    BY <2>1, <2>2
<1>5. QED
  BY <1>1, <1>3, <1>4 DEF TimesPast

\* The clock only goes forward, so what was past stays past.
LEMMA TimesTick == ASSUME TypeOK, TimesPast, Tick PROVE TimesPast'
<1>1. \A n \in DOMAIN accepted : accepted[n].at \in Nat
  <2>1. accepted \in Seq(Recording)
    BY DEF TypeOK
  <2>2. \A n \in DOMAIN accepted : accepted[n] \in Recording
    BY <2>1, AppendKeeps
  <2>3. QED
    BY <2>2 DEF Recording
<1>2. QED
  BY <1>1 DEF TypeOK, TimesPast, Tick

FilterInv ==
  TypeOK /\ RingIsRecentHistory /\ IndexExact /\ HasLatest /\ TimesPast

\* The filter remembers exactly what its ring implies: at all times a key is in
\* the index if and only if neither its own slot nor a slot still holding an
\* earlier, expired recording of it has been rewritten since.
THEOREM FilterExact == Spec => []FilterInv
<1>1. Init => FilterInv
  <2> SUFFICES ASSUME Init PROVE FilterInv
    OBVIOUS
  <2>1. TypeOK
    BY DedupAssumption DEF Init, TypeOK, Slot, Answer
  <2>2. Len(accepted) = 0 /\ DOMAIN accepted = {} /\ DOMAIN index = {}
    BY DEF Init
  <2>3. RingIsRecentHistory
    <3> SUFFICES ASSUME NEW i \in Slot
                 PROVE  ~(Position(i) >= 1) /\ ring[i] = Empty
      BY DEF RingIsRecentHistory
    <3>1. QED
      BY <2>2, DedupAssumption DEF Init, Position, Slot
  <2>4. IndexExact
    BY <2>2 DEF IndexExact
  <2>5. HasLatest
    BY <2>2 DEF HasLatest
  <2>6. TimesPast
    BY <2>2 DEF TimesPast
  <2>7. QED
    BY <2>1, <2>3, <2>4, <2>5, <2>6 DEF FilterInv
<1>2. FilterInv /\ [Next]_vars => FilterInv'
  <2> SUFFICES ASSUME FilterInv, [Next]_vars PROVE FilterInv'
    OBVIOUS
  <2>1. TypeOK /\ RingIsRecentHistory /\ IndexExact /\ HasLatest /\ TimesPast
    BY DEF FilterInv
  <2>2. ASSUME UNCHANGED <<index, ring, head, accepted>>
        PROVE  RingIsRecentHistory' /\ IndexExact' /\ HasLatest'
    <3>1. RingIsRecentHistory'
      BY <2>1, <2>2 DEF RingIsRecentHistory, Position
    <3>2. IndexExact'
      BY <2>1, <2>2 DEF IndexExact, IsLatest, Survives
    <3>3. HasLatest'
      BY <2>1, <2>2 DEF HasLatest, IsLatest
    <3>4. QED
      BY <3>1, <3>2, <3>3
  <2>3. TypeOK'
    BY <2>1, TypeStep
  <2>4. ASSUME NEW m \in Message, SeenFirst(m)
        PROVE  RingIsRecentHistory' /\ IndexExact' /\ HasLatest'
    BY <2>1, <2>4, RingStep, IndexStep, LatestStep
  <2>5. TimesPast'
    <3>1. CASE Tick
      BY <2>1, <3>1, TimesTick
    <3>2. ASSUME NEW m \in Message, SeenFirst(m) PROVE TimesPast'
      BY <2>1, <3>2, TimesStep
    <3>3. CASE UNCHANGED <<now, accepted>>
      BY <2>1, <3>3 DEF TimesPast
    <3>4. QED
      BY <3>1, <3>2, <3>3 DEF Next, Seen, SeenDuplicate, vars
  <2>6. QED
    BY <2>2, <2>3, <2>4, <2>5
    DEF FilterInv, Next, Tick, Seen, SeenDuplicate, vars
<1>3. QED
  BY <1>1, <1>2, PTL DEF Spec

\* Seen never drops a message whose key was not processed within TTL.
THEOREM NoFalseDrop == Spec => []DropsOnlyRecent
<1>1. Init => DropsOnlyRecent
  BY DEF Init, DropsOnlyRecent
<1>2. FilterInv /\ DropsOnlyRecent /\ [Next]_vars => DropsOnlyRecent'
  <2> SUFFICES ASSUME FilterInv, DropsOnlyRecent, [Next]_vars
               PROVE  DropsOnlyRecent'
    OBVIOUS
  <2>1. CASE UNCHANGED <<accepted, answer>>
    BY <2>1 DEF DropsOnlyRecent
  <2>2. ASSUME NEW m \in Message, SeenFirst(m) PROVE DropsOnlyRecent'
    BY <2>2 DEF SeenFirst, DropsOnlyRecent
  <2>3. ASSUME NEW m \in Message, SeenDuplicate(m) PROVE DropsOnlyRecent'
    <3> DEFINE k == dedupKey(m)
    <3>1. k \in DOMAIN index /\ now - index[k] < TTL
      BY <2>3 DEF SeenDuplicate, Fresh
    <3>2. PICK n \in DOMAIN accepted : accepted[n].key = k /\ IsLatest(n)
      BY <3>1 DEF FilterInv, IndexExact, HasLatest
    <3>3. index[k] = accepted[n].at
      BY <3>1, <3>2 DEF FilterInv, IndexExact
    <3>4. answer' = [dup |-> TRUE, msg |-> m, at |-> now] /\ accepted' = accepted
      BY <2>3 DEF SeenDuplicate
    <3>5. /\ accepted'[n].key = dedupKey(answer'.msg)
          /\ answer'.at - accepted'[n].at < TTL
      BY <3>1, <3>2, <3>3, <3>4
    <3>6. QED
      BY <3>2, <3>4, <3>5 DEF DropsOnlyRecent
  <2>4. QED
    BY <2>1, <2>2, <2>3 DEF Next, Tick, Seen, vars
<1>3. QED
  BY <1>1, <1>2, FilterExact, PTL DEF Spec

\* Recording a message keeps the guarantee for keys that were fresh: were the
\* key recorded at n within TTL and at most Size recordings ago, its entry
\* would have survived and Seen would have reported a duplicate.
LEMMA GuardStep ==
  ASSUME FilterInv, FreshKeyGuarded, NEW m \in Message, SeenFirst(m)
  PROVE  FreshKeyGuarded'
<1> DEFINE key == dedupKey(m)
<1>0. PICK L : L = Len(accepted)
  OBVIOUS
<1>1. /\ L \in Nat
      /\ DOMAIN accepted = 1..L
      /\ DOMAIN accepted' = 1..(L + 1)
      /\ accepted'[L + 1].key = key
      /\ accepted'[L + 1].at = now
      /\ \A n \in 1..L : accepted'[n] = accepted[n]
  BY <1>0, Accepting DEF FilterInv
<1>2. Size \in Nat /\ Size >= 1
  BY DedupAssumption
<1>3. ~(key \in DOMAIN index /\ now - index[key] < TTL)
  BY DEF SeenFirst, Fresh
<1>4. \A n \in 1..L : accepted[n].at \in Nat
  <2>1. accepted \in Seq(Recording)
    BY DEF FilterInv, TypeOK
  <2>2. \A n \in 1..L : accepted[n] \in Recording
    BY <1>0, <2>1, AppendKeeps
  <2>3. QED
    BY <2>2 DEF Recording
<1>5. now \in Nat /\ TTL \in Nat
  BY DedupAssumption DEF FilterInv, TypeOK
<1> HIDE DEF key
<1> SUFFICES ASSUME NEW n \in 1..(L + 1), NEW q \in 1..(L + 1), n < q,
                    accepted'[n].key = accepted'[q].key,
                    \A p \in 1..n-1 : n - Size <= p =>
                       accepted'[p].key # accepted'[n].key
             PROVE  accepted'[q].at - accepted'[n].at >= TTL \/ q - n > Size
  BY <1>1 DEF FreshKeyGuarded
<1>6. n \in 1..L /\ accepted'[n] = accepted[n]
  BY <1>1
<1>7. \A p \in 1..n-1 : n - Size <= p => accepted[p].key # accepted[n].key
  BY <1>1, <1>6
<1>8. ASSUME NEW j \in 1..L, n < j, accepted[j].key = accepted[n].key
      PROVE  accepted[j].at - accepted[n].at >= TTL \/ j - n > Size
  BY <1>1, <1>6, <1>7, <1>8 DEF FreshKeyGuarded
<1>9. CASE q # L + 1
  <2>1. q \in 1..L /\ accepted'[q] = accepted[q]
    BY <1>1, <1>9
  <2>2. QED
    BY <2>1, <1>6, <1>8
<1>10. CASE q = L + 1
  <2>1. accepted[n].key = key
    BY <1>1, <1>6, <1>10
  <2>2. PICK l \in 1..L : n <= l /\ accepted[l].key = key /\ IsLatest(l)
    BY <1>1, <1>6, <2>1 DEF FilterInv, HasLatest
  <2>3. CASE l # n
    <3>1. accepted[l].at - accepted[n].at >= TTL \/ l - n > Size
      BY <1>1, <1>6, <2>1, <2>2, <2>3, <1>8
    <3>2. CASE l - n > Size
      BY <3>2, <1>1, <1>2, <1>6, <1>10, <2>2
    <3>3. CASE accepted[l].at - accepted[n].at >= TTL
      <4>1. accepted[l].at <= now
        BY <2>2, <1>1 DEF FilterInv, TimesPast
      <4>2. accepted'[q].at = now /\ accepted'[n].at = accepted[n].at
        BY <1>1, <1>6, <1>10
      <4>3. accepted[l].at \in Nat /\ accepted[n].at \in Nat
        BY <1>4, <1>6, <2>2
      <4>4. now - accepted[n].at >= TTL
        BY <3>3, <4>1, <4>3, <1>5
      <4>5. QED
        BY <4>2, <4>4
    <3>4. QED
      BY <3>1, <3>2, <3>3
  <2>4. CASE l = n
    <3>1. /\ (key \in DOMAIN index) <=> Survives(n)
          /\ Survives(n) => index[key] = accepted[n].at
      BY <1>1, <1>6, <2>1, <2>2, <2>4 DEF FilterInv, IndexExact
    <3>2. CASE Survives(n)
      BY <3>1, <3>2, <1>1, <1>3, <1>4, <1>5, <1>6, <1>10
    <3>3. CASE ~Survives(n)
      <4>1. CASE ~(L - n < Size)
        BY <4>1, <1>1, <1>2, <1>6, <1>10
      <4>2. CASE \E p \in 1..n-1 : /\ accepted[p].key = accepted[n].key
                                   /\ n - Size < p /\ p <= L - Size
        BY <4>2, <1>7, <1>1, <1>2, <1>6
      <4>3. QED
        BY <3>3, <4>1, <4>2, <1>0 DEF Survives
    <3>4. QED
      BY <3>2, <3>3
  <2>5. QED
    BY <2>3, <2>4
<1>11. QED
  BY <1>9, <1>10

\* A key that was not in the ring when it was recorded is never processed a
\* second time within TTL unless its slot had to be rewritten.
THEOREM FreshKeysGuarded == Spec => []FreshKeyGuarded
<1>1. Init => FreshKeyGuarded
  <2>1. Init => DOMAIN accepted = {}
    BY DEF Init
  <2>2. QED
    BY <2>1 DEF FreshKeyGuarded
<1>2. FilterInv /\ FreshKeyGuarded /\ [Next]_vars => FreshKeyGuarded'
  <2> SUFFICES ASSUME FilterInv, FreshKeyGuarded, [Next]_vars
               PROVE  FreshKeyGuarded'
    OBVIOUS
  <2>1. CASE UNCHANGED accepted
    BY <2>1 DEF FreshKeyGuarded
  <2>2. ASSUME NEW m \in Message, SeenFirst(m) PROVE FreshKeyGuarded'
    BY <2>2, GuardStep
  <2>3. QED
    BY <2>1, <2>2 DEF Next, Tick, Seen, SeenDuplicate, vars
<1>3. QED
  BY <1>1, <1>2, FilterExact, PTL DEF Spec
\* The index and the ring never disagree: Seen finds a key exactly when its own
\* slot and every slot with an older, expired recording of it are still there.
THEOREM IndexAlwaysExact == Spec => []IndexExact
<1>1. FilterInv => IndexExact
  BY DEF FilterInv
<1>2. QED
  BY <1>1, FilterExact, PTL


-----------------------------------------------------------------------------
(* The Signal adapter: one connection at a time.                             *)

\* A connection that is up is the newest one, for the loop dials only when none is
\* left, or the stop is closing the last.
NewestAlive ==
  /\ alive \subseteq {dialled}
  /\ loop \in {"lost", "backoff", "dial"} => alive = {} \/ cancelled

\* The adapter's connection is the newest one, but while the loop is about to put it
\* there, and until the stop takes it.
CurrentNewest ==
  loop # "install" =>
    /\ conn \in {dialled, NoConn}
    /\ ~cancelled => conn = dialled

\* What the loop reads, or is about to make the adapter's, is the newest one.
ReadsNewest == loop \in {"read", "install"} => reading = dialled

\* The stop begins with the context.
StopCancels == stop # "no" => cancelled

SignalInv == SignalTypeOK /\ NewestAlive /\ CurrentNewest /\ ReadsNewest /\ StopCancels

LEMMA SignalInitInv == SignalInit => SignalInv
<1> SUFFICES ASSUME SignalInit PROVE SignalInv
  OBVIOUS
<1>1. dialled \in Conn /\ alive \in SUBSET (1..dialled) /\ conn \in 0..dialled
  BY SignalAssumption DEF SignalInit, Conn
<1>2. reading \in 0..dialled /\ sending \in 0..dialled /\ taken \in 0..dialled
      /\ received \in 0..MaxMessages
  BY SignalAssumption DEF SignalInit, NoConn
<1>3. SignalTypeOK
  BY <1>1, <1>2 DEF SignalInit, SignalTypeOK, NoConn
<1>4. QED
  BY <1>3 DEF SignalInit, SignalInv, NewestAlive, CurrentNewest, ReadsNewest, StopCancels

\* A step that neither dials nor touches a connection, but lets the loop go on, a
\* reply be sent or the stop proceed.
LEMMA NoConnectionChanges ==
  ASSUME SignalInv, SignalTypeOK', UNCHANGED <<dialled, conn, stop>>, alive' \subseteq alive,
         cancelled => cancelled', loop # "install",
         loop' \in {"read", "install"} => loop' = "read" /\ reading' = dialled,
         loop' \in {"lost", "backoff", "dial"} => alive = {} \/ cancelled
  PROVE  SignalInv'
BY DEF SignalInv, NewestAlive, CurrentNewest, ReadsNewest, StopCancels, NoConn

\* The loop goes on with the connections as they are.
LEMMA LoopStepInv == ASSUME SignalInv, LoopStep \/ LoopReads PROVE SignalInv'
<1>0. SignalTypeOK /\ NewestAlive /\ CurrentNewest /\ ReadsNewest /\ StopCancels
      /\ MaxConns \in Nat \ {0} /\ MaxMessages \in Nat /\ dialled \in Nat \ {0}
  BY SignalAssumption DEF SignalInv, SignalTypeOK, Conn, NoConn
<1>1. CASE LoopChecks
  <2>1. SignalTypeOK'
    BY <1>0, <1>1 DEF LoopChecks, SignalTypeOK, net, status, sends, stops, Conn, NoConn
  <2>2. QED
    BY <1>1, <2>1, NoConnectionChanges DEF LoopChecks, net, stops
<1>2. CASE LoopFetches
  <2>1. SignalTypeOK'
    BY <1>0, <1>2 DEF LoopFetches, SignalTypeOK, net, status, sends, stops, Conn, NoConn
  <2>2. loop' = "read" => reading' = dialled
    BY <1>0, <1>2 DEF LoopFetches, CurrentNewest, NoConn
  <2>3. loop' = "lost" => cancelled
    BY <1>0, <1>2 DEF LoopFetches, CurrentNewest, NoConn
  <2>4. QED
    BY <1>2, <2>1, <2>2, <2>3, NoConnectionChanges DEF LoopFetches, net, stops
<1>3. CASE LoopReads
  <2>1. SignalTypeOK'
    BY <1>0, <1>3 DEF LoopReads, SignalTypeOK, net, status, sends, stops, Conn, NoConn
  <2>2. QED
    BY <1>3, <2>1, NoConnectionChanges DEF LoopReads, net, stops
<1>4. CASE LoopQueues
  <2>1. SignalTypeOK'
    BY <1>0, <1>4 DEF LoopQueues, SignalTypeOK, net, status, sends, stops, Conn, NoConn
  <2>2. QED
    BY <1>4, <2>1, NoConnectionChanges DEF LoopQueues, net, stops
<1>5. CASE LoopLoses
  <2>1. SignalTypeOK'
    BY <1>0, <1>5 DEF LoopLoses, SignalTypeOK, net, status, sends, stops, Conn, NoConn
  <2>2. alive = {}
    BY <1>0, <1>5 DEF LoopLoses, NewestAlive, ReadsNewest
  <2>3. QED
    BY <1>5, <2>1, <2>2, NoConnectionChanges DEF LoopLoses, net, stops
<1>6. CASE LoopReportsLoss
  <2>1. SignalTypeOK'
    BY <1>0, <1>6 DEF LoopReportsLoss, SignalTypeOK, net, sends, stops, Conn, NoConn
  <2>2. alive = {} \/ cancelled
    BY <1>0, <1>6 DEF LoopReportsLoss, NewestAlive
  <2>3. QED
    BY <1>6, <2>1, <2>2, NoConnectionChanges DEF LoopReportsLoss, net, stops
<1>7. CASE BackoffEnds
  <2>1. SignalTypeOK'
    BY <1>0, <1>7 DEF BackoffEnds, SignalTypeOK, net, status, sends, stops, Conn, NoConn
  <2>2. alive = {} \/ cancelled
    BY <1>0, <1>7 DEF BackoffEnds, NewestAlive
  <2>3. QED
    BY <1>7, <2>1, <2>2, NoConnectionChanges DEF BackoffEnds, net, stops
\* It dials only when no connection is up.
<1>8. CASE DialSucceeds
  <2>0. /\ loop' = "install" /\ dialled' = dialled + 1 /\ alive' = alive \cup {dialled'}
        /\ reading' = dialled' /\ alive = {} /\ dialled < MaxConns
        /\ UNCHANGED <<conn, status, sends, received, stops, crashed>>
    BY <1>0, <1>8 DEF DialSucceeds, NewestAlive
  <2>1. SignalTypeOK'
    <3>1. /\ dialled' \in Conn /\ alive' \in SUBSET (1..dialled')
          /\ reading' \in 0..dialled' /\ reading' # NoConn
      BY <1>0, <2>0 DEF SignalTypeOK, Conn, NoConn
    <3>2. conn \in 0..dialled' /\ sending \in 0..dialled' /\ taken \in 0..dialled'
      BY <1>0, <2>0 DEF SignalTypeOK, Conn, NoConn
    <3>3. QED
      BY <1>0, <2>0, <3>1, <3>2 DEF SignalTypeOK, status, sends, stops, Conn, NoConn
  <2>2. NewestAlive' /\ CurrentNewest' /\ ReadsNewest' /\ StopCancels'
    BY <1>0, <2>0 DEF NewestAlive, CurrentNewest, ReadsNewest, StopCancels, stops, NoConn
  <2>3. QED
    BY <2>1, <2>2 DEF SignalInv
<1>9. CASE InstallConn
  <2>1. SignalTypeOK'
    BY <1>0, <1>9 DEF InstallConn, SignalTypeOK, net, status, sends, stops, Conn, NoConn
  <2>2. conn' = dialled /\ loop' = "report" /\ UNCHANGED <<net, stops>>
    BY <1>0, <1>9 DEF InstallConn, ReadsNewest
  <2>3. NewestAlive' /\ CurrentNewest' /\ ReadsNewest' /\ StopCancels'
    BY <1>0, <2>2 DEF NewestAlive, CurrentNewest, ReadsNewest, StopCancels, net, stops, NoConn
  <2>4. QED
    BY <2>1, <2>3 DEF SignalInv
<1>10. CASE ReportReconnected
  <2>1. SignalTypeOK'
    BY <1>0, <1>10 DEF ReportReconnected, SignalTypeOK, net, sends, stops, Conn, NoConn
  <2>2. QED
    BY <1>10, <2>1, NoConnectionChanges DEF ReportReconnected, net, stops
<1>11. CASE DialFails
  <2>1. SignalTypeOK'
    BY <1>0, <1>11 DEF DialFails, SignalTypeOK, net, status, sends, stops, Conn, NoConn
  <2>2. alive = {} \/ cancelled
    BY <1>0, <1>11 DEF DialFails, NewestAlive
  <2>3. QED
    BY <1>11, <2>1, <2>2, NoConnectionChanges DEF DialFails, net, stops
<1>12. QED
  BY <1>1, <1>2, <1>3, <1>4, <1>5, <1>6, <1>7, <1>8, <1>9, <1>10, <1>11 DEF LoopStep

\* Other than the loop, only the stop changes the adapter's connection, and nobody
\* makes one.
LEMMA OthersInv ==
  ASSUME SignalInv, SignalTypeOK', UNCHANGED <<dialled, loop, reading>>, alive' \subseteq alive,
         cancelled => cancelled', stop' # "no" => cancelled',
         conn' = conn \/ (conn' = NoConn /\ cancelled')
  PROVE  SignalInv'
BY DEF SignalInv, NewestAlive, CurrentNewest, ReadsNewest, StopCancels, NoConn

LEMMA StopStepInv == ASSUME SignalInv, StopStep \/ Cancel PROVE SignalInv'
<1>0. SignalTypeOK
  BY DEF SignalInv
<1>1. CASE Cancel
  <2>1. SignalTypeOK'
    BY <1>0, <1>1 DEF Cancel, SignalTypeOK, net, status, sends, Conn, NoConn
  <2>2. QED
    BY <1>1, <2>1, OthersInv DEF Cancel, net
<1>2. CASE TakeConn
  <2>1. SignalTypeOK'
    BY <1>0, <1>2, SignalAssumption DEF TakeConn, SignalTypeOK, net, status, sends, Conn, NoConn
  <2>2. cancelled
    BY <1>2 DEF TakeConn, SignalInv, StopCancels
  <2>3. QED
    BY <1>2, <2>1, <2>2, OthersInv DEF TakeConn, net
<1>3. CASE ReportDisconnected \/ CloseConn \/ CloseQueue
  <2>1. SignalTypeOK'
    <3>1. CASE ReportDisconnected
      BY <1>0, <3>1 DEF ReportDisconnected, SignalTypeOK, net, sends, Conn, NoConn
    <3>2. CASE CloseConn
      BY <1>0, <3>2 DEF CloseConn, SignalTypeOK, status, sends, Conn, NoConn
    <3>3. CASE CloseQueue
      BY <1>0, <3>3 DEF CloseQueue, SignalTypeOK, net, status, sends, Conn, NoConn
    <3>4. QED
      BY <1>3, <3>1, <3>2, <3>3
  <2>2. cancelled /\ cancelled' = cancelled
    BY <1>3 DEF ReportDisconnected, CloseConn, CloseQueue, SignalInv, StopCancels
  <2>3. QED
    BY <1>3, <2>1, <2>2, OthersInv DEF ReportDisconnected, CloseConn, CloseQueue, net
<1>4. QED
  BY <1>1, <1>2, <1>3 DEF StopStep

\* Replies and the network.
LEMMA SendAndBreakInv ==
  ASSUME SignalInv, StartSend \/ SendStep \/ \E c \in Conn : Break(c) PROVE SignalInv'
<1>0. SignalTypeOK /\ StopCancels
  BY DEF SignalInv
<1>1. CASE StartSend \/ SendStep
  <2>1. ASSUME StartSend PROVE SignalTypeOK'
    BY <1>0, <2>1 DEF StartSend, SignalTypeOK, net, status, stops, Conn, NoConn
  <2>2. ASSUME EndSend PROVE SignalTypeOK'
    BY <1>0, <2>2 DEF EndSend, SignalTypeOK, net, status, stops, Conn, NoConn
  <2>3. ASSUME ReportSendError PROVE SignalTypeOK'
    BY <1>0, <2>3 DEF ReportSendError, SignalTypeOK, net, stops, Conn, NoConn
  <2>4. SignalTypeOK'
    BY <1>1, <2>1, <2>2, <2>3 DEF SendStep
  <2>5. QED
    BY <1>0, <1>1, <2>4, OthersInv
       DEF StartSend, SendStep, EndSend, ReportSendError, net, stops, StopCancels
<1>2. ASSUME NEW c \in Conn, Break(c) PROVE SignalInv'
  <2>1. SignalTypeOK'
    BY <1>0, <1>2 DEF Break, SignalTypeOK, status, sends, stops, Conn, NoConn
  <2>2. QED
    BY <1>0, <1>2, <2>1, OthersInv DEF Break, stops, StopCancels
<1>3. QED
  BY <1>1, <1>2

\* Whatever is lost, sent and disconnected meanwhile, signal-cli never has two
\* connections of the adapter to deliver to.
THEOREM OneConnectionOnly == SignalSpec => []ConnectionInv
<1>1. SignalInit => SignalInv
  BY SignalInitInv
<1>2. SignalInv /\ [SignalNext]_signalVars => SignalInv'
  <2>1. ASSUME SignalInv, UNCHANGED signalVars PROVE SignalInv'
    BY <2>1 DEF SignalInv, SignalTypeOK, NewestAlive, CurrentNewest, ReadsNewest, StopCancels,
                signalVars, Conn, NoConn
  <2>2. QED
    BY <2>1, LoopStepInv, StopStepInv, SendAndBreakInv DEF SignalNext
<1>3. SignalInv => ConnectionInv
  BY DEF SignalInv, NewestAlive, ConnectionInv, OneConnection
<1>4. QED
  BY <1>1, <1>2, <1>3, PTL DEF SignalSpec
=============================================================================
