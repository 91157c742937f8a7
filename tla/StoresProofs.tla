---------------------------- MODULE StoresProofs -----------------------------
(***************************************************************************)
(* Proofs about the memory store's backends: for any writers, any history  *)
(* length and any reads, in each backend.  The inductive invariant says    *)
(* that the messages held are always the newest ones, without a gap, and   *)
(* what the rest of them left for.                                         *)
(***************************************************************************)
EXTENDS Stores, SequenceTheorems, FiniteSetTheorems, TLAPS

\* The rows are the newest messages, all of them from some number on.
Contiguous ==
  /\ rows \in Seq(Nat) /\ Len(rows) <= stored
  /\ \A i \in 1..Len(rows) : rows[i] = stored - Len(rows) + i

\* Those before them were wiped, or there are enough newer ones.
Covered == stored - Len(rows) <= wiped \/ (Capped /\ Len(rows) >= MaxHistory)

\* A writer that is about to acknowledge a message has set the key's expiry, and
\* it is still set unless the message is gone.
Expiring ==
  backend = "redis" =>
    \A w \in Writer : pc[w] = "ack" => expires \/ mine[w] \notin ToSet(rows)

\* A busy writer has stored a message, and only a capped backend prunes.
Busy ==
  /\ \A w \in Writer : /\ pc[w] # "idle" => mine[w] # 0
                       /\ pc[w] = "prune" => Capped
                       /\ pc[w] = "expire" => backend = "redis"
                       /\ pc[w] = "vector" => backend = "hybrid"
  /\ answer = [w \in Writer |-> answer[w]]

IInv ==
  /\ TypeOK /\ Contiguous /\ Covered /\ Expiring /\ Busy
  /\ CapExceededByUncut /\ KeyExpires /\ AnswersInOrder

-----------------------------------------------------------------------------
(* Lemmas about contiguous rows and their newest part.                       *)

\* The set of the rows' messages.
LEMMA RowsSet ==
  ASSUME NEW r \in Seq(Nat), NEW n \in Nat, Len(r) <= n,
         \A i \in 1..Len(r) : r[i] = n - Len(r) + i
  PROVE  /\ \A m \in Nat : m \in ToSet(r) <=> n - Len(r) < m /\ m <= n
         /\ ToSet(r) \subseteq 1..n
         /\ IsInjective(r)
<1>1. Len(r) \in Nat /\ DOMAIN r = 1..Len(r)
  BY LenProperties
<1>2. ASSUME NEW m \in Nat, m \in ToSet(r) PROVE n - Len(r) < m /\ m <= n
  BY <1>1, <1>2 DEF ToSet
<1>3. ASSUME NEW m \in Nat, n - Len(r) < m, m <= n PROVE m \in ToSet(r)
  <2>1. m - (n - Len(r)) \in 1..Len(r)
    BY <1>1, <1>3
  <2>2. r[m - (n - Len(r))] = m
    BY <1>1, <1>3, <2>1
  <2>3. QED
    BY <1>1, <2>1, <2>2 DEF ToSet
<1>4. ToSet(r) \subseteq 1..n
  BY <1>1 DEF ToSet
<1>5. IsInjective(r)
  BY <1>1 DEF IsInjective
<1>6. QED
  BY <1>2, <1>3, <1>4, <1>5

\* The newest k of a sequence.
LEMMA NewestIs ==
  ASSUME NEW S, NEW r \in Seq(S), NEW k \in Nat, k > 0
  PROVE  /\ Newest(r, k) \in Seq(S)
         /\ Len(Newest(r, k)) = IF Len(r) > k THEN k ELSE Len(r)
         /\ \A i \in 1..Len(Newest(r, k)) :
              /\ Newest(r, k)[i] = r[Len(r) - Len(Newest(r, k)) + i]
              /\ Len(r) - Len(Newest(r, k)) + i \in 1..Len(r)
         /\ Newest(r, k) \in Suffixes(r)
<1> DEFINE from == (IF Len(r) > k THEN Len(r) - k ELSE 0) + 1
<1>1. Len(r) \in Nat /\ DOMAIN r = 1..Len(r)
  BY LenProperties
<1>2. from \in Nat /\ from >= 1 /\ from <= Len(r) + 1
      /\ Len(r) - from + 1 = IF Len(r) > k THEN k ELSE Len(r)
  BY <1>1
<1>3. Newest(r, k) = SubSeq(r, from, Len(r))
  BY DEF Newest
<1> HIDE DEF from
<1>4. \A i \in from..Len(r) : r[i] \in S
  BY <1>1, <1>2, ElementOfSeq
<1>5. /\ SubSeq(r, from, Len(r)) \in Seq(S)
      /\ Len(SubSeq(r, from, Len(r))) = IF from <= Len(r) THEN Len(r) - from + 1 ELSE 0
      /\ \A i \in 1..(Len(r) - from + 1) : SubSeq(r, from, Len(r))[i] = r[from + i - 1]
  BY <1>1, <1>2, <1>4, SubSeqProperties
<1>6. Len(Newest(r, k)) = Len(r) - from + 1
  BY <1>1, <1>2, <1>3, <1>5
<1>7. ASSUME NEW i \in 1..Len(Newest(r, k))
      PROVE  /\ Newest(r, k)[i] = r[Len(r) - Len(Newest(r, k)) + i]
             /\ Len(r) - Len(Newest(r, k)) + i \in 1..Len(r)
  <2>1. /\ i \in Nat /\ i >= 1 /\ i <= Len(r) - from + 1
        /\ Len(r) - Len(Newest(r, k)) + i = from + i - 1
    BY <1>1, <1>2, <1>6
  <2>2. QED
    BY <1>1, <1>2, <1>3, <1>5, <2>1
<1>8. Newest(r, k) \in Suffixes(r)
  <2>1. CASE from <= Len(r)
    BY <1>1, <1>2, <1>3, <2>1 DEF Suffixes
  <2>2. CASE from > Len(r)
    <3>1. Len(Newest(r, k)) = 0 /\ Newest(r, k) \in Seq(S)
      BY <1>1, <1>2, <1>3, <1>5, <2>2
    <3>2. Newest(r, k) = << >>
      BY <3>1, EmptySeq
    <3>3. QED
      BY <3>2 DEF Suffixes
  <2>3. QED
    BY <1>1, <1>2, <2>1, <2>2
<1>9. QED
  BY <1>2, <1>3, <1>5, <1>6, <1>7, <1>8

\* Counting the uncut messages held.
LEMMA UncutFinite ==
  ASSUME NEW U, NEW R, NEW n \in Nat, U \subseteq 1..n
  PROVE  IsFiniteSet(U \cap R) /\ Cardinality(U \cap R) \in Nat
<1>1. IsFiniteSet(1..n)
  <2>1. 1 \in Int /\ n \in Int
    OBVIOUS
  <2>2. QED
    BY <2>1, FS_Interval, Zenon
<1>2. U \cap R \in SUBSET (1..n)
  OBVIOUS
<1>3. QED
  BY <1>1, <1>2, FS_Subset, FS_CardinalityType

-----------------------------------------------------------------------------
LEMMA InitInv == Init => IInv
<1> SUFFICES ASSUME Init PROVE IInv
  OBVIOUS
<1>0. /\ MaxStored \in Nat /\ MaxWipes \in Nat /\ MaxHistory \in Nat
      /\ rows = << >> /\ stored = 0 /\ wiped = 0 /\ rows \in Seq(Nat) /\ Len(rows) = 0
      /\ DOMAIN rows = {} /\ ToSet(rows) = {} /\ uncut = {}
  BY StoresAssumption DEF Init, ToSet
<1>1. TypeOK
  <2>1. \A w \in Writer : answer[w] = << >> /\ ToSet(answer[w]) = {}
    BY DEF Init, ToSet
  <2>2. IsInjective(rows)
    BY <1>0 DEF IsInjective
  <2>3. /\ pc \in [Writer -> {"idle", "prune", "expire", "vector", "ack"}]
        /\ mine \in [Writer -> 0..stored]
    BY <1>0 DEF Init
  <2>4. /\ backend \in Backends /\ expires = FALSE /\ wipes \in 0..MaxWipes
        /\ acked = {} /\ stored \in 0..MaxStored /\ wiped \in 0..stored
    BY <1>0 DEF Init
  <2>5. QED
    BY <1>0, <2>1, <2>2, <2>3, <2>4 DEF TypeOK
<1>2. Contiguous /\ Covered
  BY <1>0 DEF Contiguous, Covered
<1>3. Expiring /\ Busy
  BY DEF Init, Expiring, Busy
<1>4. CapExceededByUncut
  <2>1. uncut \cap ToSet(rows) = {} /\ Cardinality({}) = 0
    BY <1>0, FS_EmptySet
  <2>2. QED
    BY <1>0, <2>1 DEF CapExceededByUncut
<1>5. KeyExpires
  BY <1>0 DEF KeyExpires
<1>6. AnswersInOrder
  <2>1. \A w \in Writer : Len(answer[w]) = 0 /\ 1..(0 - 1) = {}
    BY DEF Init
  <2>2. QED
    BY <2>1 DEF AnswersInOrder
<1>7. QED
  BY <1>1, <1>2, <1>3, <1>4, <1>5, <1>6 DEF IInv

\* The message enters at the end.
LEMMA InsertInv == ASSUME IInv, NEW w \in Writer, Insert(w) PROVE IInv'
<1> USE DEF Goto
<1>0. /\ TypeOK /\ Contiguous /\ pc[w] = "idle" /\ stored < MaxStored
      /\ stored' = stored + 1 /\ rows' = Append(rows, stored') /\ uncut' = uncut \cup {stored'}
      /\ mine' = [mine EXCEPT ![w] = stored'] /\ pc' = [pc EXCEPT ![w] = Second]
      /\ UNCHANGED <<backend, expires, answer, wipes, wiped, acked>>
      /\ stored \in Nat /\ MaxStored \in Nat /\ MaxHistory \in Nat
  BY StoresAssumption DEF Insert, IInv, TypeOK
<1>1. /\ stored' \in Nat /\ stored' \in 0..MaxStored /\ stored' \in 1..stored'
      /\ 1..stored \subseteq 1..stored' /\ 0..stored \subseteq 0..stored'
  BY <1>0
<1>2. /\ rows' \in Seq(Nat) /\ Len(rows) \in Nat /\ Len(rows') = Len(rows) + 1
      /\ \A i \in 1..Len(rows) : rows'[i] = rows[i]
      /\ rows'[Len(rows) + 1] = stored'
  BY <1>0, <1>1, AppendProperties DEF Contiguous
<1>3. Contiguous'
  <2>1. \A i \in 1..Len(rows') : i \in 1..Len(rows) \/ i = Len(rows) + 1
    BY <1>2
  <2>2. \A i \in 1..Len(rows) : rows[i] = stored - Len(rows) + i
    BY <1>0 DEF Contiguous
  <2>3. ASSUME NEW i \in 1..Len(rows') PROVE rows'[i] = stored' - Len(rows') + i
    BY <1>0, <1>2, <2>1, <2>2
  <2>4. QED
    BY <1>0, <1>2, <2>3 DEF Contiguous
<1>4. /\ \A m \in Nat : m \in ToSet(rows) <=> stored - Len(rows) < m /\ m <= stored
      /\ ToSet(rows) \subseteq 1..stored
  BY <1>0, RowsSet DEF Contiguous
<1>5. /\ \A m \in Nat : m \in ToSet(rows') <=> stored' - Len(rows') < m /\ m <= stored'
      /\ ToSet(rows') \subseteq 1..stored' /\ IsInjective(rows')
  BY <1>1, <1>3, RowsSet DEF Contiguous
<1>6. ToSet(rows') = ToSet(rows) \cup {stored'}
  <2>1. \A m \in Nat : m \in ToSet(rows') <=> m \in ToSet(rows) \/ m = stored'
    BY <1>0, <1>2, <1>4, <1>5
  <2>2. ToSet(rows) \subseteq Nat /\ ToSet(rows') \subseteq Nat
    BY <1>4, <1>5
  <2>3. QED
    BY <1>1, <2>1, <2>2
<1>7. rows' # << >>
  BY <1>2
<1>8. TypeOK'
  <2>1. mine' \in [Writer -> 0..stored']
    BY <1>0, <1>1 DEF TypeOK
  <2>2. pc' \in [Writer -> {"idle", "prune", "expire", "vector", "ack"}]
    <3>1. Second \in {"idle", "prune", "expire", "vector", "ack"}
      BY <1>0, StoresAssumption DEF Second, TypeOK
    <3>2. QED
      BY <1>0, <3>1 DEF TypeOK
  <2>3. \A v \in Writer : ToSet(answer'[v]) \subseteq 1..stored'
    BY <1>0, <1>1 DEF TypeOK
  <2>4. QED
    BY <1>0, <1>1, <1>5, <1>7, <2>1, <2>2, <2>3 DEF TypeOK
<1>9. Covered'
  BY <1>0, <1>2 DEF IInv, Covered, Capped, TypeOK
<1>10. Expiring'
  <2>1. ASSUME backend' = "redis", NEW v \in Writer, pc'[v] = "ack"
        PROVE  expires' \/ mine'[v] \notin ToSet(rows')
    <3>1. v # w
      BY <1>0, <2>1 DEF Second, TypeOK
    <3>2. pc[v] = "ack" /\ mine'[v] = mine[v] /\ mine[v] \in 0..stored
      BY <1>0, <2>1, <3>1 DEF TypeOK
    <3>3. expires \/ mine[v] \notin ToSet(rows)
      BY <1>0, <2>1, <3>2 DEF IInv, Expiring
    <3>4. QED
      BY <1>0, <1>6, <3>2, <3>3
  <2>2. QED
    BY <2>1 DEF Expiring
<1>11. Busy'
  <2>1. \A v \in Writer : /\ pc'[v] # "idle" => mine'[v] # 0
                          /\ pc'[v] = "prune" => Capped'
                          /\ pc'[v] = "expire" => backend' = "redis"
                          /\ pc'[v] = "vector" => backend' = "hybrid"
    <3>1. ASSUME NEW v \in Writer, v # w
          PROVE  /\ pc'[v] # "idle" => mine'[v] # 0
                 /\ pc'[v] = "prune" => Capped'
                 /\ pc'[v] = "expire" => backend' = "redis"
                 /\ pc'[v] = "vector" => backend' = "hybrid"
      <4>1. pc'[v] = pc[v] /\ mine'[v] = mine[v] /\ Capped' = Capped
        BY <1>0, <3>1 DEF TypeOK, Capped
      <4>2. /\ pc[v] # "idle" => mine[v] # 0
            /\ pc[v] = "prune" => Capped
            /\ pc[v] = "expire" => backend = "redis"
            /\ pc[v] = "vector" => backend = "hybrid"
        BY DEF IInv, Busy
      <4>3. QED
        BY <1>0, <4>1, <4>2
    <3>2. mine'[w] # 0
      BY <1>0, <1>1 DEF TypeOK
    <3>3. pc'[w] = Second /\ Second # "expire"
      BY <1>0, StoresAssumption DEF TypeOK, Second
    <3>4. (Second = "prune" => Capped') /\ (Second = "vector" => backend' = "hybrid")
      BY <1>0, StoresAssumption DEF TypeOK, Second, Capped
    <3>5. QED
      BY <3>1, <3>2, <3>3, <3>4
  <2>2. QED
    BY <1>0, <2>1 DEF IInv, Busy
<1>12. CapExceededByUncut'
  <2>1. uncut \subseteq 1..stored /\ uncut' \subseteq 1..stored'
    BY <1>8, <1>0 DEF TypeOK
  <2>2. uncut' \cap ToSet(rows') = (uncut \cap ToSet(rows)) \cup {stored'}
    <3>1. stored' \notin uncut
      BY <1>0, <2>1
    <3>2. QED
      BY <1>0, <1>6
  <2>3. stored' \notin uncut \cap ToSet(rows)
    BY <1>0, <2>1
  <2>4. IsFiniteSet(uncut \cap ToSet(rows)) /\ Cardinality(uncut \cap ToSet(rows)) \in Nat
    BY <1>0, <2>1, UncutFinite
  <2>5. Cardinality((uncut \cap ToSet(rows)) \cup {stored'})
          = Cardinality(uncut \cap ToSet(rows)) + 1
    BY <2>3, <2>4, FS_AddElement
  <2>6. Cardinality(uncut' \cap ToSet(rows')) = Cardinality(uncut \cap ToSet(rows)) + 1
    BY <2>2, <2>5
  <2>7. Capped' = Capped /\ CapExceededByUncut
    BY <1>0 DEF Capped, IInv
  <2>8. Capped' => Len(rows') <= MaxHistory + Cardinality(uncut' \cap ToSet(rows'))
    BY <1>0, <1>2, <2>4, <2>6, <2>7 DEF CapExceededByUncut
  <2>9. QED
    BY <2>8 DEF CapExceededByUncut
<1>13. KeyExpires'
  <2>1. ASSUME backend = "redis", ~expires PROVE ToSet(rows') \cap acked = {}
    <3>1. ToSet(rows) \cap acked = {}
      <4>1. CASE rows = << >>
        <5>1. ToSet(rows) = {}
          BY <4>1 DEF ToSet
        <5>2. QED
          BY <5>1
      <4>2. CASE rows # << >>
        BY <2>1, <4>2 DEF IInv, KeyExpires
      <4>3. QED
        BY <4>1, <4>2
    <3>2. stored' \notin acked
      BY <1>0 DEF TypeOK
    <3>3. QED
      BY <1>6, <3>1, <3>2
  <2>2. QED
    BY <1>0, <2>1 DEF KeyExpires
<1>14. AnswersInOrder'
  BY <1>0 DEF IInv, AnswersInOrder
<1>15. QED
  BY <1>3, <1>8, <1>9, <1>10, <1>11, <1>12, <1>13, <1>14 DEF IInv

\* The newest of the rows are contiguous, too.
LEMMA NewestHeld ==
  ASSUME Contiguous, stored \in Nat, NEW k \in Nat, k > 0
  PROVE  /\ Newest(rows, k) \in Seq(Nat) /\ Len(Newest(rows, k)) \in Nat
         /\ Len(Newest(rows, k)) = IF Len(rows) > k THEN k ELSE Len(rows)
         /\ Len(Newest(rows, k)) <= stored
         /\ \A i \in 1..Len(Newest(rows, k)) :
              Newest(rows, k)[i] = stored - Len(Newest(rows, k)) + i
         /\ ToSet(Newest(rows, k)) \subseteq ToSet(rows)
         /\ ToSet(Newest(rows, k)) \subseteq 1..stored
         /\ IsInjective(Newest(rows, k))
         /\ rows # << >> => Newest(rows, k) # << >>
<1> DEFINE new == Newest(rows, k)
<1>1. /\ rows \in Seq(Nat) /\ Len(rows) \in Nat /\ DOMAIN rows = 1..Len(rows)
      /\ \A i \in 1..Len(rows) : rows[i] = stored - Len(rows) + i
      /\ Len(rows) <= stored
  BY LenProperties DEF Contiguous
<1>2. /\ new \in Seq(Nat) /\ Len(new) = IF Len(rows) > k THEN k ELSE Len(rows)
      /\ \A i \in 1..Len(new) : /\ new[i] = rows[Len(rows) - Len(new) + i]
                                /\ Len(rows) - Len(new) + i \in 1..Len(rows)
  BY <1>1, NewestIs
<1> HIDE DEF new
<1>3. Len(new) \in Nat /\ DOMAIN new = 1..Len(new) /\ Len(new) <= stored
  BY <1>1, <1>2, LenProperties
<1>4. \A i \in 1..Len(new) : new[i] = stored - Len(new) + i
  <2>1. ASSUME NEW i \in 1..Len(new) PROVE new[i] = stored - Len(new) + i
    <3>1. rows[Len(rows) - Len(new) + i] = stored - Len(rows) + (Len(rows) - Len(new) + i)
      BY <1>1, <1>2
    <3>2. new[i] = rows[Len(rows) - Len(new) + i]
      BY <1>2
    <3>3. i \in Nat /\ stored - Len(rows) + (Len(rows) - Len(new) + i) = stored - Len(new) + i
      BY <1>1, <1>3
    <3>4. QED
      BY <3>1, <3>2, <3>3
  <2>2. QED
    BY <2>1
<1>5. ToSet(new) \subseteq ToSet(rows)
  BY <1>1, <1>2, <1>3 DEF ToSet
<1>6. ToSet(new) \subseteq 1..stored /\ IsInjective(new)
  BY <1>2, <1>3, <1>4, RowsSet
<1>7. rows # << >> => new # << >>
  <2>1. ASSUME rows # << >> PROVE new # << >>
    <3>1. Len(rows) > 0
      BY <1>1, <2>1, EmptySeq
    <3>2. Len(new) > 0
      BY <1>1, <1>2, <3>1
    <3>3. QED
      BY <3>2
  <2>2. QED
    BY <2>1
<1>8. QED
  BY <1>2, <1>3, <1>4, <1>5, <1>6, <1>7 DEF new

\* The rows are cut to the newest MaxHistory.
LEMMA PruneInv == ASSUME IInv, NEW w \in Writer, Prune(w) PROVE IInv'
<1>0. /\ TypeOK /\ Contiguous /\ pc[w] = "prune"
      /\ rows' = Newest(rows, MaxHistory) /\ uncut' = uncut \ {mine[w]}
      /\ pc' = [pc EXCEPT ![w] = IF backend = "redis" THEN "expire" ELSE "ack"]
      /\ UNCHANGED <<backend, stored, expires, mine, answer, wipes, wiped, acked>>
      /\ stored \in Nat /\ MaxHistory \in Nat /\ MaxHistory > 0
  BY StoresAssumption DEF Prune, Goto, IInv, TypeOK
<1>1. /\ rows' \in Seq(Nat) /\ Len(rows') \in Nat /\ Len(rows') <= stored
      /\ Len(rows') = IF Len(rows) > MaxHistory THEN MaxHistory ELSE Len(rows)
      /\ \A i \in 1..Len(rows') : rows'[i] = stored - Len(rows') + i
      /\ ToSet(rows') \subseteq ToSet(rows) /\ ToSet(rows') \subseteq 1..stored
      /\ IsInjective(rows') /\ (rows # << >> => rows' # << >>)
  BY <1>0, NewestHeld
<1>2. Len(rows) \in Nat /\ Len(rows) <= stored
  BY <1>0, LenProperties DEF Contiguous
<1>3. Contiguous'
  BY <1>0, <1>1 DEF Contiguous
<1>4. TypeOK'
  <2>1. pc' \in [Writer -> {"idle", "prune", "expire", "vector", "ack"}]
    BY <1>0 DEF TypeOK
  <2>2. QED
    BY <1>0, <1>1, <2>1 DEF TypeOK
<1>5. Capped /\ Capped'
  BY <1>0 DEF Capped, IInv, Busy
<1>6. Covered'
  BY <1>0, <1>1, <1>2, <1>5 DEF IInv, Covered, TypeOK
<1>7. Expiring'
  BY <1>0, <1>1 DEF IInv, Expiring, TypeOK
<1>8. Busy'
  BY <1>0 DEF IInv, Busy, TypeOK, Capped
<1>9. CapExceededByUncut'
  <2>1. uncut' \subseteq 1..stored
    BY <1>0 DEF TypeOK
  <2>2. Cardinality(uncut' \cap ToSet(rows')) \in Nat
    BY <1>0, <2>1, UncutFinite
  <2>3. Len(rows') <= MaxHistory + Cardinality(uncut' \cap ToSet(rows'))
    BY <1>0, <1>1, <1>2, <2>2
  <2>4. QED
    BY <1>0, <2>3 DEF CapExceededByUncut
<1>10. KeyExpires'
  <2>1. rows' # << >> => rows # << >>
    <3>1. rows = << >> => Len(rows) = 0
      OBVIOUS
    <3>2. rows' # << >> => Len(rows') > 0
      BY <1>1, EmptySeq
    <3>3. QED
      BY <1>0, <1>1, <3>1, <3>2
  <2>2. QED
    BY <1>0, <1>1, <2>1 DEF IInv, KeyExpires
<1>11. AnswersInOrder'
  BY <1>0 DEF IInv, AnswersInOrder
<1>12. QED
  BY <1>3, <1>4, <1>6, <1>7, <1>8, <1>9, <1>10, <1>11 DEF IInv

\* The key's time to live is set, unless the key is gone.
LEMMA SetExpiryInv == ASSUME IInv, NEW w \in Writer, SetExpiry(w) PROVE IInv'
<1>0. /\ TypeOK /\ pc[w] = "expire" /\ expires' = (rows # << >>)
      /\ pc' = [pc EXCEPT ![w] = "ack"]
      /\ UNCHANGED <<backend, stored, rows, mine, answer, wipes, wiped, acked, uncut>>
  BY DEF SetExpiry, Goto, IInv
<1>1. backend = "redis"
  BY <1>0 DEF IInv, Busy
<1>2. TypeOK'
  <2>1. pc' \in [Writer -> {"idle", "prune", "expire", "vector", "ack"}]
    BY <1>0 DEF TypeOK
  <2>2. expires' \in BOOLEAN /\ (expires' => backend' = "redis" /\ rows' # << >>)
    BY <1>0, <1>1
  <2>3. QED
    BY <1>0, <2>1, <2>2 DEF TypeOK
<1>3. Contiguous' /\ Covered'
  BY <1>0 DEF IInv, Contiguous, Covered, Capped
<1>4. Expiring'
  <2>1. rows = << >> => ToSet(rows) = {}
    BY DEF ToSet
  <2>2. QED
    BY <1>0, <2>1 DEF Expiring
<1>5. Busy'
  BY <1>0 DEF IInv, Busy, TypeOK, Capped
<1>6. CapExceededByUncut' /\ KeyExpires' /\ AnswersInOrder'
  BY <1>0 DEF IInv, CapExceededByUncut, KeyExpires, AnswersInOrder, Capped
<1>7. QED
  BY <1>2, <1>3, <1>4, <1>5, <1>6 DEF IInv

\* The ranked store's second half changes nothing of the first.
LEMMA AddVectorInv == ASSUME IInv, NEW w \in Writer, AddVector(w) PROVE IInv'
<1>0. /\ TypeOK /\ pc[w] = "vector" /\ pc' = [pc EXCEPT ![w] = "ack"]
      /\ UNCHANGED <<backend, stored, rows, expires, mine, answer, wipes, wiped, acked, uncut>>
  BY DEF AddVector, Goto, IInv
<1>1. backend # "redis"
  BY <1>0 DEF IInv, Busy
<1>2. TypeOK'
  <2>1. pc' \in [Writer -> {"idle", "prune", "expire", "vector", "ack"}]
    BY <1>0 DEF TypeOK
  <2>2. QED
    BY <1>0, <2>1 DEF TypeOK
<1>3. Contiguous' /\ Covered'
  BY <1>0 DEF IInv, Contiguous, Covered, Capped
<1>4. Expiring'
  BY <1>0, <1>1 DEF Expiring
<1>5. Busy'
  BY <1>0 DEF IInv, Busy, TypeOK, Capped
<1>6. CapExceededByUncut' /\ KeyExpires' /\ AnswersInOrder'
  BY <1>0 DEF IInv, CapExceededByUncut, KeyExpires, AnswersInOrder, Capped
<1>7. QED
  BY <1>2, <1>3, <1>4, <1>5, <1>6 DEF IInv

\* An acknowledged message's key expires, or the message is already gone.
LEMMA AckInv == ASSUME IInv, NEW w \in Writer, Ack(w) PROVE IInv'
<1>0. /\ TypeOK /\ pc[w] = "ack" /\ acked' = acked \cup {mine[w]}
      /\ pc' = [pc EXCEPT ![w] = "idle"]
      /\ UNCHANGED <<backend, stored, rows, expires, mine, answer, wipes, wiped, uncut>>
  BY DEF Ack, Goto, IInv
<1>1. mine[w] \in 1..stored
  <2>1. mine[w] # 0 /\ mine[w] \in 0..stored /\ stored \in Nat
    BY <1>0, StoresAssumption DEF IInv, Busy, TypeOK
  <2>2. QED
    BY <2>1
<1>2. TypeOK'
  <2>1. pc' \in [Writer -> {"idle", "prune", "expire", "vector", "ack"}]
    BY <1>0 DEF TypeOK
  <2>2. QED
    BY <1>0, <1>1, <2>1 DEF TypeOK
<1>3. Contiguous' /\ Covered'
  BY <1>0 DEF IInv, Contiguous, Covered, Capped
<1>4. Expiring'
  BY <1>0 DEF IInv, Expiring, TypeOK
<1>5. Busy'
  BY <1>0 DEF IInv, Busy, TypeOK, Capped
<1>6. CapExceededByUncut' /\ AnswersInOrder'
  BY <1>0 DEF IInv, CapExceededByUncut, AnswersInOrder, Capped
<1>7. KeyExpires'
  <2>1. ASSUME backend = "redis", rows # << >>, ~expires PROVE ToSet(rows) \cap acked' = {}
    <3>1. ToSet(rows) \cap acked = {}
      BY <2>1 DEF IInv, KeyExpires
    <3>2. mine[w] \notin ToSet(rows)
      BY <1>0, <2>1 DEF IInv, Expiring
    <3>3. QED
      BY <1>0, <3>1, <3>2
  <2>2. QED
    BY <1>0, <2>1 DEF KeyExpires
<1>8. QED
  BY <1>2, <1>3, <1>4, <1>5, <1>6, <1>7 DEF IInv

\* A write that fails leaves what it did.
LEMMA FailInv == ASSUME IInv, NEW w \in Writer, Fail(w) PROVE IInv'
<1>0. /\ TypeOK /\ pc' = [pc EXCEPT ![w] = "idle"]
      /\ UNCHANGED <<backend, stored, rows, expires, mine, answer, wipes, wiped, acked, uncut>>
  BY DEF Fail, Goto, IInv
<1>1. TypeOK'
  <2>1. pc' \in [Writer -> {"idle", "prune", "expire", "vector", "ack"}]
    BY <1>0 DEF TypeOK
  <2>2. QED
    BY <1>0, <2>1 DEF TypeOK
<1>2. Contiguous' /\ Covered'
  BY <1>0 DEF IInv, Contiguous, Covered, Capped
<1>3. Expiring'
  BY <1>0 DEF IInv, Expiring, TypeOK
<1>4. Busy'
  BY <1>0 DEF IInv, Busy, TypeOK, Capped
<1>5. CapExceededByUncut' /\ KeyExpires' /\ AnswersInOrder'
  BY <1>0 DEF IInv, CapExceededByUncut, KeyExpires, AnswersInOrder, Capped
<1>6. QED
  BY <1>1, <1>2, <1>3, <1>4, <1>5 DEF IInv

\* A read returns messages held, and the newest ones in order unless they are ranked.
LEMMA ReadInv == ASSUME IInv, NEW w \in Writer, NEW n \in Limit, Read(w, n) PROVE IInv'
<1>0. /\ TypeOK /\ Contiguous /\ answer = [v \in Writer |-> answer[v]]
      /\ UNCHANGED <<backend, stored, rows, expires, pc, mine, wipes, wiped, acked, uncut>>
      /\ stored \in Nat /\ n \in Nat /\ n > 0
  BY StoresAssumption DEF Read, IInv, TypeOK, Busy
<1>1. PICK a \in Chosen(n) : answer' = [answer EXCEPT ![w] = a]
  BY DEF Read
<1>2. /\ Len(Newest(rows, n)) \in Nat
      /\ \A i \in 1..Len(Newest(rows, n)) :
           Newest(rows, n)[i] = stored - Len(Newest(rows, n)) + i
      /\ ToSet(Newest(rows, n)) \subseteq 1..stored
  BY <1>0, NewestHeld
<1>3. ToSet(a) \subseteq 1..stored
  <2>0. ToSet(rows) \subseteq 1..stored
    BY <1>0 DEF TypeOK
  <2>1. CASE backend \notin {"vector", "hybrid"}
    BY <1>1, <1>2, <2>1 DEF Chosen
  <2>2. CASE backend = "hybrid" /\ Len(rows) <= n
    BY <1>1, <2>0, <2>2 DEF Chosen, Ranked
  <2>3. CASE backend = "hybrid" /\ ~(Len(rows) <= n)
    <3>1. a \in [1..n -> ToSet(rows)]
      BY <1>1, <2>3 DEF Chosen, Ranked
    <3>2. QED
      BY <2>0, <3>1 DEF ToSet
  <2>4. CASE backend = "vector"
    <3>1. a \in Retrieved(n)
      BY <1>1, <2>4 DEF Chosen
    <3>2. PICK k \in 0..n : a \in [1..k -> ToSet(rows)]
      BY <3>1 DEF Retrieved
    <3>3. QED
      BY <2>0, <3>2 DEF ToSet
  <2>5. QED
    BY <2>1, <2>2, <2>3, <2>4
<1>4. \A v \in Writer : answer'[v] = IF v = w THEN a ELSE answer[v]
  BY <1>0, <1>1
<1>5. TypeOK'
  <2>1. \A v \in Writer : ToSet(answer'[v]) \subseteq 1..stored
    BY <1>0, <1>3, <1>4 DEF TypeOK
  <2>2. QED
    BY <1>0, <2>1 DEF TypeOK
<1>6. Contiguous' /\ Covered' /\ Expiring'
  BY <1>0 DEF IInv, Contiguous, Covered, Capped, Expiring
<1>7. Busy'
  <2>1. answer' = [v \in Writer |-> answer'[v]]
    BY <1>0, <1>1
  <2>2. QED
    BY <1>0, <2>1 DEF IInv, Busy, Capped
<1>8. CapExceededByUncut' /\ KeyExpires'
  BY <1>0 DEF IInv, CapExceededByUncut, KeyExpires, Capped
<1>9. AnswersInOrder'
  <2>1. ASSUME backend \notin {"vector", "hybrid"}, NEW v \in Writer,
               NEW i \in 1..(Len(answer'[v]) - 1)
        PROVE  answer'[v][i+1] = answer'[v][i] + 1
    <3>1. CASE v # w
      <4>1. answer'[v] = answer[v]
        BY <1>4, <3>1
      <4>2. QED
        BY <2>1, <4>1 DEF IInv, AnswersInOrder
    <3>2. CASE v = w
      <4>1. answer'[v] = Newest(rows, n)
        BY <1>1, <1>4, <2>1, <3>2 DEF Chosen
      <4>2. i \in 1..Len(Newest(rows, n)) /\ i + 1 \in 1..Len(Newest(rows, n)) /\ i \in Nat
        BY <1>2, <2>1, <4>1
      <4>3. /\ Newest(rows, n)[i] = stored - Len(Newest(rows, n)) + i
            /\ Newest(rows, n)[i+1] = stored - Len(Newest(rows, n)) + (i + 1)
        BY <1>2, <4>2
      <4>4. QED
        BY <1>0, <1>2, <4>1, <4>2, <4>3
    <3>3. QED
      BY <3>1, <3>2
  <2>2. QED
    BY <1>0, <2>1 DEF AnswersInOrder
<1>10. QED
  BY <1>5, <1>6, <1>7, <1>8, <1>9 DEF IInv

\* Nothing is left after a wipe, whatever the callers are doing.
LEMMA WipeHistory ==
  ASSUME IInv, Wipe, UNCHANGED <<backend, stored, acked, uncut>>
  PROVE  /\ Contiguous' /\ Covered' /\ CapExceededByUncut' /\ KeyExpires'
         /\ rows' = << >> /\ ToSet(rows') = {} /\ IsInjective(rows')
         /\ expires' = FALSE /\ wipes' \in 0..MaxWipes /\ wiped' \in 0..stored
<1>0. /\ TypeOK /\ rows' = << >> /\ wiped' = stored /\ wipes' = wipes + 1
      /\ wipes < MaxWipes /\ expires' = FALSE /\ stored' = stored /\ uncut' = uncut
      /\ stored \in Nat /\ MaxWipes \in Nat /\ MaxHistory \in Nat
  BY StoresAssumption DEF Wipe, IInv, TypeOK
<1>1. /\ rows' \in Seq(Nat) /\ Len(rows') = 0 /\ DOMAIN rows' = {} /\ ToSet(rows') = {}
      /\ IsInjective(rows')
  BY <1>0 DEF ToSet, IsInjective
<1>2. Contiguous' /\ Covered' /\ KeyExpires'
  BY <1>0, <1>1 DEF Contiguous, Covered, KeyExpires
<1>3. CapExceededByUncut'
  <2>1. uncut' \cap ToSet(rows') = {} /\ Cardinality({}) = 0
    BY <1>1, FS_EmptySet
  <2>2. Cardinality(uncut' \cap ToSet(rows')) = 0
    BY <2>1
  <2>3. Len(rows') <= MaxHistory + Cardinality(uncut' \cap ToSet(rows'))
    BY <1>0, <1>1, <2>2
  <2>4. QED
    BY <2>3 DEF CapExceededByUncut
<1>4. wipes' \in 0..MaxWipes /\ wiped' \in 0..stored
  BY <1>0 DEF TypeOK
<1>5. QED
  BY <1>0, <1>1, <1>2, <1>3, <1>4

\* A clear, or the key's end.
LEMMA ClearInv == ASSUME IInv, Clear PROVE IInv'
<1>0. /\ TypeOK /\ Wipe /\ UNCHANGED <<backend, stored, pc, mine, answer, acked, uncut>>
  BY DEF Clear, IInv
<1>1. /\ Contiguous' /\ Covered' /\ CapExceededByUncut' /\ KeyExpires'
      /\ rows' = << >> /\ ToSet(rows') = {} /\ IsInjective(rows')
      /\ expires' = FALSE /\ wipes' \in 0..MaxWipes /\ wiped' \in 0..stored
  BY <1>0, WipeHistory
<1>2. TypeOK'
  BY <1>0, <1>1 DEF TypeOK
<1>3. Expiring'
  BY <1>1 DEF Expiring
<1>4. Busy' /\ AnswersInOrder'
  BY <1>0 DEF IInv, Busy, AnswersInOrder, Capped
<1>5. QED
  BY <1>1, <1>2, <1>3, <1>4 DEF IInv

\* A restart drops the callers, and the rows of a store in the process's memory.
LEMMA RestartInv == ASSUME IInv, Restart PROVE IInv'
<1>0. /\ TypeOK /\ pc' = [w \in Writer |-> "idle"] /\ mine' = [w \in Writer |-> 0]
      /\ answer' = [w \in Writer |-> << >>] /\ UNCHANGED <<backend, stored, acked, uncut>>
      /\ stored \in Nat /\ MaxWipes \in Nat
  BY StoresAssumption DEF Restart, IInv, TypeOK
<1>1. /\ Contiguous' /\ Covered' /\ CapExceededByUncut' /\ KeyExpires'
      /\ IsInjective(rows') /\ ToSet(rows') \subseteq 1..stored
      /\ expires' \in BOOLEAN /\ (expires' => backend' = "redis" /\ rows' # << >>)
      /\ wipes' \in 0..MaxWipes /\ wiped' \in 0..stored
  <2>1. CASE Capped
    <3>1. wipes < MaxWipes /\ wipes' = wipes + 1 /\ UNCHANGED <<wiped, rows, expires>>
      BY <2>1 DEF Restart
    <3>2. Contiguous' /\ Covered' /\ CapExceededByUncut' /\ KeyExpires'
      BY <1>0, <3>1
         DEF IInv, Contiguous, Covered, CapExceededByUncut, KeyExpires, Capped
    <3>3. wipes' \in 0..MaxWipes
      BY <1>0, <3>1 DEF TypeOK
    <3>4. QED
      BY <1>0, <3>1, <3>2, <3>3 DEF TypeOK
  <2>2. CASE ~Capped
    <3>1. Wipe
      BY <2>2 DEF Restart
    <3>2. /\ Contiguous' /\ Covered' /\ CapExceededByUncut' /\ KeyExpires'
          /\ ToSet(rows') = {} /\ IsInjective(rows')
          /\ expires' = FALSE /\ wipes' \in 0..MaxWipes /\ wiped' \in 0..stored
      BY <1>0, <3>1, WipeHistory
    <3>3. QED
      BY <3>2
  <2>3. QED
    BY <2>1, <2>2
<1>2. \A w \in Writer : /\ answer'[w] = << >> /\ ToSet(answer'[w]) = {}
                        /\ pc'[w] = "idle" /\ Len(answer'[w]) = 0
  BY <1>0 DEF ToSet
<1>3. TypeOK'
  <2>1. /\ pc' \in [Writer -> {"idle", "prune", "expire", "vector", "ack"}]
        /\ mine' \in [Writer -> 0..stored]
    BY <1>0
  <2>2. QED
    BY <1>0, <1>1, <1>2, <2>1 DEF TypeOK
<1>4. Expiring' /\ Busy'
  BY <1>0, <1>2 DEF Expiring, Busy
<1>5. AnswersInOrder'
  <2>1. 1..(0 - 1) = {}
    OBVIOUS
  <2>2. QED
    BY <1>2, <2>1 DEF AnswersInOrder
<1>6. QED
  BY <1>1, <1>3, <1>4, <1>5 DEF IInv

LEMMA StepInv == ASSUME IInv, [Next]_vars PROVE IInv'
<1>1. CASE Next
  <2>1. ASSUME NEW w \in Writer,
               Insert(w) \/ Prune(w) \/ SetExpiry(w) \/ AddVector(w) \/ Ack(w) \/ Fail(w)
        PROVE  IInv'
    BY <2>1, InsertInv, PruneInv, SetExpiryInv, AddVectorInv, AckInv, FailInv
  <2>2. ASSUME NEW w \in Writer, NEW n \in Limit, Read(w, n) PROVE IInv'
    BY <2>2, ReadInv
  <2>3. CASE Clear \/ Expiry
    BY <2>3, ClearInv DEF Expiry
  <2>4. CASE Restart
    BY <2>4, RestartInv
  <2>5. QED
    BY <1>1, <2>1, <2>2, <2>3, <2>4 DEF Next
<1>2. CASE UNCHANGED vars
  BY <1>2 DEF vars, IInv, TypeOK, Contiguous, Covered, Expiring, Busy,
              CapExceededByUncut, KeyExpires, AnswersInOrder, Capped
<1>3. QED
  BY <1>1, <1>2

-----------------------------------------------------------------------------
\* In every backend, with any number of writers: the state is well formed, a
\* capped history exceeds MaxHistory only by messages whose writers have not
\* cut it, the Redis key is without a time to live only while it holds nothing
\* acknowledged, and what a read returned is an interval of the order of arrival.
THEOREM StoresCorrect == Spec => []HistoryInv
<1>1. Init => IInv
  BY InitInv
<1>2. IInv /\ [Next]_vars => IInv'
  BY StepInv
<1>3. IInv => HistoryInv
  BY DEF IInv, HistoryInv
<1>4. QED
  BY <1>1, <1>2, <1>3, PTL DEF Spec

\* A message whose AddMessage returned no error is held until a wipe, or until
\* MaxHistory newer ones have entered a capped history, whichever writers prune,
\* fail or restart in between.
THEOREM AcknowledgedIsKept == Spec => []AckedKept
<1>1. Init => IInv
  BY InitInv
<1>2. IInv /\ [Next]_vars => IInv'
  BY StepInv
<1>3. IInv => AckedKept
  <2> SUFFICES ASSUME IInv, NEW m \in acked
               PROVE  m \in ToSet(rows) \/ m <= wiped \/ (Capped /\ stored - m >= MaxHistory)
    BY DEF AckedKept
  <2>0. stored \in Nat /\ wiped \in Nat /\ acked \subseteq 1..stored /\ rows \in Seq(Nat)
    BY StoresAssumption DEF IInv, TypeOK, Contiguous
  <2>1. /\ m \in Nat /\ m <= stored /\ stored \in Nat /\ wiped \in Nat /\ MaxHistory \in Nat
        /\ Len(rows) \in Nat
    <3>1. m \in Nat /\ m <= stored
      BY <2>0
    <3>2. MaxHistory \in Nat /\ Len(rows) \in Nat
      BY <2>0, StoresAssumption, LenProperties
    <3>3. QED
      BY <2>0, <3>1, <3>2
  <2>2. m \in ToSet(rows) <=> stored - Len(rows) < m /\ m <= stored
    BY <2>1, RowsSet DEF IInv, Contiguous
  <2>3. QED
    BY <2>1, <2>2 DEF IInv, Covered
<1>4. QED
  BY <1>1, <1>2, <1>3, PTL DEF Spec

\* Every backend implements a History: an insert enters at the end, pruning and
\* wiping take only from the beginning, and nothing else touches the messages.
THEOREM StoresKeepPromise == Spec => KeepsPromise
<1>1. Init => IInv /\ Promise!Init
  BY InitInv DEF Init, Promise!Init
<1>2. IInv /\ [Next]_vars => IInv'
  BY StepInv
<1>3. ASSUME IInv, [Next]_vars
      PROVE  [Promise!Enter \/ Promise!Leave]_<<stored, rows>>
  <2>0. rows \in Seq(Nat) /\ stored \in Nat /\ MaxHistory \in Nat /\ MaxHistory > 0
    BY <1>3, StoresAssumption DEF IInv, TypeOK, Contiguous
  <2>1. ASSUME NEW w \in Writer, Insert(w) PROVE Promise!Enter
    <3>1. stored' = stored + 1 /\ rows' = Append(rows, stored')
      BY <2>1 DEF Insert
    <3>2. /\ rows' \in Seq(Nat) /\ Len(rows') \in Nat /\ Len(rows') >= 1
      BY <2>0, <3>1, AppendProperties
    <3>3. rows' = SubSeq(rows', 1, Len(rows')) /\ 1 \in 1..Len(rows')
      BY <3>2, SubSeqFull
    <3>4. rows' \in Suffixes(rows')
      BY <3>3 DEF Suffixes
    <3>5. QED
      BY <3>1, <3>4 DEF Promise!Enter, Suffixes, Promise!Suffixes
  <2>2. ASSUME NEW w \in Writer, Prune(w) PROVE Promise!Leave
    <3>1. stored' = stored /\ rows' = Newest(rows, MaxHistory)
      BY <2>2 DEF Prune
    <3>2. Newest(rows, MaxHistory) \in Suffixes(rows)
      BY <2>0, NewestIs
    <3>3. QED
      BY <3>1, <3>2 DEF Promise!Leave, Suffixes, Promise!Suffixes
  <2>3. ASSUME Wipe, stored' = stored PROVE Promise!Leave
    <3>1. rows' = << >> /\ << >> \in Suffixes(rows)
      BY <2>3 DEF Wipe, Suffixes
    <3>2. QED
      BY <2>3, <3>1 DEF Promise!Leave, Suffixes, Promise!Suffixes
  <2>4. CASE Clear \/ Expiry
    BY <2>3, <2>4 DEF Clear, Expiry
  <2>5. CASE Restart
    BY <2>3, <2>5 DEF Restart
  <2>6. ASSUME NEW w \in Writer,
               SetExpiry(w) \/ AddVector(w) \/ Ack(w) \/ Fail(w) \/ \E n \in Limit : Read(w, n)
        PROVE  UNCHANGED <<stored, rows>>
    BY <2>6 DEF SetExpiry, AddVector, Ack, Fail, Read
  <2>7. CASE UNCHANGED vars
    BY <2>7 DEF vars
  <2>8. QED
    BY <1>3, <2>1, <2>2, <2>4, <2>5, <2>6, <2>7 DEF Next
<1>4. QED
  BY <1>1, <1>2, <1>3, PTL DEF Spec, KeepsPromise, Promise!Spec
=============================================================================
