------------------------------- MODULE Stores -------------------------------
(***************************************************************************)
(* One user's history in the memory store's backends                       *)
(* (internal/memory): the Go map (inmemory.go), the database (sqlite.go),  *)
(* the server (redis.go), the embedded messages (vector.go) and the ranked *)
(* store, which holds them and the plain ones (hybrid.go).                 *)
(*                                                                         *)
(* The database inserts and prunes in two statements without a             *)
(* transaction; the server executes a pipeline's commands one by one; the  *)
(* ranked store writes its two halves one after the other.  Writers (the   *)
(* turns of the user's loops, requests and handlers, and summary jobs) are *)
(* not ordered with each other.                                            *)
(***************************************************************************)
EXTENDS Naturals, Sequences, FiniteSets, SequencesExt

CONSTANTS
  Backends,  \* the backends to explore
  Writer,    \* the callers that are active at a time
  MaxHistory, \* max_history
  Limit,     \* the history lengths callers ask for
  MaxStored, \* bound: messages stored
  MaxWipes   \* bound: clears, expiries and restarts

ASSUME StoresAssumption ==
  /\ Backends \subseteq {"inmemory", "sqlite", "redis", "vector", "hybrid"}
  /\ MaxHistory \in Nat \ {0}
  /\ Limit \subseteq Nat \ {0}
  /\ MaxStored \in Nat /\ MaxWipes \in Nat

VARIABLES
  backend,  \* the one the configuration names
  stored,   \* messages entered so far; they are numbered in that order
  rows,     \* the messages held, oldest first
  expires,  \* redis: the key has a time to live
  pc, mine, \* writer -> where it is, the message it stores or stored last
  answer,   \* writer -> the messages its last read returned
  wipes, wiped, \* wipes so far; history: messages entered by the last one
  acked,    \* history: messages whose AddMessage returned no error
  uncut     \* history: messages whose AddMessage has not cut the rows to MaxHistory

vars == <<backend, stored, rows, expires, pc, mine, answer, wipes, wiped, acked,
          uncut>>

Init ==
  /\ backend \in Backends
  /\ stored = 0 /\ rows = << >> /\ expires = FALSE
  /\ pc = [w \in Writer |-> "idle"]
  /\ mine = [w \in Writer |-> 0]
  /\ answer = [w \in Writer |-> << >>]
  /\ wipes = 0 /\ wiped = 0
  /\ acked = {} /\ uncut = {}

Capped == backend \in {"sqlite", "redis"}
Newest(s, n) == SubSeq(s, (IF Len(s) > n THEN Len(s) - n ELSE 0) + 1, Len(s))
Goto(w, label) == pc' = [pc EXCEPT ![w] = label]

\* An insert that fails has no effect and no action.  Where the first step of AddMessage leads.
Second == CASE backend = "inmemory" -> "ack"
            [] backend = "sqlite"   -> "prune"
            [] backend = "redis"    -> "prune"
            [] backend = "vector"   -> "ack"
            [] backend = "hybrid"   -> "vector"

-----------------------------------------------------------------------------
\* The message is in: the map's append, the database's INSERT, the pipeline's
\* RPUSH, the embedding once it has been computed, the first half of the ranked
\* store.
Insert(w) ==
  /\ pc[w] = "idle"
  /\ stored < MaxStored
  /\ stored' = stored + 1
  /\ rows' = Append(rows, stored')
  /\ mine' = [mine EXCEPT ![w] = stored']
  /\ uncut' = uncut \cup {stored'}
  /\ Goto(w, Second)
  /\ UNCHANGED <<backend, expires, answer, wipes, wiped, acked>>

\* Mutants of Prune: one message too few is kept; the oldest are kept.
PruneOneTooMany(w) ==
  /\ pc[w] = "prune"
  /\ rows' = Newest(rows, MaxHistory - 1)
  /\ uncut' = uncut \ {mine[w]}
  /\ Goto(w, IF backend = "redis" THEN "expire" ELSE "ack")
  /\ UNCHANGED <<backend, stored, expires, mine, answer, wipes, wiped, acked>>

PruneNewest(w) ==
  /\ pc[w] = "prune"
  /\ rows' = SubSeq(rows, 1, IF Len(rows) < MaxHistory THEN Len(rows) ELSE MaxHistory)
  /\ uncut' = uncut \ {mine[w]}
  /\ Goto(w, IF backend = "redis" THEN "expire" ELSE "ack")
  /\ UNCHANGED <<backend, stored, expires, mine, answer, wipes, wiped, acked>>

\* The DELETE of what is not among the newest MaxHistory, the LTRIM of the pipeline.
Prune(w) ==
  /\ pc[w] = "prune"
  /\ rows' = Newest(rows, MaxHistory)
  /\ uncut' = uncut \ {mine[w]}
  /\ Goto(w, IF backend = "redis" THEN "expire" ELSE "ack")
  /\ UNCHANGED <<backend, stored, expires, mine, answer, wipes, wiped, acked>>

\* A mutant of SetExpiry: only a fresh list gets its time to live.
SetExpiryOnce(w) ==
  /\ pc[w] = "expire"
  /\ expires' = (expires \/ Len(rows) = 1)
  /\ Goto(w, "ack")
  /\ UNCHANGED <<backend, stored, rows, mine, answer, wipes, wiped, acked, uncut>>

\* The pipeline's EXPIRE; on a key that is gone it does nothing.
SetExpiry(w) ==
  /\ pc[w] = "expire"
  /\ expires' = (rows # << >>)
  /\ Goto(w, "ack")
  /\ UNCHANGED <<backend, stored, rows, mine, answer, wipes, wiped, acked, uncut>>

\* The second half of the ranked store.
AddVector(w) ==
  /\ pc[w] = "vector"
  /\ Goto(w, "ack")
  /\ UNCHANGED <<backend, stored, rows, expires, mine, answer, wipes, wiped,
                 acked, uncut>>

\* AddMessage returns no error.
Ack(w) ==
  /\ pc[w] = "ack"
  /\ acked' = acked \cup {mine[w]}
  /\ Goto(w, "idle")
  /\ UNCHANGED <<backend, stored, rows, expires, mine, answer, wipes, wiped, uncut>>

\* AddMessage returns an error: a later statement failed, the connection broke
\* under the pipeline, or its answer was lost; the embedding service failed.
\* The message is in, and what was to follow does not happen.
Fail(w) ==
  /\ pc[w] \in {"prune", "expire", "vector"} \/ (pc[w] = "ack" /\ backend = "redis")
  /\ Goto(w, "idle")
  /\ UNCHANGED <<backend, stored, rows, expires, mine, answer, wipes, wiped,
                 acked, uncut>>

\* What the ranked store answers: all it holds, or the n that score best, the
\* best first.  The scores mix the words of the newest message with age.
Ranked(n) ==
  IF Len(rows) <= n THEN {rows}
  ELSE {s \in [1..n -> ToSet(rows)] : IsInjective(s)}

\* What agenkit's vector memory answers when it is asked for n messages without
\* a query: the code relies on no more than their being at most n of the user's.
Retrieved(n) ==
  UNION {{s \in [1..k -> ToSet(rows)] : IsInjective(s)} : k \in 0..n}

\* GetHistory: the newest n, oldest first, or what the last two backends choose.
Chosen(n) ==
  CASE backend = "hybrid" -> Ranked(n)
    [] backend = "vector" -> Retrieved(n)
    [] OTHER              -> {Newest(rows, n)}

Read(w, n) ==
  /\ pc[w] = "idle"
  /\ \E a \in Chosen(n) :
       answer' = [answer EXCEPT ![w] = a]
  /\ UNCHANGED <<backend, stored, rows, expires, pc, mine, wipes, wiped, acked, uncut>>

-----------------------------------------------------------------------------
Wipe ==
  /\ wipes < MaxWipes
  /\ wipes' = wipes + 1
  /\ wiped' = stored
  /\ rows' = << >>
  /\ expires' = FALSE

\* ClearHistory, by a summary job or the admin API.
Clear == Wipe /\ UNCHANGED <<backend, stored, pc, mine, answer, acked, uncut>>

\* The key's time to live passes.
Expiry == expires /\ Clear

\* The process is stopped and started again: callers are gone; the database and
\* the server keep what they hold.
Restart ==
  /\ IF Capped
     THEN /\ wipes < MaxWipes
          /\ wipes' = wipes + 1
          /\ UNCHANGED <<wiped, rows, expires>>
     ELSE Wipe
  /\ pc' = [w \in Writer |-> "idle"]
  /\ mine' = [w \in Writer |-> 0]
  /\ answer' = [w \in Writer |-> << >>]
  /\ UNCHANGED <<backend, stored, acked, uncut>>

Next ==
  \/ \E w \in Writer :
       \/ Insert(w) \/ Prune(w) \/ SetExpiry(w) \/ AddVector(w) \/ Ack(w) \/ Fail(w)
       \/ \E n \in Limit : Read(w, n)
  \/ Clear \/ Expiry \/ Restart

Spec == Init /\ [][Next]_vars

-----------------------------------------------------------------------------
\* Type correctness.
TypeOK ==
  /\ backend \in Backends
  /\ stored \in 0..MaxStored
  /\ IsInjective(rows) /\ ToSet(rows) \subseteq 1..stored
  /\ expires \in BOOLEAN /\ (expires => backend = "redis" /\ rows # << >>)
  /\ pc \in [Writer -> {"idle", "prune", "expire", "vector", "ack"}]
  /\ mine \in [Writer -> 0..stored]
  /\ \A w \in Writer : ToSet(answer[w]) \subseteq 1..stored
  /\ wipes \in 0..MaxWipes /\ wiped \in 0..stored
  /\ acked \subseteq 1..stored /\ uncut \subseteq 1..stored

\* A message whose AddMessage returned no error is held until it is wiped, or,
\* where the history is capped, until MaxHistory newer ones have entered: no other
\* writer's pruning or failing takes it away earlier.
AckedKept ==
  \A m \in acked :
    \/ m \in ToSet(rows)
    \/ m <= wiped
    \/ Capped /\ stored - m >= MaxHistory

\* The cap is exceeded by no more messages than writers have stored without
\* having cut the rows yet, or at all because of an error.
CapExceededByUncut ==
  Capped => Len(rows) <= MaxHistory + Cardinality(uncut \cap ToSet(rows))

\* The Redis key has a time to live as soon as it holds a message whose
\* pipeline has gone through: it lacks one only while every message in it is of
\* a pipeline that has not got to EXPIRE, or never did.
KeyExpires ==
  backend = "redis" /\ rows # << >> /\ ~expires => ToSet(rows) \cap acked = {}

\* The messages of a read come in the order they were stored, and are the
\* newest ones of their time: between two of them none is left out that is
\* still held.  The two backends with embeddings may answer otherwise.
AnswersInOrder ==
  backend \notin {"vector", "hybrid"} =>
    \A w \in Writer : \A i \in 1..(Len(answer[w]) - 1) :
      answer[w][i+1] = answer[w][i] + 1

\* The state is well formed, the cap is kept, the key expires, and reads are in
\* order.
HistoryInv == TypeOK /\ CapExceededByUncut /\ KeyExpires /\ AnswersInOrder

Promise == INSTANCE History WITH count <- stored, kept <- rows

\* Every backend is a History.
KeepsPromise == Promise!Spec
=============================================================================
