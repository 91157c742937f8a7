-------------------------- MODULE SummarizerProofs --------------------------
(***************************************************************************)
(* Proofs about conversation memory and its compaction: for any users,     *)
(* turns, threshold and size of the store, whatever fails, is flushed or   *)
(* crashes.  The inductive invariant says what a job may rely on while it  *)
(* replaces a history: what is there beyond its snapshot came in the       *)
(* window, and what it has read is nowhere else once it has cleared.       *)
(***************************************************************************)
EXTENDS Summarizer, SequenceTheorems, TLAPS

\* The messages their turns have yet to store ...
Unsaid ==
  {m \in Message : \/ pc[m[1]] \in {"idle", "user"}
                   \/ pc[m[1]] = "assistant" /\ m[2] = "assistant"}

\* ... are in no history, and no job has read them.
UnsaidNowhere ==
  \A m \in Unsaid :
    /\ \A u \in User : m \notin Coverage(history[u])
    /\ \A t \in Turn : m \notin Coverage(snapshot[t])

\* The history a job has cleared and what its summary stands for are apart.
SummaryApart ==
  \A t \in Turn : job[t] = "add" =>
    Coverage(snapshot[t]) \cap Coverage(history[user[t]]) = {}

\* What a job is about to clear it has read, or it came in the window.
WindowExcused ==
  \A t \in Turn : job[t] \in {"llm", "clear"} =>
    Coverage(history[user[t]]) \subseteq Coverage(snapshot[t]) \cup excused[user[t]]

IInv ==
  /\ JobInv /\ ForgottenOnlyWithReason
  /\ UnsaidNowhere /\ SummaryApart /\ WindowExcused

-----------------------------------------------------------------------------
\* No two entries of h stand for the same message.
Disjoint(h) == \A i, j \in DOMAIN h : i # j => h[i] \cap h[j] = {}

\* AddMessage adds one entry and takes away at most the oldest.
LEMMA AddedOne ==
  ASSUME NEW h \in Seq(SUBSET Message), NEW e \in SUBSET Message
  PROVE  /\ Added(h, e) \in Seq(SUBSET Message)
         /\ Coverage(Added(h, e)) \subseteq Coverage(h) \cup e
         /\ Coverage(h) \cup e \subseteq Coverage(Added(h, e)) \cup Pruned(h)
         /\ Disjoint(h) /\ e \cap Coverage(h) = {} => Disjoint(Added(h, e))
         /\ Pruned(h) \subseteq Message
<1>0. StoreMax \in Nat /\ StoreMax > 0 /\ Len(h) \in Nat
  BY SummarizerAssumption
<1>1. ASSUME NEW g \in Seq(SUBSET Message)
      PROVE  /\ Append(g, e) \in Seq(SUBSET Message)
             /\ Len(Append(g, e)) = Len(g) + 1 /\ Len(g) \in Nat
             /\ DOMAIN Append(g, e) = 1..(Len(g) + 1) /\ DOMAIN g = 1..Len(g)
             /\ \A i \in 1..Len(g) : Append(g, e)[i] = g[i]
             /\ Append(g, e)[Len(g) + 1] = e
  BY AppendProperties
<1>2. ASSUME NEW g \in Seq(SUBSET Message)
      PROVE  /\ Coverage(Append(g, e)) = Coverage(g) \cup e
             /\ Disjoint(g) /\ e \cap Coverage(g) = {} => Disjoint(Append(g, e))
  <2> DEFINE a == Append(g, e)
  <2>0. /\ DOMAIN a = DOMAIN g \cup {Len(g) + 1} /\ Len(g) + 1 \notin DOMAIN g
        /\ \A i \in DOMAIN g : a[i] = g[i]
        /\ a[Len(g) + 1] = e
    BY <1>1
  <2> HIDE DEF a
  <2>1. Coverage(a) = Coverage(g) \cup e
    BY <2>0 DEF Coverage
  <2>2. ASSUME Disjoint(g), e \cap Coverage(g) = {}
        PROVE  Disjoint(a)
    BY <2>0, <2>2 DEF Disjoint, Coverage
  <2>3. QED
    BY <2>1, <2>2 DEF a
<1>3. CASE Len(h) < StoreMax
  BY <1>1, <1>2, <1>3 DEF Added, Pruned
<1>4. CASE ~(Len(h) < StoreMax)
  <2> DEFINE g == Tail(h)
  <2>1. h # << >>
    BY <1>0, <1>4
  <2>2. /\ g \in Seq(SUBSET Message) /\ Len(g) = Len(h) - 1 /\ Head(h) = h[1]
        /\ \A i \in 1..Len(g) : g[i] = h[i + 1]
        /\ DOMAIN g = 1..Len(g) /\ DOMAIN h = 1..Len(h)
        /\ Head(h) \in SUBSET Message
    BY <2>1, HeadTailProperties
  <2> HIDE DEF g
  <2>3. /\ \A i \in DOMAIN g : i + 1 \in DOMAIN h /\ g[i] = h[i + 1]
        /\ \A j \in DOMAIN h : j # 1 => j - 1 \in DOMAIN g /\ g[j - 1] = h[j]
        /\ \A i, j \in DOMAIN g : i # j => i + 1 # j + 1
        /\ 1 \in DOMAIN h
    BY <1>0, <1>4, <2>2
  <2>4. /\ Coverage(g) \subseteq Coverage(h)
        /\ Coverage(h) \subseteq Coverage(g) \cup Head(h)
        /\ Disjoint(h) => Disjoint(g)
    <3>1. Coverage(g) \subseteq Coverage(h)
      BY <2>3 DEF Coverage
    <3>2. Coverage(h) \subseteq Coverage(g) \cup Head(h)
      BY <2>2, <2>3 DEF Coverage
    <3>3. Disjoint(h) => Disjoint(g)
      BY <2>3 DEF Disjoint
    <3>4. QED
      BY <3>1, <3>2, <3>3
  <2>5. Added(h, e) = Append(g, e) /\ Pruned(h) = Head(h)
    BY <1>4 DEF Added, Pruned, g
  <2>6. /\ Append(g, e) \in Seq(SUBSET Message)
        /\ Coverage(Append(g, e)) = Coverage(g) \cup e
        /\ Disjoint(g) /\ e \cap Coverage(g) = {} => Disjoint(Append(g, e))
    BY <1>1, <1>2, <2>2
  <2>7. QED
    BY <2>2, <2>4, <2>5, <2>6
<1>5. QED
  BY <1>3, <1>4

LEMMA EmptyCovers == Coverage(<< >>) = {} /\ Disjoint(<< >>)
BY DEF Coverage, Disjoint

LEMMA CoverageIn ==
  ASSUME NEW h \in Seq(SUBSET Message) PROVE Coverage(h) \in SUBSET Message
BY DEF Coverage

-----------------------------------------------------------------------------
\* The guard, turn by turn: one job for each active user, and none for others.
Exclusive ==
  /\ \A t, x \in Turn :
       job[t] # "none" /\ job[x] # "none" /\ user[t] = user[x] => t = x
  /\ \A t \in Turn : job[t] # "none" => user[t] \in active
  /\ \A u \in active : \E t \in Turn : job[t] # "none" /\ user[t] = u

LEMMA OneJobExclusive ==
  /\ TypeOK => (OneJobPerUser <=> Exclusive)
  /\ TypeOK' => (OneJobPerUser' <=> Exclusive')
<1>1. TypeOK => (OneJobPerUser <=> Exclusive)
  <2> SUFFICES ASSUME TypeOK PROVE OneJobPerUser <=> Exclusive
    OBVIOUS
  <2>1. /\ active \subseteq User
        /\ \A t \in Turn : job[t] # "none" => user[t] \in User
    BY DEF TypeOK
  <2>2. ASSUME OneJobPerUser PROVE Exclusive
    BY <2>1, <2>2 DEF OneJobPerUser, Exclusive, Jobs
  <2>3. ASSUME Exclusive PROVE OneJobPerUser
    BY <2>1, <2>3 DEF OneJobPerUser, Exclusive, Jobs
  <2>4. QED
    BY <2>2, <2>3
<1>2. QED
  BY <1>1, PTL

\* Where a stored message is, message by message.
Somewhere ==
  \A u \in User : \A m \in persisted[u] :
    \/ m \in Coverage(history[u])
    \/ m \in excused[u]
    \/ \E t \in Turn : job[t] = "add" /\ user[t] = u /\ m \in Coverage(snapshot[t])

LEMMA ForgottenSomewhere ==
  /\ ForgottenOnlyWithReason <=> Somewhere
  /\ ForgottenOnlyWithReason' <=> Somewhere'
<1>1. ForgottenOnlyWithReason <=> Somewhere
  <2> DEFINE Adding(u) == {t \in Turn : job[t] = "add" /\ user[t] = u}
  <2>1. \A u \in User : {x \in Jobs(u) : job[x] = "add"} = Adding(u)
    BY DEF Jobs
  <2>2. ForgottenOnlyWithReason <=>
          \A u \in User : persisted[u] \subseteq
            Coverage(history[u]) \cup excused[u]
              \cup UNION {Coverage(snapshot[t]) : t \in Adding(u)}
    BY <2>1 DEF ForgottenOnlyWithReason
  <2>3. QED
    BY <2>2 DEF Somewhere
<1>2. QED
  BY <1>1, PTL

LEMMA InitInv == Init => IInv
<1> SUFFICES ASSUME Init PROVE IInv
  OBVIOUS
<1>1. TypeOK
  BY SummarizerAssumption DEF Init, TypeOK
<1>2. OneJobPerUser
  BY <1>1, OneJobExclusive DEF Init, Exclusive
<1>3. OnlyLongHistoriesReplaced /\ NothingToldTwice
  BY DEF Init, OnlyLongHistoriesReplaced, NothingToldTwice
<1>4. ForgottenOnlyWithReason
  BY ForgottenSomewhere DEF Init, Somewhere
<1>5. UnsaidNowhere /\ SummaryApart /\ WindowExcused
  BY EmptyCovers DEF Init, UnsaidNowhere, SummaryApart, WindowExcused
<1>6. QED
  BY <1>1, <1>2, <1>3, <1>4, <1>5 DEF IInv, JobInv

\* A turn begins, or decides whether a job is due: the store is as it was.
LEMMA TurnInv ==
  ASSUME IInv, NEW t \in Turn,
         (\E u \in User : StartTurn(t, u)) \/ CheckTrigger(t) \/ StartJob(t)
  PROVE  IInv'
<1>0. TypeOK /\ UNCHANGED <<history, snapshot, persisted, excused, crashes>>
  BY DEF IInv, JobInv, StartTurn, CheckTrigger, StartJob
<1>1. TypeOK'
  <2>1. ASSUME NEW u \in User, StartTurn(t, u) PROVE TypeOK'
    BY <1>0, <2>1 DEF TypeOK, StartTurn
  <2>2. CASE CheckTrigger(t)
    BY <1>0, <2>2 DEF TypeOK, CheckTrigger
  <2>3. CASE StartJob(t)
    BY <1>0, <2>3 DEF TypeOK, StartJob
  <2>4. QED
    BY <2>1, <2>2, <2>3
<1>2. \A x \in Turn :
        /\ job[x] # "none" => user'[x] = user[x]
        /\ job'[x] = job[x] \/ (x = t /\ job[x] = "none" /\ job'[x] = "get")
        /\ user'[x] = user[x] \/ (x = t /\ job[x] = "none" /\ job'[x] = "none")
  BY <1>0 DEF TypeOK, StartTurn, CheckTrigger, StartJob
<1>3. Exclusive
  BY <1>0, OneJobExclusive DEF IInv, JobInv
<1>4. Exclusive'
  <2>1. CASE UNCHANGED <<active, job>>
    BY <1>2, <1>3, <2>1 DEF Exclusive
  <2>2. CASE /\ StartJob(t) /\ user[t] \notin active
             /\ active' = active \cup {user[t]} /\ job' = [job EXCEPT ![t] = "get"]
    <3>1. UNCHANGED user
      BY <2>2 DEF StartJob
    <3>2. \A x \in Turn : job'[x] = IF x = t THEN "get" ELSE job[x]
      BY <1>0, <2>2 DEF TypeOK
    <3>3. QED
      BY <1>3, <2>2, <3>1, <3>2 DEF Exclusive
  <2>3. QED
    BY <2>1, <2>2 DEF StartTurn, CheckTrigger, StartJob
<1>5. OnlyLongHistoriesReplaced' /\ NothingToldTwice'
  BY <1>0, <1>2 DEF IInv, JobInv, OnlyLongHistoriesReplaced, NothingToldTwice
<1>6. Somewhere'
  BY <1>0, <1>2, ForgottenSomewhere DEF IInv, Somewhere
<1>7. UnsaidNowhere'
  <2>1. Unsaid' \subseteq Unsaid
    BY <1>0 DEF TypeOK, Unsaid, Message, StartTurn, CheckTrigger, StartJob
  <2>2. QED
    BY <1>0, <2>1 DEF IInv, UnsaidNowhere
<1>8. SummaryApart' /\ WindowExcused'
  BY <1>0, <1>2 DEF IInv, SummaryApart, WindowExcused
<1>9. QED
  BY <1>1, <1>4, <1>5, <1>6, <1>7, <1>8, OneJobExclusive, ForgottenSomewhere
     DEF IInv, JobInv


\* A turn's message is stored, or refused.
LEMMA AddInv ==
  ASSUME IInv, NEW t \in Turn, NEW role \in {"user", "assistant"},
         pc[t] = role, AddTurnMessage(t, role),
         pc' = [pc EXCEPT ![t] = IF role = "user" THEN "assistant" ELSE "check"],
         UNCHANGED <<active, user, job, snapshot, crashes>>
  PROVE  IInv'
<1> DEFINE u == user[t]
           m == <<t, role>>
           Window == \E j \in Jobs(u) : job[j] \in {"llm", "clear"}
<1>0. TypeOK /\ u \in User /\ m \in Message
  BY DEF IInv, JobInv, TypeOK, Message
<1>1. /\ m \in Unsaid /\ m \notin Unsaid' /\ Unsaid' \subseteq Unsaid
  BY <1>0 DEF TypeOK, Unsaid, Message
<1>2. CASE UNCHANGED <<history, persisted, excused>>
  <2>1. TypeOK'
    BY <1>0, <1>2 DEF TypeOK
  <2>2. JobInv'
    BY <1>2, <2>1 DEF IInv, JobInv, OneJobPerUser, OnlyLongHistoriesReplaced,
                      NothingToldTwice, Jobs
  <2>3. ForgottenOnlyWithReason'
    BY <1>2 DEF IInv, ForgottenOnlyWithReason, Jobs
  <2>4. UnsaidNowhere' /\ SummaryApart' /\ WindowExcused'
    BY <1>1, <1>2 DEF IInv, UnsaidNowhere, SummaryApart, WindowExcused
  <2>5. QED
    BY <2>2, <2>3, <2>4 DEF IInv
<1>3. CASE /\ history' = [history EXCEPT ![u] = Added(@, {m})]
           /\ persisted' = [persisted EXCEPT ![u] = @ \cup {m}]
           /\ excused' = [excused EXCEPT ![u] =
                @ \cup Pruned(history[u]) \cup (IF Window THEN {m} ELSE {})]
  <2> DEFINE h == history[u]
             g == Added(h, {m})
             more == IF Window THEN {m} ELSE {}
  <2>1. /\ h \in Seq(SUBSET Message) /\ {m} \in SUBSET Message
        /\ more \in SUBSET Message /\ (Window => more = {m})
    BY <1>0 DEF TypeOK
  <2>2. /\ g \in Seq(SUBSET Message)
        /\ Coverage(g) \subseteq Coverage(h) \cup {m}
        /\ Coverage(h) \cup {m} \subseteq Coverage(g) \cup Pruned(h)
        /\ Disjoint(h) /\ {m} \cap Coverage(h) = {} => Disjoint(g)
        /\ Pruned(h) \subseteq Message
    BY <2>1, AddedOne
  <2>3. /\ m \notin Coverage(h)
        /\ \A x \in Turn : m \notin Coverage(snapshot[x])
    BY <1>0, <1>1 DEF IInv, UnsaidNowhere
  <2>4. \A v \in User :
          /\ history'[v] = IF v = u THEN g ELSE history[v]
          /\ persisted'[v] = IF v = u THEN persisted[u] \cup {m} ELSE persisted[v]
          /\ excused'[v] = IF v = u THEN excused[u] \cup Pruned(h) \cup more
                                    ELSE excused[v]
    BY <1>0, <1>3 DEF TypeOK
  <2>5. \A x \in Turn : job[x] # "none" => user[x] \in User
    BY <1>0 DEF TypeOK
  <2>6. \A x \in Turn : job[x] \in {"llm", "clear"} /\ user[x] = u => more = {m}
    BY <2>1 DEF Jobs
  <2>7. UNCHANGED <<active, user, job, snapshot, crashes>>
    OBVIOUS
  <2>8. /\ history' \in [User -> Seq(SUBSET Message)]
        /\ persisted' \in [User -> SUBSET Message]
        /\ excused' \in [User -> SUBSET Message]
    BY <1>0, <1>3, <2>1, <2>2 DEF TypeOK
  <2> HIDE DEF g, h, more, u, m, Window
  <2>9. TypeOK'
    BY <1>0, <2>7, <2>8 DEF TypeOK
  <2>10. OneJobPerUser' /\ OnlyLongHistoriesReplaced'
    BY <2>7 DEF IInv, JobInv, OneJobPerUser, OnlyLongHistoriesReplaced, Jobs
  <2>11. NothingToldTwice'
    <3>1. \A v \in User : Disjoint(history[v])
      BY DEF IInv, JobInv, NothingToldTwice, Disjoint
    <3>2. \A v \in User : Disjoint(history'[v])
      BY <1>0, <2>2, <2>3, <2>4, <3>1 DEF h
    <3>3. QED
      BY <3>2 DEF NothingToldTwice, Disjoint
  <2>12. Somewhere'
    <3>1. Somewhere
      BY ForgottenSomewhere DEF IInv
    <3>2. QED
      BY <2>2, <2>4, <2>7, <3>1 DEF Somewhere, h
  <2>13. UnsaidNowhere'
    <3>1. \A w \in Unsaid' : w \in Unsaid /\ w # m
      BY <1>1 DEF m
    <3>2. QED
      BY <1>0, <2>2, <2>4, <2>7, <3>1 DEF IInv, UnsaidNowhere, h
  <2>14. SummaryApart'
    BY <1>0, <2>2, <2>3, <2>4, <2>5, <2>7 DEF IInv, SummaryApart, h
  <2>15. WindowExcused'
    BY <1>0, <2>2, <2>4, <2>5, <2>6, <2>7 DEF IInv, WindowExcused, h
  <2>16. QED
    BY <2>9, <2>10, <2>11, <2>12, <2>13, <2>14, <2>15, ForgottenSomewhere
       DEF IInv, JobInv
<1>4. QED
  BY <1>2, <1>3 DEF AddTurnMessage


\* While a job goes on, the guard is as it was.
LEMMA StillGuarded ==
  ASSUME IInv, TypeOK', NEW t \in Turn, job[t] # "none", job'[t] # "none",
         \A x \in Turn : x # t => job'[x] = job[x],
         UNCHANGED <<active, user>>
  PROVE  OneJobPerUser'
<1>1. Exclusive
  BY OneJobExclusive DEF IInv, JobInv
<1>2. \A x \in Turn : job'[x] # "none" <=> job[x] # "none"
  OBVIOUS
<1>3. Exclusive'
  BY <1>1, <1>2 DEF Exclusive
<1>4. QED
  BY <1>3, OneJobExclusive

\* A job reads the history, has the model summarize it, or gives up before it
\* has cleared anything: the store is as it was.
LEMMA ReadInv ==
  ASSUME IInv, NEW t \in Turn, JobGetHistory(t) \/ JobComplete(t)
  PROVE  IInv'
<1>0. /\ TypeOK /\ UNCHANGED <<history, active, pc, user, crashes, persisted, excused>>
      /\ job[t] \in {"get", "llm"}
  BY DEF IInv, JobInv, JobGetHistory, JobComplete
<1>1. TypeOK'
  BY <1>0 DEF TypeOK, JobGetHistory, JobComplete, JobGoto
<1>2. /\ \A x \in Turn : x # t => job'[x] = job[x] /\ snapshot'[x] = snapshot[x]
      /\ \/ /\ job'[t] = "llm" /\ snapshot'[t] = history[user[t]]
            /\ MayTrigger(history[user[t]])
         \/ job[t] = "llm" /\ job'[t] = "clear" /\ snapshot'[t] = snapshot[t]
         \/ job'[t] = "release" /\ snapshot'[t] = snapshot[t]
  BY <1>0 DEF TypeOK, JobGetHistory, JobComplete, JobGoto
<1>3. OneJobPerUser'
  BY <1>0, <1>1, <1>2, StillGuarded
<1>4. user[t] \in User
  BY <1>0 DEF TypeOK
<1>5. OnlyLongHistoriesReplaced'
  BY <1>0, <1>2 DEF IInv, JobInv, OnlyLongHistoriesReplaced, MayTrigger
<1>6. NothingToldTwice'
  BY <1>0 DEF IInv, JobInv, NothingToldTwice
<1>7. Somewhere'
  BY <1>0, <1>2, ForgottenSomewhere DEF IInv, Somewhere
<1>8. UnsaidNowhere'
  <2>1. Unsaid' = Unsaid
    BY <1>0 DEF Unsaid
  <2>2. \A x \in Turn : snapshot'[x] = snapshot[x] \/ snapshot'[x] = history[user[t]]
    BY <1>2
  <2>3. QED
    BY <1>0, <1>4, <2>1, <2>2 DEF IInv, UnsaidNowhere
<1>9. SummaryApart'
  BY <1>0, <1>2 DEF IInv, SummaryApart
<1>10. WindowExcused'
  BY <1>0, <1>2 DEF IInv, WindowExcused
<1>11. QED
  BY <1>1, <1>3, <1>5, <1>6, <1>7, <1>8, <1>9, <1>10, ForgottenSomewhere
     DEF IInv, JobInv

\* A job clears the history, or cannot: what it clears it has read, or is
\* excused.
LEMMA ClearInv ==
  ASSUME IInv, NEW t \in Turn, JobClearHistory(t) PROVE IInv'
<1> DEFINE u == user[t]
<1>0. /\ TypeOK /\ Exclusive /\ job[t] = "clear" /\ u \in User
      /\ UNCHANGED <<active, pc, user, snapshot, crashes, persisted, excused>>
  BY OneJobExclusive DEF IInv, JobInv, JobClearHistory, TypeOK
<1>1. /\ \A x \in Turn : x # t => job'[x] = job[x]
      /\ \/ /\ job'[t] = "add"
            /\ \A v \in User : history'[v] = IF v = u THEN << >> ELSE history[v]
         \/ job'[t] = "release" /\ UNCHANGED history
  BY <1>0 DEF TypeOK, JobClearHistory, JobGoto
<1>2. TypeOK'
  <2>1. job' \in [Turn -> {"none", "get", "llm", "clear", "add", "release"}]
    BY <1>0 DEF TypeOK, JobClearHistory, JobGoto
  <2>2. history' \in [User -> Seq(SUBSET Message)]
    <3>1. history' = [history EXCEPT ![u] = << >>] \/ history' = history
      BY DEF JobClearHistory
    <3>2. << >> \in Seq(SUBSET Message)
      OBVIOUS
    <3>3. QED
      BY <1>0, <3>1, <3>2 DEF TypeOK
  <2>3. \A x \in Turn : job'[x] # "none" => pc[x] = "done"
    BY <1>0, <1>1 DEF TypeOK
  <2>4. QED
    BY <1>0, <2>1, <2>2, <2>3 DEF TypeOK
<1>3. OneJobPerUser'
  BY <1>0, <1>1, <1>2, StillGuarded
<1>4. OnlyLongHistoriesReplaced'
  BY <1>0, <1>1 DEF IInv, JobInv, OnlyLongHistoriesReplaced
<1>5. NothingToldTwice'
  BY <1>0, <1>1 DEF IInv, JobInv, NothingToldTwice
<1>6. Somewhere'
  <2>1. Somewhere
    BY ForgottenSomewhere DEF IInv
  <2>2. CASE job'[t] = "release" /\ UNCHANGED history
    BY <1>0, <1>1, <2>1, <2>2 DEF Somewhere
  <2>3. CASE /\ job'[t] = "add"
             /\ \A v \in User : history'[v] = IF v = u THEN << >> ELSE history[v]
    <3>1. Coverage(history[u]) \subseteq Coverage(snapshot[t]) \cup excused[u]
      BY <1>0 DEF IInv, WindowExcused
    <3>2. ASSUME NEW v \in User, NEW m \in persisted[v]
          PROVE  \/ m \in Coverage(history'[v])
                 \/ m \in excused[v]
                 \/ \E x \in Turn : /\ job'[x] = "add" /\ user[x] = v
                                    /\ m \in Coverage(snapshot[x])
      <4>1. CASE v # u \/ m \notin Coverage(history[v])
        BY <1>0, <1>1, <2>1, <2>3, <3>2, <4>1 DEF Somewhere
      <4>2. CASE v = u /\ m \in Coverage(history[v])
        BY <2>3, <3>1, <4>2
      <4>3. QED
        BY <4>1, <4>2
    <3>3. QED
      BY <1>0, <3>2 DEF Somewhere
  <2>4. QED
    BY <1>1, <2>2, <2>3
<1>7. UnsaidNowhere'
  <2>1. Unsaid' = Unsaid
    BY <1>0 DEF Unsaid
  <2>2. \A v \in User : Coverage(history'[v]) \subseteq Coverage(history[v])
    BY <1>1, EmptyCovers
  <2>3. QED
    BY <1>0, <2>1, <2>2 DEF IInv, UnsaidNowhere
<1>8. SummaryApart'
  <2>1. \A x \in Turn : job[x] = "add" => user[x] # u /\ user[x] \in User
    BY <1>0 DEF Exclusive, TypeOK
  <2>2. QED
    BY <1>0, <1>1, <2>1, EmptyCovers DEF IInv, SummaryApart
<1>9. WindowExcused'
  <2>1. \A x \in Turn : job'[x] \in {"llm", "clear"} => job[x] \in {"llm", "clear"}
    BY <1>0, <1>1
  <2>2. \A v \in User : Coverage(history'[v]) \subseteq Coverage(history[v])
    BY <1>1, EmptyCovers
  <2>3. \A x \in Turn : job[x] # "none" => user[x] \in User
    BY <1>0 DEF TypeOK
  <2>4. QED
    BY <1>0, <2>1, <2>2, <2>3 DEF IInv, WindowExcused
<1>10. QED
  BY <1>2, <1>3, <1>4, <1>5, <1>6, <1>7, <1>8, <1>9, ForgottenSomewhere
     DEF IInv, JobInv


\* The summary is stored, apart from whatever has come since; or the store
\* refuses it and what it stood for is excused.
LEMMA SummaryInv ==
  ASSUME IInv, NEW t \in Turn, JobAddSummary(t) PROVE IInv'
<1> DEFINE u == user[t]
           h == history[u]
           e == Coverage(snapshot[t])
           g == Added(h, e)
<1>0. /\ TypeOK /\ Exclusive /\ job[t] = "add" /\ u \in User
      /\ UNCHANGED <<active, pc, user, snapshot, crashes, persisted>>
  BY OneJobExclusive DEF IInv, JobInv, JobAddSummary, TypeOK
<1>1. h \in Seq(SUBSET Message) /\ e \in SUBSET Message
  BY <1>0, CoverageIn DEF TypeOK
<1>2. /\ g \in Seq(SUBSET Message)
      /\ Coverage(g) \subseteq Coverage(h) \cup e
      /\ Coverage(h) \cup e \subseteq Coverage(g) \cup Pruned(h)
      /\ Disjoint(h) /\ e \cap Coverage(h) = {} => Disjoint(g)
      /\ Pruned(h) \subseteq Message
  BY <1>1, AddedOne
<1>3. /\ job'[t] = "release"
      /\ \A x \in Turn : x # t => job'[x] = job[x]
      /\ \/ /\ \A v \in User : history'[v] = IF v = u THEN g ELSE history[v]
            /\ \A v \in User : excused'[v] =
                 IF v = u THEN excused[v] \cup Pruned(h) ELSE excused[v]
         \/ /\ UNCHANGED history
            /\ \A v \in User : excused'[v] =
                 IF v = u THEN excused[v] \cup e ELSE excused[v]
  BY <1>0 DEF TypeOK, JobAddSummary, JobGoto
<1>4. TypeOK'
  <2>1. job' \in [Turn -> {"none", "get", "llm", "clear", "add", "release"}]
    BY <1>0 DEF TypeOK, JobAddSummary, JobGoto
  <2>2. history' \in [User -> Seq(SUBSET Message)]
    <3>1. history' = [history EXCEPT ![u] = g] \/ history' = history
      BY <1>0 DEF JobAddSummary, TypeOK
    <3>2. QED
      BY <1>0, <1>2, <3>1 DEF TypeOK
  <2>3. excused' \in [User -> SUBSET Message]
    <3>1. \/ excused' = [excused EXCEPT ![u] = @ \cup Pruned(h)]
          \/ excused' = [excused EXCEPT ![u] = @ \cup e]
      BY <1>0 DEF JobAddSummary, TypeOK
    <3>2. excused[u] \cup Pruned(h) \in SUBSET Message /\ excused[u] \cup e \in SUBSET Message
      BY <1>0, <1>1, <1>2 DEF TypeOK
    <3> HIDE DEF e, h
    <3>3. QED
      BY <1>0, <3>1, <3>2 DEF TypeOK
  <2>4. \A x \in Turn : job'[x] # "none" => pc[x] = "done"
    BY <1>0, <1>3 DEF TypeOK
  <2>5. QED
    BY <1>0, <2>1, <2>2, <2>3, <2>4 DEF TypeOK
<1>5. OneJobPerUser'
  BY <1>0, <1>3, <1>4, StillGuarded
<1>6. OnlyLongHistoriesReplaced'
  BY <1>0, <1>3 DEF IInv, JobInv, OnlyLongHistoriesReplaced
<1>7. e \cap Coverage(h) = {}
  BY <1>0 DEF IInv, SummaryApart
<1>8. \A x \in Turn : job[x] # "none" /\ x # t => user[x] # u /\ user[x] \in User
  BY <1>0 DEF Exclusive, TypeOK
<1> HIDE DEF g, h, e, u
<1>9. NothingToldTwice'
  <2>1. \A v \in User : Disjoint(history[v])
    BY DEF IInv, JobInv, NothingToldTwice, Disjoint
  <2>2. \A v \in User : Disjoint(history'[v])
    BY <1>0, <1>2, <1>3, <1>7, <2>1 DEF h
  <2>3. QED
    BY <2>2 DEF NothingToldTwice, Disjoint
<1>10. Somewhere'
  <2>1. Somewhere
    BY ForgottenSomewhere DEF IInv
  <2> SUFFICES ASSUME NEW v \in User, NEW m \in persisted[v]
               PROVE  \/ m \in Coverage(history'[v]) \cup excused'[v]
                      \/ \E x \in Turn : /\ job'[x] = "add" /\ user[x] = v
                                         /\ m \in Coverage(snapshot[x])
    BY <1>0 DEF Somewhere
  <2>2. CASE v # u
    <3>1. \A x \in Turn : job[x] = "add" /\ user[x] = v => job'[x] = "add"
      BY <1>3, <2>2 DEF u
    <3>2. history'[v] = history[v] /\ excused'[v] = excused[v]
      BY <1>3, <2>2
    <3>3. QED
      BY <2>1, <3>1, <3>2 DEF Somewhere
  <2>3. CASE v = u
    <3>1. \A x \in Turn : job[x] = "add" /\ user[x] = v => x = t
      BY <1>8, <2>3
    <3>2. m \in Coverage(h) \/ m \in excused[v] \/ m \in e
      BY <1>0, <2>1, <2>3, <3>1 DEF Somewhere, h, e
    <3>3. QED
      BY <1>0, <1>2, <1>3, <2>3, <3>2 DEF h
  <2>4. QED
    BY <2>2, <2>3
<1>11. UnsaidNowhere'
  <2>1. Unsaid' = Unsaid
    BY <1>0 DEF Unsaid
  <2>2. \A m \in Unsaid : m \notin e /\ m \notin Coverage(h)
    BY <1>0 DEF IInv, UnsaidNowhere, e, h
  <2>3. \A m \in Unsaid : \A v \in User : m \notin Coverage(history'[v])
    BY <1>2, <1>3, <2>2 DEF IInv, UnsaidNowhere
  <2>4. QED
    BY <1>0, <2>1, <2>3 DEF IInv, UnsaidNowhere
<1>12. SummaryApart' /\ WindowExcused'
  <2>1. \A x \in Turn : job'[x] \in {"llm", "clear", "add"} =>
          /\ job'[x] = job[x] /\ user[x] # u /\ user[x] \in User
          /\ history'[user[x]] = history[user[x]]
          /\ excused'[user[x]] = excused[user[x]]
    BY <1>3, <1>8
  <2>2. QED
    BY <1>0, <2>1 DEF IInv, SummaryApart, WindowExcused
<1>13. QED
  BY <1>4, <1>5, <1>6, <1>9, <1>10, <1>11, <1>12, ForgottenSomewhere DEF IInv, JobInv

\* The guard is given back, and no one else held it.
LEMMA ReleaseInv ==
  ASSUME IInv, NEW t \in Turn, JobRelease(t) PROVE IInv'
<1>0. /\ TypeOK /\ Exclusive /\ job[t] = "release"
      /\ active' = active \ {user[t]}
      /\ UNCHANGED <<history, pc, user, crashes, persisted, excused>>
  BY OneJobExclusive DEF IInv, JobInv, JobRelease
<1>1. /\ job'[t] = "none" /\ snapshot'[t] = << >>
      /\ \A x \in Turn : x # t => job'[x] = job[x] /\ snapshot'[x] = snapshot[x]
  BY <1>0 DEF TypeOK, JobRelease, JobGoto
<1>2. TypeOK'
  BY <1>0 DEF TypeOK, JobRelease, JobGoto
<1>3. Exclusive'
  BY <1>0, <1>1 DEF Exclusive
<1>4. OnlyLongHistoriesReplaced' /\ NothingToldTwice'
  BY <1>0, <1>1 DEF IInv, JobInv, OnlyLongHistoriesReplaced, NothingToldTwice
<1>5. Somewhere'
  BY <1>0, <1>1, ForgottenSomewhere DEF IInv, Somewhere
<1>6. UnsaidNowhere'
  <2>1. Unsaid' = Unsaid
    BY <1>0 DEF Unsaid
  <2>2. \A x \in Turn : Coverage(snapshot'[x]) \subseteq Coverage(snapshot[x])
    BY <1>1, EmptyCovers
  <2>3. QED
    BY <1>0, <2>1, <2>2 DEF IInv, UnsaidNowhere
<1>7. SummaryApart' /\ WindowExcused'
  BY <1>0, <1>1 DEF IInv, SummaryApart, WindowExcused
<1>8. QED
  BY <1>2, <1>3, <1>4, <1>5, <1>6, <1>7, OneJobExclusive, ForgottenSomewhere
     DEF IInv, JobInv

\* A flush excuses what it removes, and a running job may go on.
LEMMA FlushInv ==
  ASSUME IInv, NEW u \in User, Flush(u) PROVE IInv'
<1>0. /\ TypeOK /\ UNCHANGED <<active, pc, user, job, snapshot, crashes, persisted>>
  BY DEF IInv, JobInv, Flush
<1>1. /\ Coverage(history[u]) \in SUBSET Message
      /\ \A v \in User :
           /\ history'[v] = IF v = u THEN << >> ELSE history[v]
           /\ excused'[v] = IF v = u THEN excused[v] \cup Coverage(history[v])
                                     ELSE excused[v]
  BY <1>0, CoverageIn DEF TypeOK, Flush
<1>2. TypeOK'
  <2>1. history' \in [User -> Seq(SUBSET Message)]
    <3>1. << >> \in Seq(SUBSET Message)
      OBVIOUS
    <3>2. QED
      BY <1>0, <3>1 DEF TypeOK, Flush
  <2>2. excused' \in [User -> SUBSET Message]
    BY <1>0, <1>1 DEF TypeOK, Flush
  <2>3. QED
    BY <1>0, <2>1, <2>2 DEF TypeOK
<1>3. OneJobPerUser' /\ OnlyLongHistoriesReplaced'
  BY <1>0 DEF IInv, JobInv, OneJobPerUser, OnlyLongHistoriesReplaced, Jobs
<1>4. NothingToldTwice'
  <2>1. \A v \in User : history'[v] = << >> \/ history'[v] = history[v]
    BY <1>1
  <2>2. DOMAIN << >> = {}
    OBVIOUS
  <2>3. QED
    BY <2>1, <2>2 DEF IInv, JobInv, NothingToldTwice
<1>5. \A v \in User : /\ Coverage(history'[v]) \subseteq Coverage(history[v])
                      /\ Coverage(history[v]) \subseteq Coverage(history'[v]) \cup excused'[v]
                      /\ excused[v] \subseteq excused'[v]
  BY <1>1, EmptyCovers
<1>6. Somewhere'
  BY <1>0, <1>5, ForgottenSomewhere DEF IInv, Somewhere
<1>7. UnsaidNowhere'
  <2>1. Unsaid' = Unsaid
    BY <1>0 DEF Unsaid
  <2>2. QED
    BY <1>0, <1>5, <2>1 DEF IInv, UnsaidNowhere
<1>8. SummaryApart' /\ WindowExcused'
  <2>1. \A x \in Turn : job[x] # "none" => user[x] \in User
    BY <1>0 DEF TypeOK
  <2>2. QED
    BY <1>0, <1>5, <2>1 DEF IInv, SummaryApart, WindowExcused
<1>9. QED
  BY <1>2, <1>3, <1>4, <1>6, <1>7, <1>8, ForgottenSomewhere DEF IInv, JobInv

\* A restart ends all jobs; a summary not stored yet is excused.
LEMMA CrashInv == ASSUME IInv, Crash PROVE IInv'
<1>0. /\ TypeOK /\ active' = {} /\ UNCHANGED <<history, user, persisted>>
      /\ \A t \in Turn :
           /\ job'[t] = "none" /\ snapshot'[t] = << >>
           /\ pc'[t] = IF pc[t] = "idle" THEN "idle" ELSE "done"
  BY DEF IInv, JobInv, Crash
<1>1. \A u \in User :
        /\ excused[u] \subseteq excused'[u]
        /\ excused'[u] \subseteq Message
        /\ \A t \in Turn : job[t] = "add" /\ user[t] = u =>
             Coverage(snapshot[t]) \subseteq excused'[u]
  <2> SUFFICES ASSUME NEW u \in User
               PROVE  /\ excused[u] \subseteq excused'[u]
                      /\ excused'[u] \subseteq Message
                      /\ \A t \in Turn : job[t] = "add" /\ user[t] = u =>
                           Coverage(snapshot[t]) \subseteq excused'[u]
    OBVIOUS
  <2> DEFINE Adding == {x \in Jobs(u) : job[x] = "add"}
  <2>1. \A t \in Turn : t \in Adding <=> job[t] = "add" /\ user[t] = u
    BY DEF Jobs
  <2>2. Adding \subseteq Turn
    BY DEF Jobs
  <2>3. excused'[u] = excused[u] \cup UNION {Coverage(snapshot[t]) : t \in Adding}
    BY DEF Crash
  <2>4. \A t \in Turn : Coverage(snapshot[t]) \subseteq Message
    BY <1>0, CoverageIn DEF TypeOK
  <2>5. excused[u] \subseteq Message
    BY <1>0 DEF TypeOK
  <2> HIDE DEF Adding
  <2>6. QED
    BY <2>1, <2>2, <2>3, <2>4, <2>5
<1>2. TypeOK'
  <2>1. crashes' \in 0..MaxCrashes
    BY <1>0, SummarizerAssumption DEF TypeOK, Crash
  <2>2. excused' \in [User -> SUBSET Message]
    BY <1>1 DEF Crash
  <2>3. snapshot' \in [Turn -> Seq(SUBSET Message)] /\ job' = [t \in Turn |-> "none"]
    BY DEF Crash
  <2>4. pc' \in [Turn -> {"idle", "user", "assistant", "check", "guard", "done"}]
    BY <1>0 DEF Crash, TypeOK
  <2>5. QED
    BY <1>0, <2>1, <2>2, <2>3, <2>4 DEF TypeOK
<1>3. OneJobPerUser' /\ OnlyLongHistoriesReplaced' /\ NothingToldTwice'
  <2>1. Exclusive'
    BY <1>0 DEF Exclusive
  <2>2. OnlyLongHistoriesReplaced' /\ NothingToldTwice'
    BY <1>0 DEF IInv, JobInv, OnlyLongHistoriesReplaced, NothingToldTwice
  <2>3. QED
    BY <1>2, <2>1, <2>2, OneJobExclusive
<1>4. Somewhere'
  BY <1>0, <1>1, ForgottenSomewhere DEF IInv, Somewhere
<1>5. UnsaidNowhere'
  <2>1. Unsaid' \subseteq Unsaid
    BY <1>0 DEF Unsaid, Message
  <2>2. QED
    BY <1>0, <2>1, EmptyCovers DEF IInv, UnsaidNowhere
<1>6. SummaryApart' /\ WindowExcused'
  BY <1>0 DEF SummaryApart, WindowExcused
<1>7. QED
  BY <1>2, <1>3, <1>4, <1>5, <1>6, ForgottenSomewhere DEF IInv, JobInv

LEMMA StepInv == IInv /\ [Next]_vars => IInv'
<1> SUFFICES ASSUME IInv, [Next]_vars PROVE IInv'
  OBVIOUS
<1>1. CASE UNCHANGED vars
  BY <1>1 DEF vars, IInv, JobInv, TypeOK, OneJobPerUser, OnlyLongHistoriesReplaced,
     NothingToldTwice, ForgottenOnlyWithReason, UnsaidNowhere, Unsaid, SummaryApart,
     WindowExcused, Jobs
<1>2. ASSUME NEW t \in Turn, TurnStep(t) PROVE IInv'
  <2>1. CASE AddUser(t)
    BY <2>1, AddInv DEF AddUser
  <2>2. CASE AddAssistant(t)
    BY <2>2, AddInv DEF AddAssistant
  <2>3. CASE CheckTrigger(t) \/ StartJob(t)
    BY <2>3, TurnInv
  <2>4. QED
    BY <1>2, <2>1, <2>2, <2>3 DEF TurnStep
<1>3. ASSUME NEW t \in Turn, JobStep(t) PROVE IInv'
  BY <1>3, ReadInv, ClearInv, SummaryInv, ReleaseInv DEF JobStep
<1>4. QED
  BY <1>1, <1>2, <1>3, TurnInv, FlushInv, CrashInv DEF Next

\* Jobs run one per user and only when called for, and no message is told twice,
\* however turns, jobs, flushes, failures and restarts are interleaved: any
\* number of users and turns, any threshold and size of the store.
THEOREM JobsCorrect == Spec => []JobInv
<1>1. IInv => JobInv
  BY DEF IInv
<1>2. QED
  BY <1>1, InitInv, StepInv, PTL DEF Spec

\* No stored message is forgotten without one of the reasons the code has for it:
\* pruned, flushed, lost with a failed or interrupted replacement, or stored
\* while a job was between its reading and its clearing.
THEOREM NothingForgotten == Spec => []ForgottenOnlyWithReason
<1>1. IInv => ForgottenOnlyWithReason
  BY DEF IInv
<1>2. QED
  BY <1>1, InitInv, StepInv, PTL DEF Spec
=============================================================================
