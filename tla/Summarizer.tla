----------------------------- MODULE Summarizer -----------------------------
(***************************************************************************)
(* Conversation memory and its compaction: turns appended to the store by  *)
(* the router (internal/gateway/router.go), the asynchronous summarization *)
(* job that replaces a history by one summary message                      *)
(* (internal/memory/summarizer.go), the admin flush, and a restart of the  *)
(* process over a persistent store (internal/memory/sqlite.go).            *)
(*                                                                         *)
(* A history entry is the set of original messages it stands for: a turn's *)
(* message stands for itself, a summary for everything it was made from.   *)
(***************************************************************************)
EXTENDS Naturals, Sequences, FiniteSets

CONSTANTS
  User,
  Turn,         \* goroutines, each carrying one answered message
  Threshold,    \* history length that triggers a summary
  TokenTrigger, \* whether the estimated token count may trigger one too
  StoreMax,     \* the store keeps this many entries per user
  Faults,       \* whether store and model calls may fail
  MaxCrashes,   \* bound on restarts
  NoUser

ASSUME SummarizerAssumption ==
  /\ Threshold \in Nat \ {0}
  /\ StoreMax \in Nat \ {0}
  /\ TokenTrigger \in BOOLEAN
  /\ Faults \in BOOLEAN
  /\ MaxCrashes \in Nat
  /\ NoUser \notin User

Message == Turn \X {"user", "assistant"}

VARIABLES
  history,   \* user -> the store's entries, oldest first
  active,    \* users with a summarization job in progress
  pc, user,  \* turn -> where it is, whose message it carries
  job,       \* turn -> where the job it started is
  snapshot,  \* turn -> the history its job summarizes
  crashes,
  persisted, \* history: user -> the messages the store accepted
  excused    \* history: user -> the messages that may be missing (see below)

vars == <<history, active, pc, user, job, snapshot, crashes, persisted, excused>>

Coverage(h) == UNION {h[i] : i \in DOMAIN h}

\* The jobs now running for u.
Jobs(u) == {t \in Turn : job[t] # "none" /\ user[t] = u}

Init ==
  /\ history = [u \in User |-> << >>]
  /\ active = {}
  /\ pc = [t \in Turn |-> "idle"]
  /\ user = [t \in Turn |-> NoUser]
  /\ job = [t \in Turn |-> "none"]
  /\ snapshot = [t \in Turn |-> << >>]
  /\ crashes = 0
  /\ persisted = [u \in User |-> {}]
  /\ excused = [u \in User |-> {}]

-----------------------------------------------------------------------------
\* AddMessage appends and prunes the oldest entry beyond the store's maximum.
Added(h, e) ==
  IF Len(h) < StoreMax THEN Append(h, e) ELSE Append(Tail(h), e)

Pruned(h) == IF Len(h) < StoreMax THEN {} ELSE Head(h)

\* A message of turn t is stored, or the store refuses it (which is logged and
\* ignored).  A message stored while a job is between reading the history and
\* clearing it is excused: the clear will take it.
AddTurnMessage(t, role) ==
  LET u == user[t]
      m == <<t, role>>
      inWindow == \E j \in Jobs(u) : job[j] \in {"llm", "clear"}
  IN \/ /\ history' = [history EXCEPT ![u] = Added(@, {m})]
        /\ persisted' = [persisted EXCEPT ![u] = @ \cup {m}]
        /\ excused' = [excused EXCEPT ![u] =
             @ \cup Pruned(history[u]) \cup (IF inWindow THEN {m} ELSE {})]
     \/ /\ Faults
        /\ UNCHANGED <<history, persisted, excused>>

StartTurn(t, u) ==
  /\ pc[t] = "idle"
  /\ pc' = [pc EXCEPT ![t] = "user"]
  /\ user' = [user EXCEPT ![t] = u]
  /\ UNCHANGED <<history, active, job, snapshot, crashes, persisted,
                 excused>>

AddUser(t) ==
  /\ pc[t] = "user"
  /\ pc' = [pc EXCEPT ![t] = "assistant"]
  /\ AddTurnMessage(t, "user")
  /\ UNCHANGED <<active, user, job, snapshot, crashes>>

AddAssistant(t) ==
  /\ pc[t] = "assistant"
  /\ pc' = [pc EXCEPT ![t] = "check"]
  /\ AddTurnMessage(t, "assistant")
  /\ UNCHANGED <<active, user, job, snapshot, crashes>>

\* The message count triggers; so may the token estimate, when it is enabled,
\* depending on how long the messages are.
MayTrigger(h) == Len(h) >= Threshold \/ (TokenTrigger /\ h # << >>)
MayNotTrigger(h) == Len(h) < Threshold

\* MaybeSummarize looks at the last Threshold + 1 entries ...
CheckTrigger(t) ==
  /\ pc[t] = "check"
  /\ \/ /\ MayTrigger(history[user[t]])
        /\ pc' = [pc EXCEPT ![t] = "guard"]
     \/ /\ MayNotTrigger(history[user[t]]) \/ Faults
        /\ pc' = [pc EXCEPT ![t] = "done"]
  /\ UNCHANGED <<history, active, user, job, snapshot, crashes, persisted, excused>>

\* ... and starts a job unless one is active for the user (LoadOrStore).
StartJob(t) ==
  /\ pc[t] = "guard"
  /\ pc' = [pc EXCEPT ![t] = "done"]
  /\ \/ /\ user[t] \notin active
        /\ active' = active \cup {user[t]}
        /\ job' = [job EXCEPT ![t] = "get"]
     \/ /\ user[t] \in active
        /\ UNCHANGED <<active, job>>
  /\ UNCHANGED <<history, user, snapshot, crashes, persisted, excused>>

-----------------------------------------------------------------------------
JobGoto(t, label) == job' = [job EXCEPT ![t] = label]

\* Mutants of the job: it summarizes only the entries that made it trigger;
\* trusts the trigger seen before; fails without giving the guard back; takes
\* a history it could not clear for cleared.
JobGetRecent(t) ==
  /\ job[t] = "get"
  /\ LET h == history[user[t]] IN
     \/ /\ MayTrigger(h)
        /\ snapshot' = [snapshot EXCEPT ![t] =
             SubSeq(h, Len(h) - Threshold + 1, Len(h))]
        /\ JobGoto(t, "llm")
     \/ /\ MayNotTrigger(h) \/ Faults
        /\ JobGoto(t, "release")
        /\ UNCHANGED snapshot
  /\ UNCHANGED <<history, active, pc, user, crashes, persisted, excused>>

JobCompleteNoRelease(t) ==
  /\ job[t] = "llm"
  /\ JobGoto(t, "clear") \/ (Faults /\ JobGoto(t, "none"))
  /\ UNCHANGED <<history, active, pc, user, snapshot, crashes, persisted, excused>>

JobClearUnchecked(t) ==
  /\ job[t] = "clear"
  /\ JobGoto(t, "add")
  /\ history' = [history EXCEPT ![user[t]] = << >>] \/ (Faults /\ UNCHANGED history)
  /\ UNCHANGED <<active, pc, user, snapshot, crashes, persisted, excused>>

\* The job reads the whole history and checks the trigger again.
JobGetHistory(t) ==
  /\ job[t] = "get"
  /\ \/ /\ MayTrigger(history[user[t]])
        /\ snapshot' = [snapshot EXCEPT ![t] = history[user[t]]]
        /\ JobGoto(t, "llm")
     \/ /\ MayNotTrigger(history[user[t]]) \/ Faults
        /\ JobGoto(t, "release")
        /\ UNCHANGED snapshot
  /\ UNCHANGED <<history, active, pc, user, crashes, persisted, excused>>

\* The model writes the summary, or fails and the history stays.
JobComplete(t) ==
  /\ job[t] = "llm"
  /\ JobGoto(t, "clear") \/ (Faults /\ JobGoto(t, "release"))
  /\ UNCHANGED <<history, active, pc, user, snapshot, crashes, persisted, excused>>

JobClearHistory(t) ==
  /\ job[t] = "clear"
  /\ \/ /\ history' = [history EXCEPT ![user[t]] = << >>]
        /\ JobGoto(t, "add")
     \/ /\ Faults
        /\ JobGoto(t, "release")
        /\ UNCHANGED history
  /\ UNCHANGED <<active, pc, user, snapshot, crashes, persisted, excused>>

\* The summary is stored; if the store refuses it the conversation is gone.
JobAddSummary(t) ==
  /\ job[t] = "add"
  /\ JobGoto(t, "release")
  /\ LET u == user[t] IN
     \/ /\ history' = [history EXCEPT ![u] = Added(@, Coverage(snapshot[t]))]
        /\ excused' = [excused EXCEPT ![u] = @ \cup Pruned(history[u])]
     \/ /\ Faults
        /\ excused' = [excused EXCEPT ![u] = @ \cup Coverage(snapshot[t])]
        /\ UNCHANGED history
  /\ UNCHANGED <<active, pc, user, snapshot, crashes, persisted>>

\* The deferred active.Delete.
JobRelease(t) ==
  /\ job[t] = "release"
  /\ JobGoto(t, "none")
  /\ active' = active \ {user[t]}
  /\ snapshot' = [snapshot EXCEPT ![t] = << >>]
  /\ UNCHANGED <<history, pc, user, crashes, persisted, excused>>

-----------------------------------------------------------------------------
\* GET /admin/memory/{user}/flush clears the store, at any time.
Flush(u) ==
  /\ history[u] # << >>
  /\ history' = [history EXCEPT ![u] = << >>]
  /\ excused' = [excused EXCEPT ![u] = @ \cup Coverage(history[u])]
  /\ UNCHANGED <<active, pc, user, job, snapshot, crashes, persisted>>

\* The process stops at any point and starts again over the same store: the
\* turns and jobs under way are gone, and so is a summary not stored yet.
Crash ==
  /\ crashes < MaxCrashes
  /\ crashes' = crashes + 1
  /\ active' = {}
  /\ pc' = [t \in Turn |-> IF pc[t] = "idle" THEN "idle" ELSE "done"]
  /\ job' = [t \in Turn |-> "none"]
  /\ snapshot' = [t \in Turn |-> << >>]
  /\ excused' = [u \in User |->
       excused[u] \cup
         UNION {Coverage(snapshot[t]) : t \in {x \in Jobs(u) : job[x] = "add"}}]
  /\ UNCHANGED <<history, user, persisted>>

TurnStep(t) ==
  AddUser(t) \/ AddAssistant(t) \/ CheckTrigger(t) \/ StartJob(t)

JobStep(t) ==
  \/ JobGetHistory(t) \/ JobComplete(t) \/ JobClearHistory(t)
  \/ JobAddSummary(t) \/ JobRelease(t)

Next ==
  \/ \E t \in Turn : TurnStep(t) \/ JobStep(t)
  \/ \E t \in Turn, u \in User : StartTurn(t, u)
  \/ \E u \in User : Flush(u)
  \/ Crash

Spec == Init /\ [][Next]_vars

\* Goroutines keep running, and the model and the store answer in the end.
FairSpec == Spec /\ \A t \in Turn : WF_vars(TurnStep(t)) /\ WF_vars(JobStep(t))

-----------------------------------------------------------------------------
\* Type correctness of the store, the guard and the jobs.
TypeOK ==
  /\ history \in [User -> Seq(SUBSET Message)]
  /\ active \in SUBSET User
  /\ pc \in [Turn -> {"idle", "user", "assistant", "check", "guard", "done"}]
  /\ user \in [Turn -> User \cup {NoUser}]
  /\ \A t \in Turn : pc[t] # "idle" => user[t] \in User
  /\ job \in [Turn -> {"none", "get", "llm", "clear", "add", "release"}]
  /\ \A t \in Turn : job[t] # "none" => pc[t] = "done"
  /\ snapshot \in [Turn -> Seq(SUBSET Message)]
  /\ crashes \in 0..MaxCrashes
  /\ persisted \in [User -> SUBSET Message]
  /\ excused \in [User -> SUBSET Message]

\* "A per-user guard prevents concurrent summarization jobs for the same user"
\* (summarizer.go:19-20), and no user stays guarded without a job.
OneJobPerUser ==
  \A u \in User :
    /\ \A t, x \in Jobs(u) : t = x
    /\ u \in active <=> Jobs(u) # {}

\* No message is told twice: at no time do two entries of a history stand for
\* the same message, neither two summaries nor a summary and the message.
NothingToldTwice ==
  \A u \in User : \A i, j \in DOMAIN history[u] :
    i # j => history[u][i] \cap history[u][j] = {}

\* A conversation is only forgotten for a reason: a stored message is still in
\* the history, itself or through a summary, or in the summary about to be
\* stored, unless it was pruned, lost with a failed or interrupted
\* replacement, or stored between a job's reading and its clearing.
ForgottenOnlyWithReason ==
  \A u \in User :
    persisted[u] \subseteq
      Coverage(history[u]) \cup excused[u]
        \cup UNION {Coverage(snapshot[t]) : t \in {x \in Jobs(u) : job[x] = "add"}}

\* A job never replaces a history below the threshold, such as one another job
\* has just replaced by its summary: the trigger is checked again inside the
\* guard (summarizer.go:85-86).
OnlyLongHistoriesReplaced ==
  ~TokenTrigger =>
    \A t \in Turn : job[t] \in {"llm", "clear", "add"} => Len(snapshot[t]) >= Threshold

\* The state is well formed, jobs run one per user and only when called for, and
\* no message is told twice.
JobInv ==
  TypeOK /\ OneJobPerUser /\ OnlyLongHistoriesReplaced /\ NothingToldTwice

\* Every job ends and gives the guard back, so a user can be summarized again.
GuardReleased == \A u \in User : u \in active ~> u \notin active
=============================================================================
