---------------------------- MODULE RouterProofs ----------------------------
(***************************************************************************)
(* Proofs about the router's turns: the agent cache, for any sets of       *)
(* users, turns and prompts, and planning mode with its calendar, for any  *)
(* sets of turns and events, lengths of plans and numbers of crashes.      *)
(*                                                                         *)
(* The invariant of the agent cache adds to the claim about cached agents  *)
(* what is true between reading a prompt and inserting the agent built     *)
(* with it: the builder holds the write lock, the user has no cached       *)
(* agent, and the prompt it read is current or a /system command still has *)
(* to evict.  That of the calendar adds what is true between loading the   *)
(* events and writing them: but for overlaps, the copy is what the tool    *)
(* has reported with the one change it is about to report.                 *)
(***************************************************************************)
EXTENDS AgentCache, Planning, TLAPS

\* Only a turn that is inserting holds the write lock.
LockDiscipline ==
  /\ \A t \in Turn : pc[t] = "insert" => lock = t
  /\ lock # Free => pc[lock] = "insert"

\* The agent being inserted is for a user without one, and its prompt is
\* current or about to be evicted.
BuilderPromptCurrent ==
  \A t \in Turn :
    pc[t] = "insert" =>
      /\ userAgents[user[t]] = NoAgent
      /\ agentPrompt[t] = systemPrompts[user[t]] \/ CommandPending(user[t])

\* A cached agent was built by a turn that is past building.
CachedAgentBuilt ==
  \A u \in User :
    userAgents[u] # NoAgent => pc[userAgents[u]] \in {"process", "store", "done"}

\* While a turn is settled no command of its user is pending.
SettledMeansNoCommand ==
  \A t \in Turn :
    settled[t] => pc[t] \notin {"idle", "evict"} /\ ~CommandPending(user[t])

CacheInv ==
  /\ TypeOK
  /\ LockDiscipline
  /\ BuilderPromptCurrent
  /\ CachedAgentBuilt
  /\ CachedPromptCurrent
  /\ SettledMeansNoCommand
  /\ SettledTurnUsesPrompt

-----------------------------------------------------------------------------
\* Adding a turn to a conversation keeps it within what an agent remembers, and
\* brings in nothing but that turn.
LEMMA NewestKept ==
  ASSUME NEW history \in Conversation, NEW t \in Turn
  PROVE  LET new == Newest(Append(history, t))
         IN /\ new \in Conversation
            /\ \A i \in DOMAIN new :
                 new[i] = t \/ \E j \in DOMAIN history : new[i] = history[j]
BY CacheAssumption DEF Conversation, Newest

\* The cache starts empty, every prompt is the default and no turn is under way.
LEMMA InitInv == Init => CacheInv
<1> << >> \in Conversation
  BY CacheAssumption DEF Conversation
<1> QED BY CacheAssumption
DEF Init, CacheInv, TypeOK, Label, AnyPrompt, LockDiscipline,
    BuilderPromptCurrent, CachedAgentBuilt, CachedPromptCurrent,
    SettledMeansNoCommand, SettledTurnUsesPrompt

\* A turn that starts is settled only if no command of its user is pending.
LEMMA StepStartTurn ==
  ASSUME CacheInv, NEW t \in Turn, NEW u \in User, StartTurn(t, u)
  PROVE  CacheInv'
<1> USE CacheAssumption DEF CacheInv, StartTurn, Goto, talk, CommandPending
<1>1. TypeOK'
  BY DEF TypeOK, Label
<1>2. LockDiscipline'
  BY DEF TypeOK, LockDiscipline
<1>3. \A v \in User : CommandPending(v)' <=> CommandPending(v)
  BY DEF TypeOK
<1>4. BuilderPromptCurrent'
  BY <1>3 DEF TypeOK, BuilderPromptCurrent
<1>5. CachedAgentBuilt'
  BY DEF TypeOK, CachedAgentBuilt
<1>6. CachedPromptCurrent'
  BY <1>3 DEF TypeOK, CachedPromptCurrent
<1>7. SettledMeansNoCommand'
  BY <1>3 DEF TypeOK, SettledMeansNoCommand
<1>8. SettledTurnUsesPrompt'
  BY DEF TypeOK, SettledTurnUsesPrompt
<1>9. QED
  BY <1>1, <1>2, <1>4, <1>5, <1>6, <1>7, <1>8

\* A streamed turn builds its own agent and touches neither cache nor lock.
LEMMA StepStartStream ==
  ASSUME CacheInv, NEW t \in Turn, NEW u \in User, StartStream(t, u)
  PROVE  CacheInv'
<1> USE CacheAssumption DEF CacheInv, StartStream, Goto, talk, CommandPending
<1>1. TypeOK'
  BY DEF TypeOK, Label
<1>2. LockDiscipline'
  BY DEF TypeOK, LockDiscipline
<1>3. \A v \in User : CommandPending(v)' <=> CommandPending(v)
  BY DEF TypeOK
<1>4. BuilderPromptCurrent'
  BY <1>3 DEF TypeOK, BuilderPromptCurrent
<1>5. CachedAgentBuilt'
  BY DEF TypeOK, CachedAgentBuilt
<1>6. CachedPromptCurrent'
  BY <1>3 DEF TypeOK, CachedPromptCurrent
<1>7. SettledMeansNoCommand'
  BY <1>3 DEF TypeOK, SettledMeansNoCommand
<1>8. SettledTurnUsesPrompt'
  BY DEF TypeOK, SettledTurnUsesPrompt
<1>9. QED
  BY <1>1, <1>2, <1>4, <1>5, <1>6, <1>7, <1>8

\* Storing a prompt makes every agent of that user stale, but also makes the
\* command pending, and unsettles the user's turns.
LEMMA StepSystemCommand ==
  ASSUME CacheInv, NEW t \in Turn, NEW u \in User, NEW p \in AnyPrompt,
         SystemCommand(t, u, p)
  PROVE  CacheInv'
<1> USE CacheAssumption DEF CacheInv, SystemCommand, Goto, talk, CommandPending
<1>1. TypeOK'
  BY DEF TypeOK, Label
<1>2. LockDiscipline'
  BY DEF TypeOK, LockDiscipline
<1>3. CommandPending(u)' /\ \A v \in User \ {u} : CommandPending(v)' <=> CommandPending(v)
  BY DEF TypeOK
<1>4. BuilderPromptCurrent'
  BY <1>3 DEF TypeOK, BuilderPromptCurrent
<1>5. CachedAgentBuilt'
  BY DEF TypeOK, CachedAgentBuilt
<1>6. CachedPromptCurrent'
  BY <1>3 DEF TypeOK, CachedPromptCurrent
<1>7. SettledMeansNoCommand'
  <2> SUFFICES ASSUME NEW x \in Turn, settled'[x]
               PROVE  pc'[x] \notin {"idle", "evict"} /\ ~CommandPending(user[x])'
    BY DEF TypeOK, SettledMeansNoCommand
  <2>1. settled[x] /\ user[x] # u
    OBVIOUS
  <2>2. x # t /\ user[x] \in User /\ ~CommandPending(user[x])
    BY <2>1 DEF TypeOK, SettledMeansNoCommand
  <2>3. QED
    BY <1>3, <2>1, <2>2 DEF TypeOK, SettledMeansNoCommand
<1>8. SettledTurnUsesPrompt'
  <2> SUFFICES ASSUME NEW x \in Turn, settled'[x], pc'[x] \in {"process", "stream"}
               PROVE  turnPrompt'[x] = systemPrompts'[user'[x]]
    BY DEF SettledTurnUsesPrompt
  <2>1. settled[x] /\ user[x] # u /\ x # t /\ user'[x] = user[x] /\ pc[x] = pc'[x]
    BY DEF TypeOK
  <2>2. turnPrompt[x] = systemPrompts[user[x]]
    BY <2>1 DEF SettledTurnUsesPrompt
  <2>3. QED
    BY <2>1, <2>2 DEF TypeOK
<1>9. QED
  BY <1>1, <1>2, <1>4, <1>5, <1>6, <1>7, <1>8

\* Evicting ends the command: no agent of its user is left to be stale.
LEMMA StepEvict ==
  ASSUME CacheInv, NEW t \in Turn, evictAgent(t)
  PROVE  CacheInv'
<1> USE CacheAssumption DEF CacheInv, evictAgent, Goto, talk, CommandPending
<1>1. TypeOK'
  BY DEF TypeOK, Label
<1>2. LockDiscipline'
  BY DEF TypeOK, LockDiscipline
<1>3. \A v \in User : v # user[t] => (CommandPending(v)' <=> CommandPending(v))
  BY DEF TypeOK
<1>4. BuilderPromptCurrent'
  \* No turn is inserting while the lock is free.
  BY <1>2 DEF TypeOK, LockDiscipline, BuilderPromptCurrent
<1>5. CachedAgentBuilt'
  BY DEF TypeOK, CachedAgentBuilt
<1>6. CachedPromptCurrent'
  BY <1>3 DEF TypeOK, CachedPromptCurrent
<1>7. SettledMeansNoCommand'
  BY DEF TypeOK, SettledMeansNoCommand
<1>8. SettledTurnUsesPrompt'
  BY DEF TypeOK, SettledTurnUsesPrompt
<1>9. QED
  BY <1>1, <1>2, <1>4, <1>5, <1>6, <1>7, <1>8

\* Taking over the cached agent a: it is current, because a settled turn has no
\* command pending.
LEMMA StepUseCached ==
  ASSUME CacheInv, NEW t \in Turn, pc[t] \in {"lookup", "create"},
         userAgents[user[t]] # NoAgent, UseAgent(t, userAgents[user[t]]),
         UNCHANGED <<systemPrompts, userAgents, agentPrompt, agentHistory, newer,
                     stored, lock, user, settled>>
  PROVE  CacheInv'
<1> USE CacheAssumption DEF CacheInv, UseAgent, On, Goto, CommandPending
<1>0. user[t] \in User /\ userAgents[user[t]] \in Turn
  BY DEF TypeOK
<1>1. TypeOK'
  BY <1>0 DEF TypeOK, Label
<1>2. LockDiscipline'
  BY DEF TypeOK, LockDiscipline
<1>3. \A v \in User : CommandPending(v)' <=> CommandPending(v)
  BY DEF TypeOK
<1>4. BuilderPromptCurrent'
  BY <1>3 DEF TypeOK, BuilderPromptCurrent
<1>5. CachedAgentBuilt'
  BY DEF TypeOK, CachedAgentBuilt
<1>6. CachedPromptCurrent'
  BY <1>3 DEF TypeOK, CachedPromptCurrent
<1>7. SettledMeansNoCommand'
  BY <1>3 DEF TypeOK, SettledMeansNoCommand
<1>8. SettledTurnUsesPrompt'
  BY <1>0 DEF TypeOK, SettledTurnUsesPrompt, SettledMeansNoCommand, CachedPromptCurrent
<1>9. QED
  BY <1>1, <1>2, <1>4, <1>5, <1>6, <1>7, <1>8

\* The look-up under the read lock takes the cached agent over or goes for the
\* write lock.
LEMMA StepLookUp ==
  ASSUME CacheInv, NEW t \in Turn, LookUp(t)
  PROVE  CacheInv'
<1>1. CASE userAgents[user[t]] # NoAgent
  BY <1>1, StepUseCached DEF LookUp
<1>2. CASE userAgents[user[t]] = NoAgent
  <2> USE <1>2, CacheAssumption DEF CacheInv, LookUp, talk, Goto, CommandPending
  <2>1. TypeOK'
    BY DEF TypeOK, Label
  <2>2. LockDiscipline'
    BY DEF TypeOK, LockDiscipline
  <2>3. \A v \in User : CommandPending(v)' <=> CommandPending(v)
    BY DEF TypeOK
  <2>4. BuilderPromptCurrent' /\ CachedAgentBuilt' /\ CachedPromptCurrent'
    BY <2>3 DEF TypeOK, BuilderPromptCurrent, CachedAgentBuilt, CachedPromptCurrent
  <2>5. SettledMeansNoCommand' /\ SettledTurnUsesPrompt'
    BY <2>3 DEF TypeOK, SettledMeansNoCommand, SettledTurnUsesPrompt
  <2>6. QED
    BY <2>1, <2>2, <2>4, <2>5
<1>3. QED
  BY <1>1, <1>2

\* Reading the prompt under the write lock.
LEMMA StepLockAndCheck ==
  ASSUME CacheInv, NEW t \in Turn, LockAndCheck(t)
  PROVE  CacheInv'
<1>1. CASE userAgents[user[t]] # NoAgent
  BY <1>1, StepUseCached DEF LockAndCheck
<1>2. CASE userAgents[user[t]] = NoAgent
  <2> USE <1>2, CacheAssumption DEF CacheInv, LockAndCheck, talk, Goto, CommandPending
  <2>0. user[t] \in User
    BY DEF TypeOK
  <2>1. TypeOK'
    BY <2>0 DEF TypeOK, Label
  <2>2. LockDiscipline'
    BY DEF TypeOK, LockDiscipline
  <2>3. \A v \in User : CommandPending(v)' <=> CommandPending(v)
    BY DEF TypeOK
  <2>4. \A v \in User : userAgents[v] # NoAgent =>
           agentPrompt'[userAgents[v]] = agentPrompt[userAgents[v]]
    BY DEF TypeOK, CachedAgentBuilt
  <2>5. BuilderPromptCurrent'
    BY <2>0, <2>3 DEF TypeOK, BuilderPromptCurrent, LockDiscipline
  <2>6. CachedAgentBuilt'
    BY DEF TypeOK, CachedAgentBuilt
  <2>7. CachedPromptCurrent'
    BY <2>3, <2>4 DEF TypeOK, CachedPromptCurrent
  <2>8. SettledMeansNoCommand' /\ SettledTurnUsesPrompt'
    BY <2>3 DEF TypeOK, SettledMeansNoCommand, SettledTurnUsesPrompt
  <2>9. QED
    BY <2>1, <2>2, <2>5, <2>6, <2>7, <2>8
<1>3. QED
  BY <1>1, <1>2

\* The agent put into the cache was built with the prompt read under the same
\* write lock, so it is stale only if a command is about to evict it.
LEMMA StepInsertAgent ==
  ASSUME CacheInv, NEW t \in Turn, InsertAgent(t)
  PROVE  CacheInv'
<1> USE CacheAssumption DEF CacheInv, InsertAgent, UseAgent, On, Goto, CommandPending
<1>0. user[t] \in User
  BY DEF TypeOK
<1>1. TypeOK'
  BY <1>0 DEF TypeOK, Label
<1>2. LockDiscipline'
  BY DEF TypeOK, LockDiscipline
<1>3. \A v \in User : CommandPending(v)' <=> CommandPending(v)
  BY DEF TypeOK
<1>4. BuilderPromptCurrent'
  BY <1>2 DEF TypeOK, LockDiscipline, BuilderPromptCurrent
<1>5. CachedAgentBuilt'
  BY <1>0 DEF TypeOK, CachedAgentBuilt
<1>6. CachedPromptCurrent'
  BY <1>0, <1>3 DEF TypeOK, CachedPromptCurrent, BuilderPromptCurrent
<1>7. SettledMeansNoCommand'
  BY <1>3 DEF TypeOK, SettledMeansNoCommand
<1>8. SettledTurnUsesPrompt'
  BY <1>0 DEF TypeOK, SettledTurnUsesPrompt, SettledMeansNoCommand, BuilderPromptCurrent
<1>9. QED
  BY <1>1, <1>2, <1>4, <1>5, <1>6, <1>7, <1>8

\* What a turn's end makes of the conversations is well formed.
LEMMA TurnsTaken ==
  ASSUME TypeOK, NEW t \in Turn, Process(t) \/ EndStream(t) \/ Store(t)
  PROVE  /\ agentHistory' \in [Turn -> Conversation] /\ seen' \in [Turn -> Conversation]
         /\ raced' \subseteq Turn /\ newer' \in [Turn -> Nat]
<1>1. CASE EndStream(t) \/ Store(t)
  BY <1>1 DEF EndStream, Store, talk, TypeOK
<1>2. CASE Process(t)
  <2>1. << >> \in Conversation
    BY CacheAssumption DEF Conversation
  <2>2. seen' \in [Turn -> Conversation] /\ raced' \subseteq Turn
    BY <1>2, <2>1 DEF Process, TypeOK
  <2>3. CASE UNCHANGED <<agentHistory, newer>>
    BY <2>2, <2>3 DEF TypeOK
  <2>4. CASE TakeIn(t)
    <3>1. agent[t] \in Turn
      BY <1>2 DEF Process, TypeOK
    <3>2. PICK history \in {agentHistory[agent[t]], seen[t]} :
            agentHistory' = [agentHistory EXCEPT ![agent[t]] = Newest(Append(history, t))]
      BY <2>4 DEF TakeIn
    <3>3. Newest(Append(history, t)) \in Conversation
      BY <3>1, NewestKept DEF TypeOK
    <3>4. agentHistory' \in [Turn -> Conversation]
      BY <3>1, <3>2, <3>3 DEF TypeOK
    <3>5. newer' \in [Turn -> Nat]
      BY <2>4 DEF TakeIn, TypeOK
    <3>6. QED
      BY <2>2, <3>4, <3>5
  <2>5. QED
    BY <1>2, <2>3, <2>4 DEF Process
<1>3. QED
  BY <1>1, <1>2

\* The steps that end a turn leave prompts, cache and lock alone.
LEMMA StepEndOfTurn ==
  ASSUME CacheInv, NEW t \in Turn, Process(t) \/ EndStream(t) \/ Store(t)
  PROVE  CacheInv'
<1> USE CacheAssumption DEF CacheInv
<1>0. /\ pc[t] \in {"process", "stream", "store"}
      /\ pc' \in {[pc EXCEPT ![t] = "store"], [pc EXCEPT ![t] = "done"]}
      /\ UNCHANGED <<systemPrompts, userAgents, agentPrompt, lock, user, agent,
                     turnPrompt, settled>>
  BY DEF Process, EndStream, Store, Goto
<1>1. TypeOK'
  <2>1. user[t] \in User /\ (pc[t] = "process" => agent[t] \in Turn)
    BY <1>0 DEF TypeOK
  <2>2. stored' \in [User -> SUBSET Turn]
    BY <2>1 DEF TypeOK, talk, Process, EndStream, Store
  <2>3. /\ agentHistory' \in [Turn -> Conversation] /\ seen' \in [Turn -> Conversation]
        /\ raced' \subseteq Turn /\ newer' \in [Turn -> Nat]
    BY TurnsTaken DEF CacheInv
  <2>4. /\ pc' \in [Turn -> Label]
        /\ \A x \in Turn : pc'[x] # "idle" => user'[x] \in User
        /\ \A x \in Turn : pc'[x] = "process" => agent'[x] \in Turn
    <3>1. \A x \in Turn : pc'[x] = pc[x] \/ (x = t /\ pc'[x] \in {"store", "done"})
      BY <1>0 DEF TypeOK
    <3>2. pc' \in [Turn -> Label]
      BY <1>0 DEF TypeOK, Label
    <3>3. QED
      BY <1>0, <2>1, <3>1, <3>2 DEF TypeOK
  <2>5. QED
    BY <1>0, <2>2, <2>3, <2>4 DEF TypeOK
<1>2. LockDiscipline'
  BY <1>0 DEF TypeOK, LockDiscipline
<1>3. \A v \in User : CommandPending(v)' <=> CommandPending(v)
  BY <1>0 DEF TypeOK, CommandPending
<1>4. BuilderPromptCurrent' /\ CachedPromptCurrent'
  BY <1>0, <1>3 DEF TypeOK, BuilderPromptCurrent, CachedPromptCurrent
<1>5. CachedAgentBuilt'
  BY <1>0 DEF TypeOK, CachedAgentBuilt
<1>6. SettledMeansNoCommand' /\ SettledTurnUsesPrompt'
  BY <1>0, <1>3 DEF TypeOK, SettledMeansNoCommand, SettledTurnUsesPrompt
<1>7. QED
  BY <1>1, <1>2, <1>4, <1>5, <1>6

\* The invariant speaks of the specification's variables only.
LEMMA StutterInv == CacheInv /\ UNCHANGED vars => CacheInv'
BY DEF vars, CacheInv, TypeOK, LockDiscipline, BuilderPromptCurrent,
       CachedAgentBuilt, CachedPromptCurrent, SettledMeansNoCommand,
       SettledTurnUsesPrompt, CommandPending

\* The inductive invariant of the cache: types, the lock held by the one turn
\* that builds, the prompt it builds with, and the state of every settled turn
\* (getOrCreateAgent and handleSystemCommand in router.go).
THEOREM CacheInvariant == Spec => []CacheInv
<1>1. CacheInv /\ [Next]_vars => CacheInv'
  BY StepStartTurn, StepStartStream, StepSystemCommand, StepEvict, StepLookUp,
     StepLockAndCheck, StepInsertAgent, StepEndOfTurn, StutterInv
  DEF Next, Step
<1>2. QED
  BY <1>1, InitInv, PTL DEF Spec

\* The agent a user has in the cache never carries a prompt other than the one
\* in force, but for a /system command between storing and evicting.
THEOREM NoStaleAgent == Spec => []CachedPromptCurrent
BY CacheInvariant, PTL DEF CacheInv

\* A turn that met no /system command is answered under the prompt in force.
THEOREM SettledTurnsAnsweredUnderPrompt == Spec => []SettledTurnUsesPrompt
BY CacheInvariant, PTL DEF CacheInv

\* Building an agent never displaces another one.
THEOREM AgentsOnlyEvicted == Spec => AgentNotReplaced
<1> DEFINE Kept ==
      \A u \in User :
        userAgents[u] # NoAgent => userAgents'[u] \in {userAgents[u], NoAgent}
<1>1. CacheInv /\ [Next]_vars => [Kept]_vars
  <2> SUFFICES ASSUME CacheInv, Next PROVE Kept
    OBVIOUS
  <2>1. CASE UNCHANGED userAgents
    BY <2>1
  <2>2. ASSUME NEW t \in Turn, InsertAgent(t) PROVE Kept
    BY <2>2 DEF InsertAgent, CacheInv, BuilderPromptCurrent, TypeOK
  <2>3. ASSUME NEW t \in Turn, evictAgent(t) PROVE Kept
    BY <2>3 DEF evictAgent, CacheInv, TypeOK
  <2>4. QED
    BY <2>1, <2>2, <2>3
    DEF Next, Step, StartTurn, StartStream, SystemCommand, LookUp, LockAndCheck,
        Process, EndStream, Store
<1>2. QED
  BY <1>1, CacheInvariant, PTL DEF Spec, AgentNotReplaced

-----------------------------------------------------------------------------
(* Conversations: whose turns an agent remembers, and whether the next turn  *)
(* finds them.                                                               *)

\* A turn has an agent from the moment it runs on one, of its own user; so has
\* a user in the cache.
OwnAgents ==
  /\ \A t \in Turn :
       /\ pc[t] \in {"idle", "lookup", "create", "insert", "stream", "evict"}
            => agent[t] = NoAgent
       /\ agent[t] # NoAgent => pc[agent[t]] # "idle" /\ user[agent[t]] = user[t]
  /\ \A u \in User : userAgents[u] # NoAgent => user[userAgents[u]] = u

\* An agent remembers turns of its user only, and so does a turn that is with it;
\* a turn is stored as it ends.
OwnTurns ==
  /\ \A a \in Turn : \A i \in DOMAIN agentHistory[a] :
       /\ pc[a] # "idle" /\ pc[agentHistory[a][i]] # "idle"
       /\ user[agentHistory[a][i]] = user[a]
  /\ \A t \in Turn : pc[t] = "process" => \A i \in DOMAIN seen[t] :
       pc[seen[t][i]] # "idle" /\ user[seen[t][i]] = user[t]
  /\ \A u \in User : \A t \in stored[u] : pc[t] = "done"

\* Turns that are with one agent together know that they are.
OverlapsKnown ==
  \A t, x \in Turn :
    pc[t] = "process" /\ pc[x] = "process" /\ agent[t] = agent[x] /\ t # x => t \in raced

\* A conversation still holds a turn, with no more turns behind it than have been
\* taken in since, or there have been enough of those to push it out.
Holds(history, t, since) ==
  \/ \E i \in DOMAIN history : history[i] = t /\ Len(history) - i <= since
  \/ since >= MaxHistory

Answered(t) == agent[t] # NoAgent /\ (pc[t] = "store" \/ t \in stored[user[t]])

\* A turn that its agent has answered, and that was alone with it, is held by the
\* agent, and by whoever may write the agent's history next.
Remembered ==
  \A t \in Turn :
    Answered(t) /\ t \notin raced =>
      /\ Holds(agentHistory[agent[t]], t, newer[t])
      /\ \A x \in Turn :
           pc[x] = "process" /\ agent[x] = agent[t] => Holds(seen[x], t, newer[t])

\* While no command has touched a turn, its agent stays in the cache.
SettledKeepsAgent ==
  \A t \in Turn :
    settled[t] /\ agent[t] # NoAgent => userAgents[user[t]] = agent[t]

ConversationInv ==
  CacheInv /\ OwnAgents /\ OwnTurns /\ OverlapsKnown /\ Remembered /\ SettledKeepsAgent

\* What an action has to keep besides the cache.
TalkKept == OwnAgents /\ OwnTurns /\ OverlapsKnown /\ Remembered /\ SettledKeepsAgent

\* What is held at a place of a conversation is held by its newest part, unless
\* that place is dropped.
LEMMA HeldAt ==
  ASSUME NEW all \in Seq(Turn), NEW i \in 1..Len(all), NEW since \in Nat,
         Len(all) - i <= since, Len(all) > MaxHistory => i > 1 \/ since >= MaxHistory
  PROVE  Holds(Newest(all), all[i], since)
<1> USE CacheAssumption
<1>1. CASE Len(all) <= MaxHistory
  <2>1. Newest(all) = all /\ i \in DOMAIN all
    BY <1>1 DEF Newest
  <2>2. QED
    BY <2>1 DEF Holds
<1>2. CASE Len(all) > MaxHistory /\ i > 1
  <2> DEFINE tail == Tail(all)
             k == i - 1
  <2>1. /\ Newest(all) = tail /\ k \in DOMAIN tail
        /\ tail[k] = all[i] /\ Len(tail) - k <= since
    BY <1>2 DEF Newest
  <2> HIDE DEF tail, k
  <2>2. QED
    BY <2>1 DEF Holds
<1>3. CASE since >= MaxHistory
  BY <1>3 DEF Holds
<1>4. QED
  BY <1>1, <1>2, <1>3

\* A turn held by a conversation is still held after the next one was taken in.
LEMMA StillHeld ==
  ASSUME NEW history \in Conversation, NEW t \in Turn, NEW x \in Turn,
         NEW since \in Nat, Holds(history, x, since)
  PROVE  Holds(Newest(Append(history, t)), x, since + 1)
<1> USE CacheAssumption
<1>1. history \in Seq(Turn) /\ Len(history) <= MaxHistory
  BY DEF Conversation
<1>2. CASE since >= MaxHistory
  BY <1>2 DEF Holds
<1>3. CASE \E i \in DOMAIN history : history[i] = x /\ Len(history) - i <= since
  <2>1. PICK i \in DOMAIN history : history[i] = x /\ Len(history) - i <= since
    BY <1>3
  <2> DEFINE all == Append(history, t)
  <2>2. /\ all \in Seq(Turn) /\ i \in 1..Len(all) /\ all[i] = x
        /\ Len(all) - i <= since + 1 /\ since + 1 \in Nat
        /\ Len(all) > MaxHistory => i > 1 \/ since + 1 >= MaxHistory
    BY <1>1, <2>1
  <2> HIDE DEF all
  <2>3. Holds(Newest(all), all[i], since + 1)
    BY <2>2, HeldAt
  <2>4. QED
    BY <2>2, <2>3 DEF all
<1>4. QED
  BY <1>2, <1>3 DEF Holds

\* The turn taken in is held.
LEMMA NowHeld ==
  ASSUME NEW history \in Conversation, NEW t \in Turn
  PROVE  Holds(Newest(Append(history, t)), t, 0)
<1> DEFINE all == Append(history, t)
<1>1. /\ all \in Seq(Turn) /\ Len(all) \in 1..Len(all) /\ all[Len(all)] = t
      /\ Len(all) - Len(all) <= 0
      /\ Len(all) > MaxHistory => Len(all) > 1
  BY CacheAssumption DEF Conversation
<1> HIDE DEF all
<1>2. Holds(Newest(all), all[Len(all)], 0)
  BY <1>1, HeldAt
<1>3. QED
  BY <1>1, <1>2 DEF all

\* No turn has begun: no one has an agent, and nothing is remembered or stored.
LEMMA InitConversation == Init => ConversationInv
BY InitInv, CacheAssumption
DEF Init, ConversationInv, OwnAgents, OwnTurns, OverlapsKnown, Remembered, Answered,
    SettledKeepsAgent

\* A turn that begins, or a command, gives an idle turn its user: nobody has
\* referred to it yet.  A command unsettles its user's turns.
LEMMA ConversationBegin ==
  ASSUME ConversationInv, NEW t \in Turn, NEW u \in User,
         \/ StartTurn(t, u) \/ StartStream(t, u)
         \/ \E p \in AnyPrompt : SystemCommand(t, u, p)
  PROVE  TalkKept'
<1> USE CacheAssumption
<1>1. /\ pc[t] = "idle" /\ user' = [user EXCEPT ![t] = u]
      /\ \E l \in {"lookup", "stream", "evict"} : pc' = [pc EXCEPT ![t] = l]
      /\ UNCHANGED <<userAgents, stored, agent>>
      /\ UNCHANGED <<agentHistory, seen, raced, newer>>
      /\ \A x \in Turn : x # t => (settled'[x] => settled[x])
  <2>1. settled \in [Turn -> BOOLEAN]
    BY DEF ConversationInv, CacheInv, TypeOK
  <2>2. QED
    BY <2>1 DEF StartTurn, StartStream, SystemCommand, Goto, talk
<1>2. /\ TypeOK /\ OwnAgents /\ OwnTurns /\ OverlapsKnown /\ Remembered
      /\ SettledKeepsAgent /\ CachedAgentBuilt
  BY DEF ConversationInv, CacheInv
<1>3. agent[t] = NoAgent /\ \A v \in User : userAgents[v] # t
  BY <1>1, <1>2 DEF OwnAgents, CachedAgentBuilt, TypeOK
<1>4. OwnAgents'
  BY <1>1, <1>2, <1>3 DEF OwnAgents, TypeOK
<1>5. OwnTurns'
  BY <1>1, <1>2, <1>3 DEF OwnTurns, TypeOK
<1>6. OverlapsKnown'
  BY <1>1, <1>2, <1>3 DEF OverlapsKnown, TypeOK
<1>7. Remembered'
  <2>1. \A x \in Turn : Answered(x)' => Answered(x)
    BY <1>1, <1>2, <1>3 DEF Answered, TypeOK
  <2>2. QED
    BY <1>1, <1>2, <2>1 DEF Remembered, TypeOK
<1>8. SettledKeepsAgent'
  BY <1>1, <1>2, <1>3 DEF SettledKeepsAgent, TypeOK
<1>9. QED
  BY <1>4, <1>5, <1>6, <1>7, <1>8 DEF TalkKept

\* An eviction concerns no settled turn: their user has no command pending.
LEMMA ConversationEvict ==
  ASSUME ConversationInv, NEW t \in Turn, evictAgent(t)
  PROVE  TalkKept'
<1> USE CacheAssumption DEF ConversationInv, CacheInv, evictAgent, Goto, talk
<1>1. OwnAgents'
  BY DEF OwnAgents, TypeOK
<1>2. OwnTurns' /\ OverlapsKnown'
  BY DEF OwnTurns, OverlapsKnown, TypeOK
<1>3. Remembered'
  <2>1. \A x \in Turn : Answered(x)' => Answered(x)
    BY DEF Answered, TypeOK
  <2>2. QED
    BY <2>1 DEF Remembered, TypeOK
<1>4. SettledKeepsAgent'
  BY DEF SettledKeepsAgent, SettledMeansNoCommand, CommandPending, TypeOK
<1>5. QED
  BY <1>1, <1>2, <1>3, <1>4 DEF TalkKept

\* A turn that comes to an agent finds the history that the others left, and is
\* marked if it is not alone.
LEMMA ConversationJoin ==
  ASSUME ConversationInv, NEW t \in Turn, NEW a \in Turn,
         pc[t] \in {"lookup", "create", "insert"},
         user[a] = user[t], pc[a] # "idle", UseAgent(t, a),
         UNCHANGED <<agentHistory, newer, stored, user, settled>>
  PROVE  /\ OwnTurns' /\ OverlapsKnown' /\ Remembered'
<1> USE CacheAssumption
<1>1. /\ TypeOK /\ OwnAgents /\ OwnTurns /\ OverlapsKnown /\ Remembered
  BY DEF ConversationInv, CacheInv
<1>2. /\ agent' = [agent EXCEPT ![t] = a]
      /\ pc' = [pc EXCEPT ![t] = "process"]
      /\ seen' = [seen EXCEPT ![t] = agentHistory[a]]
      /\ raced \subseteq raced'
      /\ \A x \in Turn : pc[x] = "process" /\ agent[x] = a => {x, t} \subseteq raced'
  BY DEF UseAgent, On, Goto
<1>3. user[t] \in User /\ agent[t] = NoAgent /\ t \notin stored[user[t]]
  BY <1>1 DEF TypeOK, OwnAgents, OwnTurns
<1>4. OwnTurns'
  BY <1>1, <1>2 DEF OwnTurns, TypeOK
<1>5. OverlapsKnown'
  BY <1>1, <1>2 DEF OverlapsKnown, TypeOK
<1>6. Remembered'
  <2> SUFFICES ASSUME NEW x \in Turn, Answered(x)', x \notin raced'
               PROVE  /\ Holds(agentHistory[agent[x]], x, newer[x])'
                      /\ \A z \in Turn : (pc[z] = "process" /\ agent[z] = agent[x])'
                           => Holds(seen[z], x, newer[x])'
    BY DEF Remembered
  <2>1. x # t /\ Answered(x) /\ x \notin raced /\ agent'[x] = agent[x]
    BY <1>1, <1>2, <1>3 DEF Answered, TypeOK
  <2>2. Holds(agentHistory[agent[x]], x, newer[x])
    BY <1>1, <2>1 DEF Remembered
  <2>3. ASSUME NEW z \in Turn, pc'[z] = "process", agent'[z] = agent'[x]
        PROVE  Holds(seen'[z], x, newer[x])
    <3>1. CASE z = t
      BY <1>1, <1>2, <2>1, <2>2, <2>3, <3>1 DEF TypeOK
    <3>2. CASE z # t
      BY <1>1, <1>2, <2>1, <2>3, <3>2 DEF Remembered, TypeOK
    <3>3. QED
      BY <3>1, <3>2
  <2>4. QED
    BY <2>1, <2>2, <2>3 DEF Holds
<1>7. QED
  BY <1>4, <1>5, <1>6

\* A turn gets the cached agent of its user, or goes on to build one.
LEMMA ConversationUseCached ==
  ASSUME ConversationInv, NEW t \in Turn, LookUp(t) \/ LockAndCheck(t)
  PROVE  TalkKept'
<1> USE CacheAssumption
<1>1. /\ TypeOK /\ OwnAgents /\ OwnTurns /\ OverlapsKnown /\ Remembered
      /\ SettledKeepsAgent /\ CachedAgentBuilt
  BY DEF ConversationInv, CacheInv
<1>2. /\ pc[t] \in {"lookup", "create"}
      /\ UNCHANGED <<userAgents, agentHistory, newer, stored, user, settled>>
  BY DEF LookUp, LockAndCheck
<1>3. user[t] \in User /\ agent[t] = NoAgent
  BY <1>1, <1>2 DEF TypeOK, OwnAgents
<1>4. CASE userAgents[user[t]] # NoAgent /\ UseAgent(t, userAgents[user[t]])
  <2>1. /\ userAgents[user[t]] \in Turn /\ user[userAgents[user[t]]] = user[t]
        /\ pc[userAgents[user[t]]] # "idle"
    BY <1>1, <1>3, <1>4 DEF TypeOK, OwnAgents, CachedAgentBuilt
  <2>2. OwnTurns' /\ OverlapsKnown' /\ Remembered'
    BY <1>2, <1>4, <2>1, ConversationJoin
  <2>3. OwnAgents'
    BY <1>1, <1>2, <1>3, <1>4, <2>1 DEF OwnAgents, CachedAgentBuilt, TypeOK, UseAgent, Goto
  <2>4. SettledKeepsAgent'
    BY <1>1, <1>2, <1>3, <1>4 DEF SettledKeepsAgent, TypeOK, UseAgent
  <2>5. QED
    BY <2>2, <2>3, <2>4 DEF TalkKept
<1>5. CASE /\ \E l \in {"create", "insert"} : pc' = [pc EXCEPT ![t] = l]
           /\ UNCHANGED <<agent, seen, raced>>
  <2>1. OwnAgents' /\ SettledKeepsAgent'
    BY <1>1, <1>2, <1>3, <1>5 DEF OwnAgents, SettledKeepsAgent, TypeOK
  <2>2. OwnTurns' /\ OverlapsKnown'
    BY <1>1, <1>2, <1>5 DEF OwnTurns, OverlapsKnown, TypeOK
  <2>3. Remembered'
    <3>1. \A x \in Turn : Answered(x)' => Answered(x)
      BY <1>1, <1>2, <1>5 DEF Answered, TypeOK
    <3>2. QED
      BY <1>1, <1>2, <1>5, <3>1 DEF Remembered, TypeOK
  <2>4. QED
    BY <2>1, <2>2, <2>3 DEF TalkKept
<1>6. QED
  BY <1>4, <1>5 DEF LookUp, LockAndCheck, Goto

\* A new agent goes where none is cached, so no settled turn had another.
LEMMA ConversationInsert ==
  ASSUME ConversationInv, NEW t \in Turn, InsertAgent(t)
  PROVE  TalkKept'
<1> USE CacheAssumption
<1>1. /\ TypeOK /\ OwnAgents /\ SettledKeepsAgent
      /\ userAgents[user[t]] = NoAgent /\ pc[t] = "insert"
  BY DEF ConversationInv, CacheInv, BuilderPromptCurrent, InsertAgent
<1>2. /\ userAgents' = [userAgents EXCEPT ![user[t]] = t]
      /\ agent' = [agent EXCEPT ![t] = t]
      /\ pc' = [pc EXCEPT ![t] = "process"]
      /\ UNCHANGED <<agentHistory, newer, stored, user, settled>>
  BY DEF InsertAgent, UseAgent, Goto
<1>3. user[t] \in User /\ agent[t] = NoAgent
  BY <1>1 DEF TypeOK, OwnAgents
<1>4. OwnAgents'
  BY <1>1, <1>2, <1>3 DEF OwnAgents, TypeOK
<1>5. SettledKeepsAgent'
  BY <1>1, <1>2, <1>3 DEF SettledKeepsAgent, TypeOK
<1>6. OwnTurns' /\ OverlapsKnown' /\ Remembered'
  BY <1>1, <1>2, ConversationJoin DEF InsertAgent
<1>7. QED
  BY <1>4, <1>5, <1>6 DEF TalkKept

\* A turn is held by its agent before it is stored, unless another turn was with
\* the agent as well: only such a one writes over what it adds.
LEMMA ConversationProcess ==
  ASSUME ConversationInv, NEW t \in Turn, Process(t)
  PROVE  OwnTurns' /\ OverlapsKnown' /\ Remembered'
<1> USE CacheAssumption
<1>1. /\ TypeOK /\ OwnAgents /\ OwnTurns /\ OverlapsKnown /\ Remembered
  BY DEF ConversationInv, CacheInv
<1>2. /\ pc[t] = "process"
      /\ \E l \in {"store", "done"} : pc' = [pc EXCEPT ![t] = l]
      /\ seen' = [seen EXCEPT ![t] = << >>]
      /\ UNCHANGED <<stored, user, agent, raced>>
  BY DEF Process, Goto
<1>3. user[t] \in User /\ agent[t] \in Turn /\ user[agent[t]] = user[t]
      /\ pc[agent[t]] # "idle"
  BY <1>1, <1>2 DEF TypeOK, OwnAgents
<1>4. OverlapsKnown'
  BY <1>1, <1>2 DEF OverlapsKnown, TypeOK
<1>5. t \notin stored[user[t]]
  BY <1>1, <1>2, <1>3 DEF OwnTurns
<1>6. CASE UNCHANGED <<agentHistory, newer>> /\ pc' = [pc EXCEPT ![t] = "done"]
  <2>1. OwnTurns'
    BY <1>1, <1>2, <1>6 DEF OwnTurns, TypeOK
  <2>2. \A x \in Turn : Answered(x)' => Answered(x)
    BY <1>1, <1>2, <1>5, <1>6 DEF Answered, TypeOK
  <2>3. Remembered'
    BY <1>1, <1>2, <1>6, <2>2 DEF Remembered, TypeOK
  <2>4. QED
    BY <1>4, <2>1, <2>3
<1>7. CASE TakeIn(t)
  <2> DEFINE a == agent[t]
  <2>1. PICK history \in {agentHistory[a], seen[t]} :
          agentHistory' = [agentHistory EXCEPT ![a] = Newest(Append(history, t))]
    BY <1>7 DEF TakeIn
  <2>2. newer' = [x \in Turn |-> IF x = t THEN 0
                                ELSE IF agent[x] = a THEN newer[x] + 1 ELSE newer[x]]
    BY <1>7 DEF TakeIn
  <2>3. history \in Conversation
    BY <1>1, <1>3, <2>1 DEF TypeOK
  <2> DEFINE new == Newest(Append(history, t))
  <2>4. \A i \in DOMAIN new : pc'[new[i]] # "idle" /\ user[new[i]] = user[a]
    <3>1. \A j \in DOMAIN history :
             /\ history[j] \in Turn
             /\ pc[history[j]] # "idle" /\ user[history[j]] = user[a]
      BY <1>1, <1>2, <1>3, <2>1, <2>3 DEF OwnTurns, Conversation
    <3>2. QED
      BY <1>1, <1>2, <1>3, <2>3, <3>1, NewestKept DEF TypeOK
  <2>5. OwnTurns'
    <3>1. \A b \in Turn : \A i \in DOMAIN agentHistory'[b] :
             /\ pc'[b] # "idle" /\ pc'[agentHistory'[b][i]] # "idle"
             /\ user'[agentHistory'[b][i]] = user'[b]
      <4> SUFFICES ASSUME NEW b \in Turn, NEW i \in DOMAIN agentHistory'[b]
                   PROVE  /\ pc'[b] # "idle" /\ pc'[agentHistory'[b][i]] # "idle"
                          /\ user'[agentHistory'[b][i]] = user'[b]
        OBVIOUS
      <4>1. CASE b = a
        BY <1>1, <1>2, <1>3, <2>1, <2>4, <4>1 DEF TypeOK
      <4>2. CASE b # a
        <5>1. agentHistory'[b] = agentHistory[b]
          BY <1>1, <1>3, <2>1, <4>2 DEF TypeOK
        <5>2. QED
          BY <1>1, <1>2, <5>1 DEF OwnTurns, TypeOK
      <4>3. QED
        BY <4>1, <4>2
    <3>2. \A x \in Turn : pc'[x] = "process" => \A i \in DOMAIN seen'[x] :
             pc'[seen'[x][i]] # "idle" /\ user'[seen'[x][i]] = user'[x]
      BY <1>1, <1>2 DEF OwnTurns, TypeOK
    <3>3. \A u \in User : \A x \in stored'[u] : pc'[x] = "done"
      BY <1>1, <1>2 DEF OwnTurns, TypeOK
    <3>4. QED
      BY <3>1, <3>2, <3>3 DEF OwnTurns
  <2>6. Remembered'
    <3> SUFFICES ASSUME NEW x \in Turn, Answered(x)', x \notin raced
                 PROVE  /\ Holds(agentHistory'[agent[x]], x, newer'[x])
                        /\ \A z \in Turn : pc'[z] = "process" /\ agent[z] = agent[x]
                             => Holds(seen'[z], x, newer'[x])
      BY <1>2 DEF Remembered, Holds
    <3>1. CASE x = t
      <4>1. Holds(new, t, 0)
        BY <2>3, NowHeld
      <4>2. agentHistory'[agent[x]] = new /\ newer'[x] = 0
        BY <1>1, <1>3, <2>1, <2>2, <3>1 DEF TypeOK
      <4>3. \A z \in Turn : ~ (pc'[z] = "process" /\ agent[z] = agent[x])
        BY <1>1, <1>2, <3>1 DEF OverlapsKnown, TypeOK
      <4>4. QED
        BY <3>1, <4>1, <4>2, <4>3
    <3>2. CASE x # t
      <4>1. Answered(x) /\ newer[x] \in Nat /\ agent[x] \in Turn
        BY <1>1, <1>2, <3>2 DEF Answered, TypeOK
      <4>2. /\ Holds(agentHistory[agent[x]], x, newer[x])
            /\ \A z \in Turn : pc[z] = "process" /\ agent[z] = agent[x]
                 => Holds(seen[z], x, newer[x])
        BY <1>1, <4>1 DEF Remembered
      <4>3. newer'[x] \in Nat /\ newer'[x] >= newer[x]
        BY <2>2, <3>2, <4>1
      <4>4. \A h : Holds(h, x, newer[x]) /\ h \in Conversation => Holds(h, x, newer'[x])
        BY <4>1, <4>3, CacheAssumption DEF Holds, Conversation
      <4>5. CASE agent[x] = a
        <5>1. Holds(history, x, newer[x])
          BY <1>2, <2>1, <4>2, <4>5
        <5>2. Holds(new, x, newer[x] + 1)
          BY <2>3, <4>1, <5>1, StillHeld
        <5>3. agentHistory'[agent[x]] = new /\ newer'[x] = newer[x] + 1
          BY <1>1, <1>3, <2>1, <2>2, <3>2, <4>5 DEF TypeOK
        <5>4. \A z \in Turn : pc'[z] = "process" /\ agent[z] = agent[x]
                => Holds(seen'[z], x, newer'[x])
          BY <1>1, <1>2, <4>2, <4>4 DEF TypeOK
        <5>5. QED
          BY <5>2, <5>3, <5>4
      <4>6. CASE agent[x] # a
        <5>1. agentHistory'[agent[x]] = agentHistory[agent[x]] /\ newer'[x] = newer[x]
          BY <1>1, <1>3, <2>1, <2>2, <3>2, <4>1, <4>6 DEF TypeOK
        <5>2. \A z \in Turn : pc'[z] = "process" /\ agent[z] = agent[x]
                => Holds(seen'[z], x, newer'[x])
          BY <1>1, <1>2, <4>2, <4>4 DEF TypeOK
        <5>3. QED
          BY <4>2, <5>1, <5>2
      <4>7. QED
        BY <4>5, <4>6
    <3>3. QED
      BY <3>1, <3>2
  <2>7. QED
    BY <1>4, <2>5, <2>6
<1>8. QED
  BY <1>6, <1>7 DEF Process, Goto

\* The steps that end a turn.
LEMMA ConversationEnd ==
  ASSUME ConversationInv, NEW t \in Turn, Process(t) \/ EndStream(t) \/ Store(t)
  PROVE  TalkKept'
<1> USE CacheAssumption
<1>1. /\ TypeOK /\ OwnAgents /\ OwnTurns /\ OverlapsKnown /\ Remembered
      /\ SettledKeepsAgent
  BY DEF ConversationInv, CacheInv
<1>2. /\ pc[t] \in {"process", "stream", "store"}
      /\ \E l \in {"store", "done"} : pc' = [pc EXCEPT ![t] = l]
      /\ UNCHANGED <<userAgents, user, agent, settled>>
  BY DEF Process, EndStream, Store, Goto
<1>3. user[t] \in User
  BY <1>1, <1>2 DEF TypeOK
<1>4. OwnAgents'
  BY <1>1, <1>2 DEF OwnAgents, TypeOK
<1>5. SettledKeepsAgent'
  BY <1>1, <1>2 DEF SettledKeepsAgent
<1>6. OwnTurns' /\ OverlapsKnown' /\ Remembered'
  <2>1. CASE Process(t)
    BY <2>1, ConversationProcess
  <2>2. CASE EndStream(t)
    <3>1. /\ pc[t] = "stream" /\ agent[t] = NoAgent
          /\ UNCHANGED <<agentHistory, seen, raced, newer, stored>>
      BY <1>1, <2>2 DEF EndStream, talk, OwnAgents
    <3>2. OwnTurns' /\ OverlapsKnown'
      BY <1>1, <1>2, <3>1 DEF OwnTurns, OverlapsKnown, TypeOK
    <3>3. \A x \in Turn : Answered(x)' => Answered(x)
      BY <1>1, <1>2, <3>1 DEF Answered, TypeOK
    <3>4. Remembered'
      BY <1>1, <1>2, <3>1, <3>3 DEF Remembered, TypeOK
    <3>5. QED
      BY <3>2, <3>4
  <2>3. CASE Store(t)
    <3>1. /\ pc[t] = "store" /\ pc' = [pc EXCEPT ![t] = "done"]
          /\ UNCHANGED <<agentHistory, seen, raced, newer>>
          /\ \A u \in User : stored'[u] \subseteq stored[u] \cup {t}
      BY <1>1, <1>3, <2>3 DEF Store, talk, Goto, TypeOK
    <3>2. OwnTurns' /\ OverlapsKnown'
      BY <1>1, <1>2, <3>1 DEF OwnTurns, OverlapsKnown, TypeOK
    <3>3. \A x \in Turn : Answered(x)' => Answered(x)
      <4> SUFFICES ASSUME NEW x \in Turn, Answered(x)' PROVE Answered(x)
        OBVIOUS
      <4>1. agent[x] # NoAgent /\ user'[x] = user[x] /\ user[x] \in User
        BY <1>1, <1>2, <3>1 DEF Answered, TypeOK, OwnAgents
      <4>2. QED
        BY <1>1, <1>2, <3>1, <4>1 DEF Answered, TypeOK
    <3>4. Remembered'
      BY <1>1, <1>2, <3>1, <3>3 DEF Remembered, TypeOK
    <3>5. QED
      BY <3>2, <3>4
  <2>4. QED
    BY <2>1, <2>2, <2>3
<1>7. QED
  BY <1>4, <1>5, <1>6 DEF TalkKept

\* Each user has one conversation, of that user's turns only, and what of it is
\* stored, no command having touched it and no other turn having run beside it,
\* the next turn's agent remembers until MaxHistory later turns have pushed it
\* out (getOrCreateAgent and ProcessMessage in router.go).
THEOREM ConversationsKept == Spec => []OneConversation
<1>1. ConversationInv /\ [Next]_vars => ConversationInv'
  <2> SUFFICES ASSUME ConversationInv, [Next]_vars PROVE ConversationInv'
    OBVIOUS
  <2>1. CacheInv'
    BY StepStartTurn, StepStartStream, StepSystemCommand, StepEvict, StepLookUp,
       StepLockAndCheck, StepInsertAgent, StepEndOfTurn, StutterInv
    DEF ConversationInv, Next, Step
  <2>2. CASE UNCHANGED vars
    <3>1. OwnAgents' /\ OwnTurns' /\ OverlapsKnown' /\ SettledKeepsAgent'
      BY <2>2 DEF vars, ConversationInv, OwnAgents, OwnTurns, OverlapsKnown,
                  SettledKeepsAgent
    <3>2. Remembered'
      BY <2>2 DEF vars, ConversationInv, Remembered, Answered, Holds
    <3>3. QED
      BY <2>1, <3>1, <3>2 DEF ConversationInv
  <2>3. CASE Next
    <3>1. TalkKept'
      BY <2>3, ConversationBegin, ConversationEvict, ConversationUseCached,
         ConversationInsert, ConversationEnd
      DEF Next, Step
    <3>2. QED
      BY <2>1, <3>1 DEF ConversationInv, TalkKept
  <2>4. QED
    BY <2>2, <2>3
<1>2. ConversationInv => OneConversation
  <2> SUFFICES ASSUME ConversationInv PROVE OneConversation
    OBVIOUS
  <2>1. \A a, t \in Turn : Remembers(a, t) => user[t] = user[a]
    BY DEF ConversationInv, OwnTurns, Remembers
  <2>2. ASSUME NEW t \in Turn, settled[t], t \notin raced, agent[t] # NoAgent,
               t \in stored[user[t]]
        PROVE  /\ userAgents[user[t]] # NoAgent
               /\ Remembers(userAgents[user[t]], t) \/ newer[t] >= MaxHistory
    <3>1. userAgents[user[t]] = agent[t]
      BY <2>2 DEF ConversationInv, SettledKeepsAgent
    <3>2. Holds(agentHistory[agent[t]], t, newer[t])
      BY <2>2 DEF ConversationInv, Remembered, Answered
    <3>3. QED
      BY <2>2, <3>1, <3>2 DEF Holds, Remembers
  <2>3. QED
    BY <2>1, <2>2 DEF OneConversation
<1>3. QED
  BY <1>1, <1>2, InitConversation, PTL DEF Spec

-----------------------------------------------------------------------------
(* The calendar and its calls.                                               *)

\* A call under way has an operation, no result yet, and a UUID that was given out
\* if it creates or deletes; only such a call writes.
CallsOK ==
  \A c \in Call :
    /\ at[c] # "idle" => op[c] # "none" /\ result[c] = "none"
    /\ op[c] \in {"create", "delete"} => event[c] \in created
    /\ c \in Writers => op[c] \in {"create", "delete"}

\* Of two calls between loading and writing, either has been seen to overlap.
OverlapsMarked == \A c, d \in Writers : c # d => event[c] \in racing

\* What a call is about to write is what the calls before it wrote, changed by it, but for events of overlapping calls.
CopyCurrent == \A c \in Writers : copy[c] \ racing = Changed(c, due) \ racing

CalendarInv == LostOnlyByOverlap /\ CallsOK /\ OverlapsMarked /\ CopyCurrent

\* A turn stores nothing before its plan has ended well.
StoredAtEnd ==
  \A t \in PlanTurn : turn[t] \notin {"user", "assistant", "ok", "lost"} => entries[t] = {}

PlanningInv == PlanInv /\ CalendarInv /\ StoredAtEnd

-----------------------------------------------------------------------------
\* Two sets of events that agree on all but some still do after the same change.
LEMMA ChangedAlike ==
  ASSUME NEW c, NEW A, NEW B, NEW R, A \ R = B \ R
  PROVE  Changed(c, A) \ R = Changed(c, B) \ R
<1>1. CASE op[c] = "create"
  <2>1. Changed(c, A) = A \cup {event[c]} /\ Changed(c, B) = B \cup {event[c]}
    BY <1>1 DEF Changed
  <2>2. \A x : x \in (A \cup {event[c]}) \ R <=> x \in (B \cup {event[c]}) \ R
    OBVIOUS
  <2>3. QED
    BY <2>1, <2>2
<1>2. CASE op[c] # "create"
  <2>1. Changed(c, A) = A \ {event[c]} /\ Changed(c, B) = B \ {event[c]}
    BY <1>2 DEF Changed
  <2>2. \A x : x \in (A \ {event[c]}) \ R <=> x \in (B \ {event[c]}) \ R
    OBVIOUS
  <2>3. QED
    BY <2>1, <2>2
<1>3. QED
  BY <1>1, <1>2

\* Sets that agree on all but some agree on all but more.
LEMMA AgreeOnFewer ==
  ASSUME NEW A, NEW B, NEW R, NEW S, A \ R = B \ R, R \subseteq S
  PROVE  A \ S = B \ S
<1>1. \A x : x \in A \ S <=> x \in B \ S
  OBVIOUS
<1>2. QED
  BY <1>1

\* A change by an event of R is none on all but R.
LEMMA ChangedApart ==
  ASSUME NEW c, NEW A, NEW R, event[c] \in R
  PROVE  Changed(c, A) \ R = A \ R
<1>1. \A x : x \in Changed(c, A) \ R <=> x \in A \ R
  BY DEF Changed
<1>2. QED
  BY <1>1

LEMMA CalendarInitInv == CalendarInit => CalendarInv
BY DEF CalendarInit, CalendarInv, LostOnlyByOverlap, CalendarTypeOK, CallsOK,
       OverlapsMarked, CopyCurrent, Writers

\* A call begins; a creation with a new UUID.
LEMMA BeginInv ==
  ASSUME CalendarInv, NEW c \in Call,
         List(c) \/ \E e \in Event : Create(c, e) \/ Delete(c, e)
  PROVE  /\ CalendarInv' /\ at' = [at EXCEPT ![c] = "load"]
<1>1. PICK o \in {"list", "create", "delete"}, e \in Event \cup {NoEvent} :
        /\ Begin(c, o, e)
        /\ created' \in SUBSET Event /\ created \subseteq created'
        /\ o \in {"create", "delete"} => e \in created'
  BY DEF List, Create, Delete, CalendarInv, LostOnlyByOverlap, CalendarTypeOK
<1>2. /\ at[c] = "idle" /\ at' = [at EXCEPT ![c] = "load"] /\ op' = [op EXCEPT ![c] = o]
      /\ event' = [event EXCEPT ![c] = e] /\ result' = [result EXCEPT ![c] = "none"]
      /\ UNCHANGED <<file, copy, due, racing, mishap>>
      /\ CalendarTypeOK
  BY <1>1 DEF Begin, CalendarInv, LostOnlyByOverlap
<1>3. Writers' = Writers /\ c \notin Writers
  BY <1>2 DEF Writers, CalendarTypeOK
<1>4. \A d \in Call : d # c => /\ at'[d] = at[d] /\ op'[d] = op[d] /\ event'[d] = event[d]
                               /\ result'[d] = result[d]
  BY <1>2 DEF CalendarTypeOK
<1>5. at'[c] = "load" /\ op'[c] = o /\ event'[c] = e /\ result'[c] = "none"
  BY <1>2 DEF CalendarTypeOK
<1>6. CalendarTypeOK'
  BY <1>1, <1>2, <1>3 DEF CalendarTypeOK
<1>7. LostOnlyByOverlap'
  <2>1. file.whole => file.data \ racing = due \ racing
    BY DEF CalendarInv, LostOnlyByOverlap
  <2>2. ~file.whole => mishap \/ \E d \in Call : at[d] = "write"
    BY DEF CalendarInv, LostOnlyByOverlap
  <2>3. \A d \in Call : at[d] = "write" => at'[d] = "write"
    BY <1>2, <1>4
  <2>4. QED
    BY <1>2, <1>6, <2>1, <2>2, <2>3 DEF LostOnlyByOverlap
<1>8. CallsOK'
  BY <1>1, <1>2, <1>3, <1>4, <1>5 DEF CalendarInv, CallsOK
<1>9. OverlapsMarked'
  BY <1>2, <1>3, <1>4 DEF CalendarInv, OverlapsMarked, Writers
<1>10. CopyCurrent'
  <2>1. ASSUME NEW d \in Writers PROVE copy'[d] \ racing' = Changed(d, due)' \ racing'
    <3>1. copy[d] \ racing = Changed(d, due) \ racing
      BY DEF CalendarInv, CopyCurrent
    <3>2. d \in Call /\ d # c
      BY <1>3 DEF Writers
    <3>3. Changed(d, due)' = Changed(d, due)
      BY <1>2, <1>4, <3>2 DEF Changed
    <3>4. QED
      BY <1>2, <3>1, <3>3
  <2>2. QED
    BY <1>3, <2>1 DEF CopyCurrent
<1>11. QED
  BY <1>2, <1>7, <1>8, <1>9, <1>10 DEF CalendarInv

\* A call returns: it was no writer, or the calendar has been dealt with.
LEMMA ReturnInv ==
  ASSUME CalendarInv, NEW c \in Call, at[c] # "idle", NEW r \in {"ok", "error"}, Return(c, r),
         UNCHANGED <<created, racing>>,
         file' \in [data : SUBSET Event, whole : BOOLEAN], due' \in SUBSET created,
         file'.whole => file'.data \ racing = due' \ racing,
         ~file'.whole => mishap' \/ \E d \in Call \ {c} : at[d] = "write",
         \A d \in Writers \ {c} : Changed(d, due') \ racing = Changed(d, due) \ racing
  PROVE  CalendarInv'
<1>1. /\ at' = [at EXCEPT ![c] = "idle"] /\ op' = [op EXCEPT ![c] = "none"]
      /\ event' = [event EXCEPT ![c] = NoEvent] /\ copy' = [copy EXCEPT ![c] = {}]
      /\ result' = [result EXCEPT ![c] = r] /\ CalendarTypeOK
  BY DEF Return, CalendarInv, LostOnlyByOverlap
<1>2. \A d \in Call : d # c => /\ at'[d] = at[d] /\ op'[d] = op[d] /\ event'[d] = event[d]
                               /\ result'[d] = result[d] /\ copy'[d] = copy[d]
  BY <1>1 DEF CalendarTypeOK
<1>3. at'[c] = "idle" /\ op'[c] = "none" /\ copy'[c] = {}
  BY <1>1 DEF CalendarTypeOK
<1>4. Writers' = Writers \ {c}
  BY <1>2, <1>3 DEF Writers
<1>5. CalendarTypeOK'
  <2>1. /\ at' \in [Call -> {"idle", "load", "save", "write"}]
        /\ op' \in [Call -> {"none", "list", "create", "delete"}]
        /\ event' \in [Call -> Event \cup {NoEvent}]
        /\ copy' \in [Call -> SUBSET Event] /\ result' \in [Call -> {"none", "ok", "error"}]
    BY <1>1 DEF CalendarTypeOK
  <2>2. \A d \in Call : d \notin Writers' => copy'[d] = {}
    BY <1>1, <1>2, <1>3, <1>4 DEF CalendarTypeOK
  <2>3. QED
    BY <1>1, <2>1, <2>2 DEF CalendarTypeOK
<1>6. LostOnlyByOverlap'
  <2>1. \A d \in Call \ {c} : at[d] = "write" => at'[d] = "write"
    BY <1>2
  <2>2. QED
    BY <1>5, <2>1 DEF LostOnlyByOverlap
<1>7. CallsOK'
  BY <1>1, <1>2, <1>3, <1>4 DEF CalendarInv, CallsOK
<1>8. OverlapsMarked'
  BY <1>2, <1>4 DEF CalendarInv, OverlapsMarked, Writers
<1>9. CopyCurrent'
  <2>1. ASSUME NEW d \in Writers' PROVE copy'[d] \ racing' = Changed(d, due)' \ racing'
    <3>1. d \in Writers /\ d # c /\ d \in Call
      BY <1>4 DEF Writers
    <3>2. copy[d] \ racing = Changed(d, due) \ racing
      BY <3>1 DEF CalendarInv, CopyCurrent
    <3>3. Changed(d, due)' = Changed(d, due')
      BY <1>2, <3>1 DEF Changed
    <3>4. copy'[d] = copy[d] /\ racing' = racing
      BY <1>2, <3>1
    <3>5. QED
      BY <3>1, <3>2, <3>3, <3>4
  <2>2. QED
    BY <2>1 DEF CopyCurrent
<1>10. QED
  BY <1>6, <1>7, <1>8, <1>9 DEF CalendarInv

\* The events are loaded from a whole file, which holds what has been reported.
LEMMA LoadInv == ASSUME CalendarInv, NEW c \in Call, LoadEvents(c) PROVE CalendarInv'
<1>0. /\ CalendarTypeOK /\ at[c] = "load" /\ c \notin Writers
      /\ UNCHANGED <<file, created, due, mishap>>
      /\ file.whole => file.data \ racing = due \ racing
      /\ ~file.whole => mishap \/ \E d \in Call \ {c} : at[d] = "write"
  BY DEF LoadEvents, CalendarInv, LostOnlyByOverlap, Writers
<1>1. ASSUME NEW r \in {"ok", "error"}, Return(c, r), UNCHANGED racing PROVE CalendarInv'
  <2>1. \A d \in Writers \ {c} : Changed(d, due') \ racing = Changed(d, due) \ racing
    BY <1>0
  <2>2. file' \in [data : SUBSET Event, whole : BOOLEAN] /\ due' \in SUBSET created
    BY <1>0 DEF CalendarTypeOK
  <2>3. QED
    BY <1>0, <1>1, <2>1, <2>2, ReturnInv
<1>2. ASSUME file.whole, op[c] = "create" \/ (op[c] = "delete" /\ event[c] \in file.data),
             copy' = [copy EXCEPT ![c] = Changed(c, file.data)],
             at' = [at EXCEPT ![c] = "save"],
             racing' = IF Writers = {} THEN racing
                       ELSE racing \cup {event[d] : d \in Writers \cup {c}},
             UNCHANGED <<op, event, result>>
      PROVE  CalendarInv'
  <2>1. \A d \in Call : d # c => at'[d] = at[d] /\ copy'[d] = copy[d]
    BY <1>0, <1>2 DEF CalendarTypeOK
  <2>2. at'[c] = "save" /\ copy'[c] = Changed(c, file.data)
    BY <1>0, <1>2 DEF CalendarTypeOK
  <2>3. Writers' = Writers \cup {c}
    BY <2>1, <2>2 DEF Writers
  <2>4. \A d \in Writers \cup {c} : d \in Call /\ event[d] \in created /\ created \subseteq Event
    BY <1>0, <1>2 DEF CalendarInv, CallsOK, Writers, CalendarTypeOK
  <2>5. racing \subseteq racing' /\ racing' \subseteq created
    BY <1>0, <1>2, <2>4 DEF CalendarTypeOK
  <2>6. CalendarTypeOK'
    <3>1. Changed(c, file.data) \in SUBSET Event
      BY <1>0, <2>4 DEF Changed, CalendarTypeOK
    <3>2. /\ at' \in [Call -> {"idle", "load", "save", "write"}]
          /\ copy' \in [Call -> SUBSET Event]
      BY <1>0, <1>2, <3>1 DEF CalendarTypeOK
    <3>3. \A d \in Call : d \notin Writers' => copy'[d] = {}
      BY <1>0, <2>1, <2>3 DEF CalendarTypeOK
    <3>4. QED
      BY <1>0, <1>2, <2>5, <3>2, <3>3 DEF CalendarTypeOK
  <2>7. LostOnlyByOverlap'
    <3>1. file'.data \ racing' = due' \ racing'
      BY <1>0, <1>2, <2>5, AgreeOnFewer
    <3>2. QED
      BY <1>0, <1>2, <2>6, <3>1 DEF LostOnlyByOverlap
  <2>8. CallsOK'
    <3>1. op'[c] # "none" /\ result'[c] = "none" /\ op'[c] \in {"create", "delete"}
      BY <1>0, <1>2 DEF CalendarInv, CallsOK
    <3>2. QED
      BY <1>0, <1>2, <2>1, <2>3, <3>1 DEF CalendarInv, CallsOK
  <2>9. OverlapsMarked'
    <3>1. CASE Writers = {}
      BY <2>3, <3>1 DEF OverlapsMarked
    <3>2. CASE Writers # {}
      BY <1>2, <2>3, <3>2 DEF OverlapsMarked
    <3>3. QED
      BY <3>1, <3>2
  <2>10. CopyCurrent'
    <3>1. ASSUME NEW d \in Writers' PROVE copy'[d] \ racing' = Changed(d, due)' \ racing'
      <4>1. Changed(d, due)' = Changed(d, due)
        BY <1>0, <1>2 DEF Changed
      <4>2. copy'[d] \ racing = Changed(d, due) \ racing
        <5>1. CASE d = c
          <6>1. file.data \ racing = due \ racing
            BY <1>0, <1>2
          <6>2. Changed(c, file.data) \ racing = Changed(c, due) \ racing
            BY <6>1, ChangedAlike
          <6>3. QED
            BY <2>2, <5>1, <6>2
        <5>2. CASE d # c
          BY <2>1, <2>3, <5>2 DEF CalendarInv, CopyCurrent, Writers
        <5>3. QED
          BY <5>1, <5>2
      <4>3. QED
        BY <2>5, <4>1, <4>2, AgreeOnFewer
    <3>2. QED
      BY <3>1 DEF CopyCurrent
  <2>11. QED
    BY <2>7, <2>8, <2>9, <2>10 DEF CalendarInv
<1>3. QED
  BY <1>1, <1>2 DEF LoadEvents, Loaded

\* The file is opened, and thereby emptied, or the call fails.
LEMMA OpenInv == ASSUME CalendarInv, NEW c \in Call, OpenFile(c) PROVE CalendarInv'
<1>0. /\ CalendarTypeOK /\ at[c] = "save" /\ UNCHANGED <<created, due, racing, mishap>>
  BY DEF OpenFile, CalendarInv, LostOnlyByOverlap
<1>1. ASSUME file' = [data |-> {}, whole |-> FALSE], at' = [at EXCEPT ![c] = "write"],
             UNCHANGED <<op, event, copy, result>>
      PROVE  CalendarInv'
  <2>1. Writers' = Writers /\ at'[c] = "write" /\ \A d \in Call : d # c => at'[d] = at[d]
    BY <1>0, <1>1 DEF Writers, CalendarTypeOK
  <2>2. CalendarTypeOK'
    BY <1>0, <1>1, <2>1 DEF CalendarTypeOK
  <2>3. LostOnlyByOverlap'
    BY <1>1, <2>1, <2>2 DEF LostOnlyByOverlap
  <2>4. CallsOK'
    BY <1>0, <1>1, <2>1 DEF CalendarInv, CallsOK
  <2>5. OverlapsMarked' /\ CopyCurrent'
    BY <1>0, <1>1, <2>1 DEF CalendarInv, OverlapsMarked, CopyCurrent, Changed
  <2>6. QED
    BY <2>3, <2>4, <2>5 DEF CalendarInv
<1>2. ASSUME Return(c, "error"), UNCHANGED file PROVE CalendarInv'
  <2>1. \A d \in Writers \ {c} : Changed(d, due') \ racing = Changed(d, due) \ racing
    BY <1>0
  <2>2. file' \in [data : SUBSET Event, whole : BOOLEAN] /\ due' \in SUBSET created
    BY <1>0, <1>2 DEF CalendarTypeOK
  <2>3. /\ file'.whole => file'.data \ racing = due' \ racing
        /\ ~file'.whole => mishap' \/ \E d \in Call \ {c} : at[d] = "write"
    BY <1>0, <1>2 DEF CalendarInv, LostOnlyByOverlap
  <2>4. QED
    BY <1>0, <1>2, <2>1, <2>2, <2>3, ReturnInv
<1>3. QED
  BY <1>1, <1>2 DEF OpenFile

\* A call writes what it has made of what it loaded, and reports it.
LEMMA WriteInv == ASSUME CalendarInv, NEW c \in Call, WriteFile(c) PROVE CalendarInv'
<1>0. /\ CalendarTypeOK /\ at[c] = "write" /\ c \in Writers /\ due' = Changed(c, due)
      /\ (\E r \in {"ok", "error"} : Return(c, r)) /\ UNCHANGED <<created, racing>>
  BY DEF WriteFile, CalendarInv, LostOnlyByOverlap, Writers
<1>1. /\ copy[c] \in SUBSET Event /\ file.data \in SUBSET Event
      /\ op[c] \in {"create", "delete"} /\ event[c] \in created
      /\ copy[c] \ racing = Changed(c, due) \ racing
  BY <1>0 DEF CalendarTypeOK, CalendarInv, CallsOK, CopyCurrent
<1>2. file' \in {[data |-> copy[c], whole |-> TRUE],
                 [data |-> file.data \cup copy[c], whole |-> FALSE]}
  BY DEF WriteFile, Written
<1>3. file' \in [data : SUBSET Event, whole : BOOLEAN]
  <2>1. file.data \cup copy[c] \in SUBSET Event
    BY <1>1
  <2>2. CASE file' = [data |-> copy[c], whole |-> TRUE]
    BY <1>1, <2>2
  <2>3. CASE file' = [data |-> file.data \cup copy[c], whole |-> FALSE]
    BY <2>1, <2>3
  <2>4. QED
    BY <1>2, <2>2, <2>3
<1>4. due' \in SUBSET created
  <2>1. due \subseteq created
    BY <1>0 DEF CalendarTypeOK
  <2>2. \A x \in Changed(c, due) : x \in due \/ x = event[c]
    BY DEF Changed
  <2>3. Changed(c, due) \subseteq created
    BY <1>1, <2>1, <2>2
  <2>4. QED
    BY <1>0, <2>3
<1>5. file'.whole => file'.data \ racing = due' \ racing
  <2>1. file'.whole => file'.data = copy[c]
    BY <1>2
  <2>2. due' \ racing = copy[c] \ racing
    BY <1>0, <1>1
  <2>3. QED
    BY <2>1, <2>2
<1>6. ~file'.whole => mishap'
  BY DEF WriteFile
<1>7. ASSUME NEW d \in Writers \ {c}
      PROVE  Changed(d, due') \ racing = Changed(d, due) \ racing
  <2>1. event[c] \in racing
    BY <1>0, <1>7 DEF CalendarInv, OverlapsMarked
  <2>2. Changed(c, due) \ racing = due \ racing
    BY <2>1, ChangedApart
  <2>3. due' \ racing = due \ racing
    BY <1>0, <2>2
  <2>4. QED
    BY <2>3, ChangedAlike
<1>8. \A d \in Writers \ {c} : Changed(d, due') \ racing = Changed(d, due) \ racing
  BY <1>7
<1>9. QED
  BY <1>0, <1>3, <1>4, <1>5, <1>6, <1>8, ReturnInv

LEMMA WriteFailsInv == ASSUME CalendarInv, NEW c \in Call, WriteFails(c) PROVE CalendarInv'
<1>0. /\ CalendarTypeOK /\ at[c] = "write"
      /\ file' = [data |-> file.data \cup copy[c], whole |-> FALSE] /\ mishap' = TRUE
      /\ Return(c, "error") /\ UNCHANGED <<created, due, racing>>
  BY DEF WriteFails, CalendarInv, LostOnlyByOverlap
<1>1. file.data \cup copy[c] \in SUBSET Event /\ due' \in SUBSET created
  BY <1>0 DEF CalendarTypeOK
<1>2. file' \in [data : SUBSET Event, whole : BOOLEAN] /\ ~file'.whole
  BY <1>0, <1>1
<1>3. \A d \in Writers \ {c} : Changed(d, due') \ racing = Changed(d, due) \ racing
  BY <1>0
<1>4. QED
  BY <1>0, <1>1, <1>2, <1>3, ReturnInv

\* A crash leaves the file as it is, torn if a call was writing it.
LEMMA CalendarCrashInv == ASSUME CalendarInv, CalendarCrash PROVE CalendarInv'
<1>0. /\ at' = [c \in Call |-> "idle"] /\ op' = [c \in Call |-> "none"]
      /\ event' = [c \in Call |-> NoEvent] /\ copy' = [c \in Call |-> {}]
      /\ result' = [c \in Call |-> "none"]
      /\ mishap' = (mishap \/ \E c \in Call : at[c] = "write")
      /\ UNCHANGED <<file, created, due, racing>> /\ LostOnlyByOverlap /\ CalendarTypeOK
  BY DEF CalendarCrash, CalendarInv, LostOnlyByOverlap
<1>1. Writers' = {}
  BY <1>0 DEF Writers
<1>2. CalendarTypeOK'
  BY <1>0 DEF CalendarTypeOK
<1>3. LostOnlyByOverlap'
  BY <1>0, <1>2 DEF LostOnlyByOverlap
<1>4. CallsOK' /\ OverlapsMarked' /\ CopyCurrent'
  BY <1>0, <1>1 DEF CallsOK, OverlapsMarked, CopyCurrent
<1>5. QED
  BY <1>3, <1>4 DEF CalendarInv

LEMMA CalendarStepInv == ASSUME CalendarInv, NEW c \in Call, CalendarStep(c) PROVE CalendarInv'
BY LoadInv, OpenInv, WriteInv, WriteFailsInv DEF CalendarStep

LEMMA CalendarStutter == ASSUME CalendarInv, UNCHANGED calendarVars PROVE CalendarInv'
BY DEF calendarVars, CalendarInv, LostOnlyByOverlap, CalendarTypeOK, CallsOK, OverlapsMarked,
       CopyCurrent, Writers, Changed

-----------------------------------------------------------------------------
(* Turns in planning mode.                                                   *)

\* A turn moves on: what it has stored grows only once its plan has ended, and
\* only a calendar step has a call under way.
LEMMA TurnMoves ==
  ASSUME PlanningInv, NEW t \in PlanTurn, NEW label \in PlanLabel, PlanGoto(t, label),
         label \notin {"user", "assistant", "ok", "lost"} =>
           turn[t] \notin {"user", "assistant", "ok", "lost"},
         steps' \in [PlanTurn -> 0..MaxSteps], crashes' = crashes, CalendarInv',
         \A d \in Call : at'[d] # "idle" => IF d = t THEN label = "calendar" ELSE at[d] # "idle",
         \/ entries' = entries
         \/ /\ label \in {"assistant", "ok"}
            /\ \E r \in {"user", "assistant"} : entries' = [entries EXCEPT ![t] = @ \cup {r}]
  PROVE  PlanningInv'
<1>0. PlanTypeOK /\ StoredAtEnd /\ t \in Call
  BY DEF PlanningInv, PlanInv, PlanTurn
<1>1. turn' = [turn EXCEPT ![t] = label]
  BY DEF PlanGoto
<1>2. turn' \in [PlanTurn -> PlanLabel] /\ turn'[t] = label
      /\ \A d \in PlanTurn : d # t => turn'[d] = turn[d]
  BY <1>0, <1>1 DEF PlanTypeOK
<1>3. /\ entries' \in [PlanTurn -> SUBSET {"user", "assistant"}]
      /\ \A d \in PlanTurn : d # t => entries'[d] = entries[d]
      /\ label \notin {"assistant", "ok"} => entries'[t] = entries[t]
  <2>1. CASE entries' = entries
    BY <1>0, <2>1 DEF PlanTypeOK
  <2>2. ASSUME label \in {"assistant", "ok"}, NEW r \in {"user", "assistant"},
               entries' = [entries EXCEPT ![t] = @ \cup {r}]
        PROVE  /\ entries' \in [PlanTurn -> SUBSET {"user", "assistant"}]
               /\ \A d \in PlanTurn : d # t => entries'[d] = entries[d]
    BY <1>0, <2>2 DEF PlanTypeOK
  <2>3. QED
    BY <2>1, <2>2
<1>4. PlanTypeOK'
  <2>1. \A d \in PlanTurn : at'[d] # "idle" => turn'[d] = "calendar"
    BY <1>0, <1>2 DEF PlanTypeOK, PlanTurn
  <2>2. QED
    BY <1>0, <1>2, <1>3, <2>1 DEF PlanTypeOK
<1>5. StoredAtEnd'
  BY <1>0, <1>2, <1>3 DEF StoredAtEnd
<1>6. FailedNotStored'
  BY <1>5 DEF StoredAtEnd, FailedNotStored
<1>7. QED
  BY <1>4, <1>5, <1>6 DEF PlanningInv, PlanInv, CalendarInv

\* A call that goes on belongs to a turn in a calendar step.
LEMMA CallGoesOn ==
  ASSUME PlanningInv, NEW t \in PlanTurn, CalendarStep(t), UNCHANGED planVars
  PROVE  PlanningInv'
<1>0. PlanTypeOK /\ StoredAtEnd /\ t \in Call /\ CalendarTypeOK /\ CalendarInv
  BY DEF PlanningInv, PlanInv, PlanTurn, CalendarInv, LostOnlyByOverlap
<1>1. CalendarInv'
  BY <1>0, CalendarStepInv
<1>2. \A d \in Call : at'[d] # "idle" => at[d] # "idle"
  BY <1>0 DEF CalendarStep, LoadEvents, Loaded, OpenFile, WriteFile, WriteFails, Return,
              CalendarTypeOK
<1>3. PlanTypeOK'
  <2>1. \A d \in PlanTurn : at'[d] # "idle" => turn'[d] = "calendar"
    BY <1>0, <1>2 DEF PlanTypeOK, PlanTurn, planVars
  <2>2. QED
    BY <1>0, <2>1 DEF PlanTypeOK, planVars
<1>4. StoredAtEnd' /\ FailedNotStored'
  BY <1>0 DEF StoredAtEnd, FailedNotStored, planVars
<1>5. QED
  BY <1>1, <1>3, <1>4 DEF PlanningInv, PlanInv, CalendarInv

LEMMA CrashInv == ASSUME PlanningInv, Crash PROVE PlanningInv'
<1>0. /\ PlanTypeOK /\ StoredAtEnd /\ CalendarInv /\ CalendarCrash
      /\ crashes < MaxCrashes /\ crashes' = crashes + 1 /\ UNCHANGED <<steps, entries>>
      /\ turn' = [t \in PlanTurn |->
                   IF turn[t] \in {"idle", "ok", "failed"} THEN turn[t] ELSE "lost"]
  BY DEF PlanningInv, PlanInv, Crash
<1>1. CalendarInv' /\ \A d \in Call : at'[d] = "idle"
  BY <1>0, CalendarCrashInv DEF CalendarCrash
<1>2. PlanTypeOK'
  <2>1. turn' \in [PlanTurn -> PlanLabel]
    BY <1>0 DEF PlanTypeOK, PlanLabel
  <2>2. crashes' \in 0..MaxCrashes
    BY <1>0, PlanningAssumption DEF PlanTypeOK
  <2>3. \A d \in PlanTurn : at'[d] = "idle"
    BY <1>1 DEF PlanTurn
  <2>4. QED
    BY <1>0, <2>1, <2>2, <2>3 DEF PlanTypeOK
<1>3. StoredAtEnd' /\ FailedNotStored'
  BY <1>0 DEF StoredAtEnd, FailedNotStored
<1>4. QED
  BY <1>1, <1>2, <1>3 DEF PlanningInv, PlanInv, CalendarInv

LEMMA PlanningInitInv == PlanInit => PlanningInv
<1> SUFFICES ASSUME PlanInit PROVE PlanningInv
  OBVIOUS
<1>1. CalendarInv
  BY CalendarInitInv DEF PlanInit
<1>2. PlanTypeOK
  BY PlanningAssumption DEF PlanInit, PlanTypeOK, PlanLabel, CalendarInit, PlanTurn
<1>3. StoredAtEnd /\ FailedNotStored
  BY DEF PlanInit, StoredAtEnd, FailedNotStored
<1>4. QED
  BY <1>1, <1>2, <1>3 DEF PlanningInv, PlanInv, CalendarInv

LEMMA PlanningStepInv ==
  ASSUME PlanningInv, [PlanNext]_<<calendarVars, planVars>> PROVE PlanningInv'
<1>0. PlanTypeOK /\ CalendarInv /\ CalendarTypeOK /\ CallsOK /\ MaxSteps \in Nat
  BY PlanningAssumption DEF PlanningInv, PlanInv, CalendarInv, LostOnlyByOverlap
\* A step that leaves the calendar and the count of steps alone.
<1>1. ASSUME NEW t \in PlanTurn, NEW label \in PlanLabel \ {"calendar"}, PlanGoto(t, label),
             turn[t] # "calendar" \/ at[t] = "idle", UNCHANGED <<calendarVars, crashes>>,
             steps' \in [PlanTurn -> 0..MaxSteps],
             label \notin {"user", "assistant", "ok", "lost"} =>
               turn[t] \notin {"user", "assistant", "ok", "lost"},
             \/ entries' = entries
             \/ /\ label \in {"assistant", "ok"}
                /\ \E r \in {"user", "assistant"} : entries' = [entries EXCEPT ![t] = @ \cup {r}]
      PROVE  PlanningInv'
  <2>1. CalendarInv' /\ at' = at
    BY <1>0, <1>1, CalendarStutter DEF calendarVars
  <2>2. \A d \in Call : at'[d] # "idle" => IF d = t THEN label = "calendar" ELSE at[d] # "idle"
    BY <1>0, <1>1, <2>1 DEF PlanTypeOK, PlanTurn
  <2>3. QED
    BY <1>1, <2>1, <2>2, TurnMoves
<1>2. steps \in [PlanTurn -> 0..MaxSteps]
  BY <1>0 DEF PlanTypeOK
<1>3. ASSUME NEW t \in PlanTurn, NEW label, NextStep(t, label)
      PROVE  /\ turn[t] = "planning" /\ steps' \in [PlanTurn -> 0..MaxSteps]
             /\ PlanGoto(t, label) /\ entries' = entries /\ crashes' = crashes
  <2>1. steps[t] + 1 \in 0..MaxSteps
    BY <1>0, <1>2, <1>3 DEF NextStep
  <2>2. QED
    BY <1>2, <1>3, <2>1 DEF NextStep
<1>4. ASSUME NEW t \in PlanTurn, Start(t) PROVE PlanningInv'
  <2>1. PlanGoto(t, "planning") /\ "planning" \in PlanLabel \ {"calendar"}
        /\ turn[t] = "idle" /\ UNCHANGED <<calendarVars, steps, entries, crashes>>
    BY <1>4 DEF Start, PlanLabel
  <2>2. QED
    BY <1>1, <1>2, <2>1
<1>5. ASSUME NEW t \in PlanTurn, CalendarStepBegins(t) PROVE PlanningInv'
  <2>1. t \in Call /\ CalendarInv' /\ at' = [at EXCEPT ![t] = "load"]
    BY <1>0, <1>5, BeginInv DEF CalendarStepBegins, PlanTurn
  <2>2. "calendar" \in PlanLabel /\ NextStep(t, "calendar")
    BY <1>5 DEF CalendarStepBegins, PlanLabel
  <2>3. /\ turn[t] = "planning" /\ steps' \in [PlanTurn -> 0..MaxSteps]
        /\ PlanGoto(t, "calendar") /\ entries' = entries /\ crashes' = crashes
    BY <1>3, <2>2
  <2>4. \A d \in Call : at'[d] # "idle" => IF d = t THEN "calendar" = "calendar" ELSE at[d] # "idle"
    BY <1>0, <2>1 DEF CalendarTypeOK
  <2>5. QED
    BY <2>1, <2>2, <2>3, <2>4, TurnMoves
<1>6. ASSUME NEW t \in PlanTurn, OtherStepBegins(t) PROVE PlanningInv'
  <2>1. NextStep(t, "other") /\ UNCHANGED calendarVars
    BY <1>6 DEF OtherStepBegins
  <2>2. /\ turn[t] = "planning" /\ steps' \in [PlanTurn -> 0..MaxSteps]
        /\ PlanGoto(t, "other") /\ entries' = entries /\ crashes' = crashes
    BY <1>3, <2>1
  <2>3. "other" \in PlanLabel \ {"calendar"}
    BY DEF PlanLabel
  <2>4. QED
    BY <1>1, <2>1, <2>2, <2>3
<1>7. ASSUME NEW t \in PlanTurn, CalendarStepEnds(t) \/ OtherStepEnds(t) \/ PlanEnded(t)
      PROVE  PlanningInv'
  <2>1. PICK label \in {"planning", "failed", "user"} : PlanGoto(t, label)
    BY <1>7 DEF CalendarStepEnds, OtherStepEnds, PlanEnded, Executed
  <2>2. /\ UNCHANGED <<calendarVars, steps, entries, crashes>>
        /\ turn[t] \in {"calendar", "other", "planning"}
        /\ turn[t] = "calendar" => result[t] # "none"
    BY <1>7 DEF CalendarStepEnds, OtherStepEnds, PlanEnded, Executed
  <2>3. turn[t] # "calendar" \/ at[t] = "idle"
    BY <1>0, <2>2 DEF CallsOK, PlanTurn
  <2>4. label \in PlanLabel \ {"calendar"}
    BY DEF PlanLabel
  <2>5. QED
    BY <1>1, <1>2, <2>1, <2>2, <2>3, <2>4
<1>8. ASSUME NEW t \in PlanTurn, StoreEntry(t, "user", "assistant") \/ StoreEntry(t, "assistant", "ok")
      PROVE  PlanningInv'
  <2>1. PICK role \in {"user", "assistant"}, then \in {"assistant", "ok"} :
          StoreEntry(t, role, then)
    BY <1>8
  <2>2. then \in PlanLabel \ {"calendar"} /\ turn[t] # "calendar"
    BY <2>1 DEF PlanLabel, StoreEntry
  <2>3. PlanGoto(t, then) /\ UNCHANGED <<calendarVars, steps, crashes>>
    BY <2>1 DEF StoreEntry
  <2>4. \/ entries' = entries
        \/ \E r \in {"user", "assistant"} : entries' = [entries EXCEPT ![t] = @ \cup {r}]
    BY <2>1 DEF StoreEntry
  <2>5. QED
    BY <1>1, <1>2, <2>2, <2>3, <2>4
<1>9. CASE UNCHANGED <<calendarVars, planVars>>
  <2>1. CalendarInv'
    BY <1>0, <1>9, CalendarStutter
  <2>2. (PlanTypeOK /\ StoredAtEnd /\ FailedNotStored)'
    BY <1>9 DEF PlanningInv, PlanInv, PlanTypeOK, StoredAtEnd, FailedNotStored, planVars,
                calendarVars
  <2>3. QED
    BY <2>1, <2>2 DEF PlanningInv, PlanInv, CalendarInv
<1>10. QED
  BY <1>4, <1>5, <1>6, <1>7, <1>8, <1>9, CallGoesOn, CrashInv DEF PlanNext, TurnStep

\* For any turns and plans, with failing reads and writes and crashes at any
\* step: the calendar's file lacks a reported event, or keeps a deleted one, only
\* for calls that overlapped another between loading and writing; it is unreadable
\* only while a call writes or after a write went wrong; and nothing of a turn
\* that failed is stored.
THEOREM PlansCorrect == PlanSpec => []PlanInv
<1>1. PlanInit => PlanningInv
  BY PlanningInitInv
<1>2. PlanningInv /\ [PlanNext]_<<calendarVars, planVars>> => PlanningInv'
  BY PlanningStepInv
<1>3. PlanningInv => PlanInv
  BY DEF PlanningInv
<1>4. QED
  BY <1>1, <1>2, <1>3, PTL DEF PlanSpec

\* A file that does not parse is never written over by a call that comes later,
\* whatever it is to do.
THEOREM TornFileKept == PlanSpec => TornKept
<1> DEFINE Kept == Torn => Torn' /\ file' = file
<1>1. PlanInit => PlanningInv
  BY PlanningInitInv
<1>2. PlanningInv /\ [PlanNext]_<<calendarVars, planVars>> => PlanningInv'
  BY PlanningStepInv
<1>3. PlanningInv /\ [PlanNext]_<<calendarVars, planVars>> => [Kept]_calendarVars
  <2> SUFFICES ASSUME PlanningInv, PlanNext, Torn PROVE Torn' /\ file' = file
    BY DEF planVars
  <2>0. CalendarTypeOK /\ ~file.whole /\ Writers = {}
    BY DEF PlanningInv, PlanInv, LostOnlyByOverlap, Torn
  <2>1. ASSUME NEW t \in PlanTurn, UNCHANGED calendarVars PROVE Torn' /\ file' = file
    BY <2>1 DEF calendarVars, Torn, Writers
  <2>2. ASSUME NEW t \in PlanTurn, CalendarStepBegins(t) PROVE Torn' /\ file' = file
    <3>1. file' = file /\ at' = [at EXCEPT ![t] = "load"]
      BY <2>2 DEF CalendarStepBegins, List, Create, Delete, Begin
    <3>2. QED
      BY <2>0, <3>1 DEF Torn, Writers, CalendarTypeOK
  <2>3. ASSUME NEW t \in PlanTurn, CalendarStep(t) PROVE Torn' /\ file' = file
    <3>1. t \in Call /\ LoadEvents(t)
      BY <2>0, <2>3 DEF CalendarStep, OpenFile, WriteFile, WriteFails, Writers, PlanTurn
    <3>2. file' = file /\ at' = [at EXCEPT ![t] = "idle"]
      BY <2>0, <3>1 DEF LoadEvents, Return
    <3>3. QED
      BY <2>0, <3>2 DEF Torn, Writers, CalendarTypeOK
  <2>4. CASE Crash
    BY <2>0, <2>4 DEF Crash, CalendarCrash, Torn, Writers
  <2>5. QED
    BY <2>1, <2>2, <2>3, <2>4
       DEF PlanNext, TurnStep, Start, OtherStepBegins, CalendarStepEnds, OtherStepEnds,
           PlanEnded, Executed, StoreEntry
<1>4. QED
  BY <1>1, <1>2, <1>3, PTL DEF PlanSpec, TornKept
=============================================================================
