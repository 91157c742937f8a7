----------------------------- MODULE AgentCache -----------------------------
(***************************************************************************)
(* The agent router's per-user agents (internal/gateway/router.go) and the *)
(* /system command.  An agent is built on a user's first turn with the     *)
(* system prompt the user preferences hold at that moment, and is reused   *)
(* until /system stores another prompt and evicts it.  A turn runs in the  *)
(* goroutine of whoever delivered the message (a channel's receive loop, a *)
(* cron job, an HTTP or WebSocket handler), so turns of one user overlap.  *)
(***************************************************************************)
EXTENDS Naturals, Sequences

CONSTANTS
  User,
  Turn,          \* the goroutines, each carrying one message to its end
  Prompt,        \* custom system prompts
  DefaultPrompt, \* the built-in prompt, used when no custom one is stored
  MaxHistory,    \* what an agent is built to remember, in turns
  NoAgent, NoUser, Free

ASSUME CacheAssumption ==
  /\ DefaultPrompt \notin Prompt
  /\ NoAgent \notin Turn
  /\ NoUser \notin User
  /\ Free \notin Turn
  /\ MaxHistory \in Nat \ {0}

AnyPrompt == Prompt \cup {DefaultPrompt}

VARIABLES
  systemPrompts, \* user -> prompt in force for the next agent
  userAgents,    \* user -> cached agent, named by the turn that built it
  agentPrompt,   \* agent -> the prompt it was built with
  agentHistory,  \* agent -> its own conversation history: turns, oldest first
  stored,        \* user -> the turns the memory store holds
  lock,          \* holder of userAgentsMu's write lock
  pc, user,      \* turn -> where it is, whose message it carries
  agent,         \* turn -> the agent it runs on
  turnPrompt,    \* turn -> the prompt its answer is generated under
  seen,          \* turn -> the history its agent had when the turn came to it
  settled,       \* history: no /system of this user ran since the turn began
  raced,         \* history: turns that were on an agent together with another
  newer          \* history: turn -> the turns its agent took in after it

vars == <<systemPrompts, userAgents, agentPrompt, agentHistory, stored, lock,
          pc, user, agent, turnPrompt, seen, settled, raced, newer>>

\* Conversations: what agents remember, and what turns that overlap do to it.
talk == <<agentHistory, seen, raced, newer>>

Init ==
  /\ systemPrompts = [u \in User |-> DefaultPrompt]
  /\ userAgents = [u \in User |-> NoAgent]
  /\ agentPrompt = [a \in Turn |-> DefaultPrompt]
  /\ agentHistory = [a \in Turn |-> << >>]
  /\ stored = [u \in User |-> {}]
  /\ lock = Free
  /\ pc = [t \in Turn |-> "idle"]
  /\ user = [t \in Turn |-> NoUser]
  /\ agent = [t \in Turn |-> NoAgent]
  /\ turnPrompt = [t \in Turn |-> DefaultPrompt]
  /\ seen = [t \in Turn |-> << >>]
  /\ settled = [t \in Turn |-> FALSE]
  /\ raced = {}
  /\ newer = [t \in Turn |-> 0]

Goto(t, label) == pc' = [pc EXCEPT ![t] = label]

\* A /system command for u has stored its prompt and not evicted the agent yet.
CommandPending(u) == \E t \in Turn : pc[t] = "evict" /\ user[t] = u

-----------------------------------------------------------------------------
\* A mutant: a /system command that evicts nothing.
SystemCommandNoEviction(t, u, p) ==
  /\ pc[t] = "idle"
  /\ Goto(t, "done")
  /\ user' = [user EXCEPT ![t] = u]
  /\ systemPrompts' = [systemPrompts EXCEPT ![u] = p]
  /\ settled' = [x \in Turn |-> settled[x] /\ user[x] # u]
  /\ UNCHANGED <<userAgents, agentPrompt, talk, stored, lock, agent,
                 turnPrompt>>

evictAgentKept(t) ==
  /\ pc[t] = "evict"
  /\ lock = Free
  /\ Goto(t, "done")
  /\ UNCHANGED <<systemPrompts, userAgents, agentPrompt, talk, stored,
                 lock, user, agent, turnPrompt, settled>>

\* A conversational message reaches ProcessMessage.
StartTurn(t, u) ==
  /\ pc[t] = "idle"
  /\ Goto(t, "lookup")
  /\ user' = [user EXCEPT ![t] = u]
  /\ settled' = [settled EXCEPT ![t] = ~CommandPending(u)]
  /\ UNCHANGED <<systemPrompts, userAgents, agentPrompt, talk, stored,
                 lock, agent, turnPrompt>>

\* /system <prompt> stores the prompt, /system reset restores the default.
SystemCommand(t, u, p) ==
  /\ pc[t] = "idle"
  /\ Goto(t, "evict")
  /\ user' = [user EXCEPT ![t] = u]
  /\ systemPrompts' = [systemPrompts EXCEPT ![u] = p]
  /\ settled' = [x \in Turn |-> settled[x] /\ user[x] # u]
  /\ UNCHANGED <<userAgents, agentPrompt, talk, stored, lock, agent,
                 turnPrompt>>

\* ... and then drops the user's agent, so that the next turn builds another.
evictAgent(t) ==
  /\ pc[t] = "evict"
  /\ lock = Free
  /\ userAgents' = [userAgents EXCEPT ![user[t]] = NoAgent]
  /\ Goto(t, "done")
  /\ UNCHANGED <<systemPrompts, agentPrompt, talk, stored, lock, user,
                 agent, turnPrompt, settled>>

\* The turns that are with agent a at the moment.
On(a) == {x \in Turn : pc[x] = "process" /\ agent[x] = a}

\* The turn t runs on agent a, which other turns of the user may be on as well.
UseAgent(t, a) ==
  /\ agent' = [agent EXCEPT ![t] = a]
  /\ turnPrompt' = [turnPrompt EXCEPT ![t] = agentPrompt[a]]
  /\ seen' = [seen EXCEPT ![t] = agentHistory[a]]
  /\ raced' = IF On(a) = {} THEN raced ELSE raced \cup On(a) \cup {t}
  /\ Goto(t, "process")

\* The fast path of getOrCreateAgent, under the read lock.
LookUp(t) ==
  /\ pc[t] = "lookup"
  /\ lock = Free
  /\ \/ /\ userAgents[user[t]] # NoAgent
        /\ UseAgent(t, userAgents[user[t]])
     \/ /\ userAgents[user[t]] = NoAgent
        /\ Goto(t, "create")
        /\ UNCHANGED <<agent, turnPrompt, seen, raced>>
  /\ UNCHANGED <<systemPrompts, userAgents, agentPrompt, agentHistory, newer,
                 stored, lock, user, settled>>

\* Mutants of the slow path: no second look under the write lock; the lock is
\* not given back; the agent is used but not put into the cache.
LockNoCheck(t) ==
  /\ pc[t] = "create"
  /\ lock = Free
  /\ lock' = t
  /\ agentPrompt' = [agentPrompt EXCEPT ![t] = systemPrompts[user[t]]]
  /\ Goto(t, "insert")
  /\ UNCHANGED <<systemPrompts, userAgents, talk, stored, user, agent,
                 turnPrompt, settled>>

InsertAgentKeepsLock(t) ==
  /\ pc[t] = "insert"
  /\ userAgents' = [userAgents EXCEPT ![user[t]] = t]
  /\ UseAgent(t, t)
  /\ UNCHANGED <<systemPrompts, agentPrompt, agentHistory, newer, stored, lock,
                 user, settled>>

InsertAgentNowhere(t) ==
  /\ pc[t] = "insert"
  /\ UseAgent(t, t)
  /\ lock' = Free
  /\ UNCHANGED <<systemPrompts, userAgents, agentPrompt, agentHistory, newer,
                 stored, user, settled>>

\* The slow path: take the write lock, look again, read the prompt.  The user
\* preferences have a mutex of their own and may change before the insertion.
LockAndCheck(t) ==
  /\ pc[t] = "create"
  /\ lock = Free
  /\ \/ /\ userAgents[user[t]] # NoAgent
        /\ UseAgent(t, userAgents[user[t]])
        /\ UNCHANGED <<lock, agentPrompt>>
     \/ /\ userAgents[user[t]] = NoAgent
        /\ lock' = t
        /\ agentPrompt' = [agentPrompt EXCEPT ![t] = systemPrompts[user[t]]]
        /\ Goto(t, "insert")
        /\ UNCHANGED <<agent, turnPrompt, seen, raced>>
  /\ UNCHANGED <<systemPrompts, userAgents, agentHistory, newer, stored, user,
                 settled>>

InsertAgent(t) ==
  /\ pc[t] = "insert"
  /\ userAgents' = [userAgents EXCEPT ![user[t]] = t]
  /\ UseAgent(t, t)
  /\ lock' = Free
  /\ UNCHANGED <<systemPrompts, agentPrompt, agentHistory, newer, stored, user,
                 settled>>

\* The newest of a conversation, one turn having been added.
Newest(history) == IF Len(history) > MaxHistory THEN Tail(history) ELSE history

\* The agent adds the turn to its history and drops what is beyond MaxHistory.
\* It is not safe for concurrent use: turns that are with it together may each
\* add to the history they came to, and the last one to end decides.
TakeIn(t) ==
  LET a == agent[t]
  IN /\ \E history \in {agentHistory[a], seen[t]} :
          agentHistory' = [agentHistory EXCEPT ![a] = Newest(Append(history, t))]
     /\ newer' = [x \in Turn |-> IF x = t THEN 0
                                 ELSE IF agent[x] = a THEN newer[x] + 1 ELSE newer[x]]

\* The agent answers, or fails; a question it could not answer it may have kept.
Process(t) ==
  /\ pc[t] = "process"
  /\ \/ TakeIn(t) /\ (Goto(t, "store") \/ Goto(t, "done"))
     \/ Goto(t, "done") /\ UNCHANGED <<agentHistory, newer>>
  /\ seen' = [seen EXCEPT ![t] = << >>]
  /\ UNCHANGED <<systemPrompts, userAgents, agentPrompt, stored, lock, user,
                 agent, turnPrompt, settled, raced>>

\* A streamed turn bypasses the agents: it reads the prompt (and the stored
\* history) itself ...
StartStream(t, u) ==
  /\ pc[t] = "idle"
  /\ Goto(t, "stream")
  /\ user' = [user EXCEPT ![t] = u]
  /\ turnPrompt' = [turnPrompt EXCEPT ![t] = systemPrompts[u]]
  /\ settled' = [settled EXCEPT ![t] = ~CommandPending(u)]
  /\ UNCHANGED <<systemPrompts, userAgents, agentPrompt, talk, stored,
                 lock, agent>>

\* ... and is persisted unless the provider or the client broke the stream off.
EndStream(t) ==
  /\ pc[t] = "stream"
  /\ Goto(t, "store") \/ Goto(t, "done")
  /\ UNCHANGED <<systemPrompts, userAgents, agentPrompt, talk, stored,
                 lock, user, agent, turnPrompt, settled>>

\* Both halves of the turn go to the memory store; an error is only logged.
Store(t) ==
  /\ pc[t] = "store"
  /\ \/ stored' = [stored EXCEPT ![user[t]] = @ \cup {t}]
     \/ UNCHANGED stored
  /\ Goto(t, "done")
  /\ UNCHANGED <<systemPrompts, userAgents, agentPrompt, talk, lock,
                 user, agent, turnPrompt, settled>>

Step(t) ==
  \/ LookUp(t) \/ LockAndCheck(t) \/ InsertAgent(t) \/ Process(t)
  \/ EndStream(t) \/ Store(t) \/ evictAgent(t)

Next ==
  \E t \in Turn :
    \/ Step(t)
    \/ \E u \in User : StartTurn(t, u) \/ StartStream(t, u)
    \/ \E u \in User, p \in AnyPrompt : SystemCommand(t, u, p)

Spec == Init /\ [][Next]_vars

\* A goroutine that has received its message keeps running: the Go scheduler
\* runs every runnable goroutine, and model and store calls return.
FairSpec == Spec /\ \A t \in Turn : WF_vars(Step(t))

-----------------------------------------------------------------------------
Label == {"idle", "lookup", "create", "insert", "process", "stream", "store",
          "evict", "done"}
Conversation == {history \in Seq(Turn) : Len(history) <= MaxHistory}

\* Type correctness of the router's tables and of the turns.
TypeOK ==
  /\ systemPrompts \in [User -> AnyPrompt]
  /\ userAgents \in [User -> Turn \cup {NoAgent}]
  /\ agentPrompt \in [Turn -> AnyPrompt]
  /\ agentHistory \in [Turn -> Conversation]
  /\ stored \in [User -> SUBSET Turn]
  /\ lock \in Turn \cup {Free}
  /\ pc \in [Turn -> Label]
  /\ user \in [Turn -> User \cup {NoUser}]
  /\ \A t \in Turn : pc[t] # "idle" => user[t] \in User
  /\ agent \in [Turn -> Turn \cup {NoAgent}]
  /\ \A t \in Turn : pc[t] = "process" => agent[t] \in Turn
  /\ turnPrompt \in [Turn -> AnyPrompt]
  /\ seen \in [Turn -> Conversation]
  /\ settled \in [Turn -> BOOLEAN]
  /\ raced \subseteq Turn
  /\ newer \in [Turn -> Nat]

\* The cached agent of a user was built with the prompt now in force, unless a
\* /system command of that user is just about to evict it: no interleaving of
\* building, storing a prompt and evicting leaves a stale agent behind.
CachedPromptCurrent ==
  \A u \in User :
    userAgents[u] # NoAgent =>
      agentPrompt[userAgents[u]] = systemPrompts[u] \/ CommandPending(u)

\* A turn that began with no /system command of its user under way, and saw
\* none begin, is answered under the prompt in force.
SettledTurnUsesPrompt ==
  \A t \in Turn :
    settled[t] /\ pc[t] \in {"process", "stream"} =>
      turnPrompt[t] = systemPrompts[user[t]]

\* An agent in the cache is never replaced by another one: it goes only by
\* eviction, so that turns of a user that overlap share one conversation.
AgentNotReplaced ==
  [][\A u \in User :
       userAgents[u] # NoAgent => userAgents'[u] \in {userAgents[u], NoAgent}]_vars

\* Every message that has entered the router leaves it: no turn waits for ever
\* on the agents' lock.
EveryTurnEnds == \A t \in Turn : pc[t] # "idle" ~> pc[t] = "done"

Remembers(a, t) == \E i \in DOMAIN agentHistory[a] : agentHistory[a][i] = t

\* "Each user gets their own isolated agent instance" (router.go:542): a turn
\* joins a conversation of its own user only, and that conversation goes on: a
\* stored turn that a cached agent answered, no /system command has touched and
\* no other turn ran beside is in what the next turn's agent remembers, until
\* MaxHistory later turns have pushed it out.
OneConversation ==
  /\ \A a, t \in Turn : Remembers(a, t) => user[t] = user[a]
  /\ \A t \in Turn :
       settled[t] /\ t \notin raced /\ agent[t] # NoAgent /\ t \in stored[user[t]] =>
         /\ userAgents[user[t]] # NoAgent
         /\ Remembers(userAgents[user[t]], t) \/ newer[t] >= MaxHistory
=============================================================================
