CONSTANTS
  User = {u1, u2}
  Turn = {t1, t2, t3}
  Prompt = {p1, p2}
  MaxHistory = 2
  DefaultPrompt = DefaultPrompt
  NoAgent = NoAgent
  NoUser = NoUser
  Free = Free
SPECIFICATION FairSpec
INVARIANTS
  CachedPromptCurrent
  SettledTurnUsesPrompt
  OneConversation
PROPERTIES
  AgentNotReplaced
  EveryTurnEnds
CHECK_DEADLOCK FALSE
