------------------------------ MODULE Planning ------------------------------
(***************************************************************************)
(* Turns in planning mode: the branch of ProcessMessage (router.go) that   *)
(* runs a planning agent, the executor of its steps                        *)
(* (internal/agents/planning.go), and the tools the steps name, of which   *)
(* the calendar is modelled in full.  The planning agent itself is of      *)
(* agenkit: it makes a plan of at most MaxSteps steps, runs them one by    *)
(* one, and when one fails may go on, or give up.                          *)
(***************************************************************************)
EXTENDS Calendar

CONSTANTS
  MaxSteps,  \* steps of a plan (10)
  MaxCrashes \* bound: crashes

ASSUME PlanningAssumption == MaxSteps \in Nat /\ MaxCrashes \in Nat

\* A turn calls the calendar as itself.
PlanTurn == Call

VARIABLES
  turn,    \* turn -> idle, planning, calendar, other, user, assistant, ok, failed, lost
  steps,   \* turn -> the steps it has run
  entries, \* turn -> its entries in the memory store: user, assistant
  crashes

planVars == <<turn, steps, entries, crashes>>

PlanInit ==
  /\ CalendarInit
  /\ turn = [t \in PlanTurn |-> "idle"]
  /\ steps = [t \in PlanTurn |-> 0]
  /\ entries = [t \in PlanTurn |-> {}]
  /\ crashes = 0

PlanGoto(t, label) == turn' = [turn EXCEPT ![t] = label]

-----------------------------------------------------------------------------
Start(t) ==
  /\ turn[t] = "idle"
  /\ PlanGoto(t, "planning")
  /\ UNCHANGED <<calendarVars, steps, entries, crashes>>

\* The agent has a step executed.
NextStep(t, label) ==
  /\ turn[t] = "planning"
  /\ steps[t] < MaxSteps
  /\ steps' = [steps EXCEPT ![t] = @ + 1]
  /\ PlanGoto(t, label)
  /\ UNCHANGED <<entries, crashes>>

\* A step that names the calendar calls it, with the description as its input,
\* which holds parameters only if it is JSON.
CalendarStepBegins(t) ==
  /\ NextStep(t, "calendar")
  /\ \/ List(t)
     \/ \E e \in Event : Create(t, e) \/ Delete(t, e)

\* Otherwise the operation is unknown; like a step that names another tool or
\* none, which goes to the model, it ends well or not without the calendar.
OtherStepBegins(t) == NextStep(t, "other") /\ UNCHANGED calendarVars

\* What a step returns, data or an error, goes to the agent: it plans on, or
\* gives up after an error.
Executed(t, error) ==
  /\ \/ PlanGoto(t, "planning")
     \/ error /\ PlanGoto(t, "failed")
  /\ UNCHANGED <<calendarVars, steps, entries, crashes>>

CalendarStepEnds(t) ==
  /\ turn[t] = "calendar"
  /\ result[t] # "none"
  /\ Executed(t, result[t] = "error")

\* A mutant: a step that failed does not count.
OtherStepEndsUncounted(t) ==
  /\ turn[t] = "other"
  /\ \E error \in BOOLEAN :
       /\ \/ PlanGoto(t, "planning")
          \/ error /\ PlanGoto(t, "failed")
       /\ steps' = IF error THEN [steps EXCEPT ![t] = @ - 1] ELSE steps
       /\ UNCHANGED <<calendarVars, entries, crashes>>

OtherStepEnds(t) ==
  /\ turn[t] = "other"
  /\ \E error \in BOOLEAN : Executed(t, error)

\* The agent is done, with a response or an error; the model it asks for the plan
\* may fail as well.
PlanEnded(t) ==
  /\ turn[t] = "planning"
  /\ PlanGoto(t, "user") \/ PlanGoto(t, "failed")
  /\ UNCHANGED <<calendarVars, steps, entries, crashes>>

\* ProcessMessage then stores the turn; that an entry cannot be stored is logged.
StoreEntry(t, role, then) ==
  /\ turn[t] = role
  /\ \/ entries' = [entries EXCEPT ![t] = @ \cup {role}]
     \/ UNCHANGED entries
  /\ PlanGoto(t, then)
  /\ UNCHANGED <<calendarVars, steps, crashes>>

Crash ==
  /\ crashes < MaxCrashes
  /\ crashes' = crashes + 1
  /\ turn' = [t \in PlanTurn |->
               IF turn[t] \in {"idle", "ok", "failed"} THEN turn[t] ELSE "lost"]
  /\ CalendarCrash
  /\ UNCHANGED <<steps, entries>>

TurnStep(t) ==
  \/ CalendarStepBegins(t) \/ OtherStepBegins(t)
  \/ CalendarStepEnds(t) \/ OtherStepEnds(t) \/ PlanEnded(t)
  \/ StoreEntry(t, "user", "assistant") \/ StoreEntry(t, "assistant", "ok")
  \/ CalendarStep(t) /\ UNCHANGED planVars

PlanNext == Crash \/ \E t \in PlanTurn : Start(t) \/ TurnStep(t)

PlanSpec == PlanInit /\ [][PlanNext]_<<calendarVars, planVars>>

\* Turns run, and models, tools and stores return.
PlanFairSpec ==
  /\ PlanSpec
  /\ \A t \in PlanTurn : WF_<<calendarVars, planVars>>(TurnStep(t))

-----------------------------------------------------------------------------
PlanLabel == {"idle", "planning", "calendar", "other", "user", "assistant", "ok",
          "failed", "lost"}

PlanTypeOK ==
  /\ turn \in [PlanTurn -> PlanLabel]
  /\ steps \in [PlanTurn -> 0..MaxSteps]
  /\ entries \in [PlanTurn -> SUBSET {"user", "assistant"}]
  /\ \A t \in PlanTurn : at[t] # "idle" => turn[t] = "calendar"
  /\ crashes \in 0..MaxCrashes

\* Nothing of a turn that failed is stored, though what its steps did to the
\* calendar stays done.
FailedNotStored == \A t \in PlanTurn : turn[t] = "failed" => entries[t] = {}

\* Whatever steps of overlapping turns do, the calendar loses only by overlap, and
\* the memory store holds nothing of a failed turn.
PlanInv == PlanTypeOK /\ LostOnlyByOverlap /\ FailedNotStored

\* Every turn ends, with an answer or an error, whatever its steps meet in the
\* calendar and however often they fail, unless the process stops.
PlanEnds ==
  \A t \in PlanTurn : turn[t] # "idle" ~> turn[t] \in {"ok", "failed", "lost"}
=============================================================================
