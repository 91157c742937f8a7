------------------------------ MODULE Calendar ------------------------------
(***************************************************************************)
(* The calendar tool (internal/tools/calendar.go): events in one JSON      *)
(* file, which every call loads, changes and writes back, without a lock,  *)
(* by os.WriteFile, which truncates the file before it writes.  Calls of   *)
(* different turns overlap, writes fail, and the process may crash.        *)
(***************************************************************************)
EXTENDS Naturals, FiniteSets

CONSTANTS
  Call,   \* who calls the tool, one call at a time each
  Event,  \* bound: the events ever created; each gets a new UUID
  NoEvent

ASSUME CalendarAssumption == NoEvent \notin Event

VARIABLES
  file,    \* the file: the events in it, and whether it parses
  at,      \* call -> idle, load, save, write
  op,      \* call -> its operation
  event,   \* call -> the event it creates or deletes
  copy,    \* call -> the events it is about to write
  result,  \* call -> how its last call ended: none, ok, error
  created, \* the UUIDs given out
  due,     \* history: the events created and not deleted by the calls that
           \* wrote, or reported that they had
  racing,  \* history: the events of calls that overlapped others
  mishap   \* history: a write failed, got mixed with another, or was cut off

calendarVars == <<file, at, op, event, copy, result, created, due, racing, mishap>>

\* An absent file is a whole one without events.
CalendarInit ==
  /\ file = [data |-> {}, whole |-> TRUE]
  /\ at = [c \in Call |-> "idle"]
  /\ op = [c \in Call |-> "none"]
  /\ event = [c \in Call |-> NoEvent]
  /\ copy = [c \in Call |-> {}]
  /\ result = [c \in Call |-> "none"]
  /\ created = {} /\ due = {} /\ racing = {}
  /\ mishap = FALSE

Writers == {c \in Call : at[c] \in {"save", "write"}}

\* The call returns; its parameters and what it loaded are gone.
Return(c, r) ==
  /\ at' = [at EXCEPT ![c] = "idle"]
  /\ op' = [op EXCEPT ![c] = "none"]
  /\ event' = [event EXCEPT ![c] = NoEvent]
  /\ copy' = [copy EXCEPT ![c] = {}]
  /\ result' = [result EXCEPT ![c] = r]

-----------------------------------------------------------------------------
Begin(c, operation, e) ==
  /\ at[c] = "idle"
  /\ at' = [at EXCEPT ![c] = "load"]
  /\ op' = [op EXCEPT ![c] = operation]
  /\ event' = [event EXCEPT ![c] = e]
  /\ result' = [result EXCEPT ![c] = "none"]
  /\ UNCHANGED <<file, copy, due, racing, mishap>>

List(c) == Begin(c, "list", NoEvent) /\ UNCHANGED created

\* The UUID is made before anything is loaded.
Create(c, e) ==
  /\ e \notin created
  /\ created' = created \cup {e}
  /\ Begin(c, "create", e)

Delete(c, e) ==
  /\ e \in created
  /\ Begin(c, "delete", e)
  /\ UNCHANGED created

Changed(c, data) ==
  IF op[c] = "create" THEN data \cup {event[c]} ELSE data \ {event[c]}

\* With events loaded: a list is done, a delete may not find its event, and
\* otherwise the changed copy is to be saved.
Loaded(c, data) ==
  \/ /\ op[c] = "list"
     /\ Return(c, "ok")
     /\ UNCHANGED racing
  \/ /\ op[c] = "delete" /\ event[c] \notin data
     /\ Return(c, "error")
     /\ UNCHANGED racing
  \/ /\ op[c] = "create" \/ (op[c] = "delete" /\ event[c] \in data)
     /\ copy' = [copy EXCEPT ![c] = Changed(c, data)]
     /\ at' = [at EXCEPT ![c] = "save"]
     /\ racing' = IF Writers = {} THEN racing
                  ELSE racing \cup {event[d] : d \in Writers \cup {c}}
     /\ UNCHANGED <<op, event, result>>

\* A mutant: a file that does not parse counts as empty.
LoadEventsForgiving(c) ==
  /\ at[c] = "load"
  /\ Loaded(c, IF file.whole THEN file.data ELSE {})
  /\ UNCHANGED <<file, created, due, mishap>>

\* loadEvents: a file that cannot be read or parsed is an error.
LoadEvents(c) ==
  /\ at[c] = "load"
  /\ \/ /\ file.whole
        /\ Loaded(c, file.data)
     \/ /\ Return(c, "error")
        /\ UNCHANGED racing
  /\ UNCHANGED <<file, created, due, mishap>>

\* A mutant: that the file cannot be opened is not reported.
OpenFileQuietly(c) ==
  /\ at[c] = "save"
  /\ \/ /\ file' = [data |-> {}, whole |-> FALSE]
        /\ at' = [at EXCEPT ![c] = "write"]
        /\ UNCHANGED <<op, event, copy, result, due>>
     \/ /\ Return(c, "ok")
        /\ due' = Changed(c, due)
        /\ UNCHANGED file
  /\ UNCHANGED <<created, racing, mishap>>

\* saveEvents opens the file, which empties it, or cannot.
OpenFile(c) ==
  /\ at[c] = "save"
  /\ \/ /\ file' = [data |-> {}, whole |-> FALSE]
        /\ at' = [at EXCEPT ![c] = "write"]
        /\ UNCHANGED <<op, event, copy, result>>
     \/ /\ Return(c, "error")
        /\ UNCHANGED file
  /\ UNCHANGED <<created, due, racing, mishap>>

\* What data written over the bytes of another write makes: more events take
\* more bytes and cover fewer, fewer leave a tail, and else it depends.
Written(data) ==
  LET whole == [data |-> data, whole |-> TRUE]
      mixed == [data |-> file.data \cup data, whole |-> FALSE]
  IN CASE file.data \subseteq data -> {whole}
       [] file.whole /\ data \subseteq file.data /\ data # file.data -> {mixed}
       [] OTHER -> {whole, mixed}

\* All is written; the close may still fail, and then os.WriteFile says so.
WriteFile(c) ==
  /\ at[c] = "write"
  /\ file' \in Written(copy[c])
  /\ mishap' = (mishap \/ ~file'.whole)
  /\ due' = Changed(c, due)
  /\ \E r \in {"ok", "error"} : Return(c, r)
  /\ UNCHANGED <<created, racing>>

\* The disk is full: some of it is written.
WriteFails(c) ==
  /\ at[c] = "write"
  /\ file' = [data |-> file.data \cup copy[c], whole |-> FALSE]
  /\ mishap' = TRUE
  /\ Return(c, "error")
  /\ UNCHANGED <<created, due, racing>>

CalendarStep(c) == LoadEvents(c) \/ OpenFile(c) \/ WriteFile(c) \/ WriteFails(c)

\* The process stops; the file stays as it is.
CalendarCrash ==
  /\ at' = [c \in Call |-> "idle"]
  /\ op' = [c \in Call |-> "none"]
  /\ event' = [c \in Call |-> NoEvent]
  /\ copy' = [c \in Call |-> {}]
  /\ result' = [c \in Call |-> "none"]
  /\ mishap' = (mishap \/ \E c \in Call : at[c] = "write")
  /\ UNCHANGED <<file, created, due, racing>>

-----------------------------------------------------------------------------
CalendarTypeOK ==
  /\ file \in [data : SUBSET Event, whole : BOOLEAN]
  /\ at \in [Call -> {"idle", "load", "save", "write"}]
  /\ op \in [Call -> {"none", "list", "create", "delete"}]
  /\ event \in [Call -> Event \cup {NoEvent}]
  /\ copy \in [Call -> SUBSET Event]
  /\ \A c \in Call : c \notin Writers => copy[c] = {}
  /\ result \in [Call -> {"none", "ok", "error"}]
  /\ created \in SUBSET Event /\ due \in SUBSET created /\ racing \in SUBSET created

\* What the tool has reported, or written before it reported an error, is in the
\* file: it holds the events created and not deleted, but for those of calls that
\* overlapped another between loading and writing; and it is only unreadable while
\* a call writes or after a write failed, was mixed with another or was cut off by
\* a crash.
LostOnlyByOverlap ==
  /\ CalendarTypeOK
  /\ file.whole => file.data \ racing = due \ racing
  /\ ~file.whole => mishap \/ \E c \in Call : at[c] = "write"

\* A torn file: it does not parse, and no call is on its way to write it.
Torn == ~file.whole /\ Writers = {}

\* A torn file stays as it is, for someone to repair, and no call that follows,
\* whatever it is to do, gets as far as writing over what may be saved of it.
TornKept == [][Torn => Torn' /\ file' = file]_calendarVars
=============================================================================
