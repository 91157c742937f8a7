------------------------------ MODULE History -------------------------------
(***************************************************************************)
(* What a memory store promises of one user's history, whatever the        *)
(* backend (internal/memory/memory.go, Store): messages enter at its end,  *)
(* in one order, and leave from its beginning.  Messages are numbered in   *)
(* the order they enter.                                                   *)
(***************************************************************************)
EXTENDS Naturals, Sequences, SequencesExt

VARIABLES
  count, \* messages entered so far
  kept   \* those the store holds, oldest first

Init == count = 0 /\ kept = << >>

\* A message enters; old ones may leave for it.
Enter ==
  /\ count' = count + 1
  /\ kept' \in Suffixes(Append(kept, count'))

Leave == UNCHANGED count /\ kept' \in Suffixes(kept)

Spec == Init /\ [][Enter \/ Leave]_<<count, kept>>
=============================================================================
