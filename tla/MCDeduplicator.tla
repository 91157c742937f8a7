--------------------------- MODULE MCDeduplicator ---------------------------
(* Instances of Deduplicator for TLC. *)
EXTENDS Deduplicator

CONSTANTS None

Msg(id, channel, user, content) ==
  [id |-> id, channel |-> channel, user |-> user, content |-> content]

\* Three messages with IDs, and one from a channel that assigns none.
Distinct ==
  {Msg("1", "slack", "u1", "a"), Msg("2", "slack", "u1", "b"),
   Msg("3", "slack", "u2", "a"), Msg(None, "signal", "u1", "a")}
=============================================================================
