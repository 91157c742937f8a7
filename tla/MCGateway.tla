----------------------------- MODULE MCGateway ------------------------------
(* Instances of Gateway for TLC. *)
EXTENDS Gateway

From(c, key, conv) ==
  [key |-> key, user |-> "u", channel |-> c, meta |-> c, conv |-> conv]

Fired(c, key) ==
  [key |-> key, user |-> "u", channel |-> c, meta |-> None, conv |-> "cron"]

\* Two messages on one of two chat channels, ...
ChatMessages == {From("slack", "k1", "s1"), From("slack", "k2", "s1")}

\* ... and a job that reports to a channel nobody registered, unless the user
\* prefers another.
ChatJobs == [j \in {"job"} |-> Fired("nowhere", "k4")]
=============================================================================
