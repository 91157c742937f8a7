------------------------------ MODULE MCStream ------------------------------
(* Instances of Stream for TLC. *)
EXTENDS Stream

CONSTANTS c1, c2, u1

\* Two connections of one user.
TwoConnections == {c1, c2}
OneUser == {u1}
TwoAndOne == [c \in TwoConnections |-> IF c = c1 THEN 2 ELSE 1]
Mixed == [c \in TwoConnections |->
            IF c = c1 THEN {"bad", "stream"} ELSE {"sync", "system", "plan"}]
SameAsker == [c \in TwoConnections |-> u1]
=============================================================================
