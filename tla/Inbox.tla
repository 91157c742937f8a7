------------------------------- MODULE Inbox --------------------------------
(***************************************************************************)
(* What a channel's inbox promises the gateway: messages are handed over   *)
(* one at a time, each at most once, in the order in which the inbox       *)
(* accepted them; a message may be refused when it arrives, but never lost *)
(* or overtaken once accepted; a closed inbox accepts nothing.             *)
(***************************************************************************)
EXTENDS Naturals, Sequences

CONSTANTS Message, Bound

VARIABLES pending, delivered, open

Init ==
  /\ pending = << >>
  /\ delivered = << >>
  /\ open = TRUE

\* A refused message changes nothing, so it needs no action here.
Accept(m) ==
  /\ open
  /\ Len(pending) < Bound
  /\ pending' = Append(pending, m)
  /\ UNCHANGED <<delivered, open>>

Deliver ==
  /\ pending # << >>
  /\ pending' = Tail(pending)
  /\ delivered' = Append(delivered, Head(pending))
  /\ UNCHANGED open

Close ==
  /\ open
  /\ open' = FALSE
  /\ UNCHANGED <<pending, delivered>>

Next == Deliver \/ Close \/ \E m \in Message : Accept(m)

Spec == Init /\ [][Next]_<<pending, delivered, open>>
=============================================================================
