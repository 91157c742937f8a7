---------------------------- MODULE MCSummarizer ----------------------------
(* Instances of Summarizer for TLC. *)
EXTENDS Summarizer, TLC

\* Turns are interchangeable.
Symmetric == Permutations(Turn)
=============================================================================
