----------------------------- MODULE MCChannel ------------------------------
(* Instances of Channel for TLC: the adapters whose callbacks run in         *)
(* goroutines of the process.                                                *)
EXTENDS Channel

OwnGoroutines == Polling \cup Socket
=============================================================================
