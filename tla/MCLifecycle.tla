---------------------------- MODULE MCLifecycle -----------------------------
(* An instance of Lifecycle for TLC: two channels, one of which may be       *)
(* skipped, and one of everything else.                                      *)
EXTENDS Lifecycle

CONSTANTS chat, signal, mcp, job, request, socket, summary

Channels == {chat, signal}
MaySkip == {signal}
Servers == {mcp}
Jobs == {job}
Requests == {request}
Sockets == {socket}
Summaries == {summary}
=============================================================================
