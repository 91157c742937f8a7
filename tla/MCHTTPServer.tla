---------------------------- MODULE MCHTTPServer ----------------------------
(* Instances of HTTPServer for TLC. *)
EXTENDS HTTPServer

\* retry_attempts of two providers: unset, and one attempt.
TwoProviders == <<0, 1>>

\* A rate limit is retried, a server error falls back, an overload does both;
\* a cancelled request, which every provider may report as well, does neither.
SomeErrors == {{"429", "rate limit"}, {"500"}, {"503"}}

Get(route, header) == [route |-> route, post |-> FALSE, header |-> header, body |-> "malformed"]
Post(header, body) == [route |-> "/completions", post |-> TRUE, header |-> header, body |-> body]

SomeRequests ==
  {Get("/ready", "none"), Get("/status", "token"), Get("/flush", "token"),
   Get("/dashboard/data", "password"), Get("/api/ws", "none"),
   Get("/completions", "token"), Post("token", "malformed"),
   Post("token", "stream"), Post("none", "/system"), Post("token", "question")}
=============================================================================
