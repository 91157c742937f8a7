------------------------------- MODULE Teams --------------------------------
(***************************************************************************)
(* The Teams adapter's replies (internal/channels/teams/teams.go), sent    *)
(* while the channel's receive loop (Channel) publishes a message: each    *)
(* chunk needs a bearer token, which getBearerToken keeps and refreshes    *)
(* before it expires.  The other adapters' replies need none and take no   *)
(* time here.                                                              *)
(*                                                                         *)
(* Only messages from Teams carry the conversation a reply needs, and one  *)
(* loop handles them, so one reply at a time uses the token.               *)
(***************************************************************************)
EXTENDS Channel, Integers

CONSTANTS
  Timeout,   \* of the HTTP client, for a whole exchange (15 s)
  Margin,    \* a token is refreshed so long before it expires (60 s)
  Lifetime,  \* what a token's expires_in may say
  MaxTime,   \* bound: the clock
  MaxChunks, \* bound: chunks of a reply
  NoToken

\* A token: until when it is valid, and how long it was when it was issued; the
\* adapter keeps it with its own tokenExpiry.
Issued == [until : Nat, life : Lifetime]
Kept == [until : Nat, life : Lifetime, expiry : Int]

ASSUME TeamsAssumption ==
  /\ NoToken \notin Issued \cup Kept
  /\ Timeout \in Nat \ {0}
  /\ Margin \in Nat /\ Margin >= 2 * Timeout
  /\ Lifetime \subseteq Nat
  /\ MaxTime \in Nat
  /\ MaxChunks \in Nat

VARIABLES
  now,      \* the clock
  token,    \* the token kept, with its tokenExpiry, or NoToken
  reply,    \* idle, fetch (a token), issued (it is on its way), post
  inHand,   \* the token of the reply under way, or NoToken
  deadline, \* when the HTTP client gives up
  chunk     \* chunks sent or given up

sending == <<now, token, reply, inHand, deadline, chunk>>

TeamsInit ==
  /\ Init
  /\ now = 0
  /\ token = NoToken
  /\ reply = "idle"
  /\ inHand = NoToken
  /\ deadline = 0
  /\ chunk = 0

\* The channel goes on, but publishing ends only when no reply is under way.
While(Step) ==
  /\ Step
  /\ handled' # handled => reply = "idle"
  /\ chunk' = IF handled' # handled THEN 0 ELSE chunk
  /\ UNCHANGED <<now, token, reply, inHand, deadline>>

\* The clock stops for no one; the HTTP client gives up in time.
Tick ==
  /\ Alive
  /\ platform = "teams"
  /\ now < MaxTime
  /\ reply # "idle" => now < deadline
  /\ now' = now + 1
  /\ UNCHANGED <<vars, token, reply, inHand, deadline, chunk>>

-----------------------------------------------------------------------------
Fresh(t) == t # NoToken /\ now < t.expiry

Request(stage, t) ==
  /\ reply' = stage
  /\ inHand' = t
  /\ deadline' = now + Timeout

\* The rest of the reply is given up with the first chunk that fails.
GiveUp ==
  /\ reply' = "idle"
  /\ inHand' = NoToken
  /\ chunk' = MaxChunks
  /\ UNCHANGED deadline

\* SendMessage, and getBearerToken at its start: the token kept will do until
\* its expiry.
SendMessage ==
  /\ platform = "teams"
  /\ loop = "publish"
  /\ reply = "idle"
  /\ chunk < MaxChunks
  /\ \/ /\ ~connected
        /\ GiveUp
     \/ /\ connected
        /\ IF Fresh(token) THEN Request("post", token) ELSE Request("fetch", NoToken)
        /\ UNCHANGED chunk
  /\ UNCHANGED <<vars, now, token>>

\* Microsoft issues a token; its life begins now.
Issue(life) ==
  /\ reply = "fetch"
  /\ reply' = "issued"
  /\ inHand' = [until |-> now + life, life |-> life]
  /\ UNCHANGED <<vars, now, token, deadline, chunk>>

\* A mutant: the token is kept for all of its life.
FetchReturnsNoMargin ==
  /\ reply = "issued"
  /\ token' = [until |-> inHand.until, life |-> inHand.life,
               expiry |-> now + inHand.life]
  /\ Request("post", token')
  /\ UNCHANGED <<vars, now, chunk>>

\* The response arrives and the token is kept; its life is counted from now.
FetchReturns ==
  /\ reply = "issued"
  /\ token' = [until |-> inHand.until, life |-> inHand.life,
               expiry |-> now + inHand.life - Margin]
  /\ Request("post", token')
  /\ UNCHANGED <<vars, now, chunk>>

\* The token endpoint refuses, or the client gives up; the token kept stays.
FetchFails ==
  /\ reply \in {"fetch", "issued"}
  /\ GiveUp
  /\ UNCHANGED <<vars, now, token>>

\* The service accepts the chunk, or refuses it, or the client gives up.
PostReturns ==
  /\ reply = "post"
  /\ \/ /\ reply' = "idle"
        /\ inHand' = NoToken
        /\ chunk' = chunk + 1
        /\ UNCHANGED deadline
     \/ GiveUp
  /\ UNCHANGED <<vars, now, token>>

\* What the HTTP client's timeout ends, if nothing does before.
ReplyStep == FetchReturns \/ FetchFails \/ PostReturns

TeamsNext ==
  \/ While(Next)
  \/ SendMessage \/ (\E life \in Lifetime : Issue(life)) \/ ReplyStep
  \/ Tick

TeamsSpec ==
  /\ TeamsInit /\ [][TeamsNext]_<<vars, sending>>
  /\ WF_<<vars, sending>>(While(StartStep))
  /\ WF_<<vars, sending>>(While(LoopStep))
  /\ WF_<<vars, sending>>(While(StopStep))
  /\ WF_<<vars, sending>>(ReplyStep)

-----------------------------------------------------------------------------
SendingOK ==
  /\ now \in 0..MaxTime
  /\ token \in Kept \cup {NoToken}
  /\ reply \in {"idle", "fetch", "issued", "post"}
  /\ inHand \in Issued \cup Kept \cup {NoToken}
  /\ inHand # NoToken <=> reply \in {"issued", "post"}
  /\ deadline \in Nat /\ (reply # "idle" => now <= deadline)
  /\ chunk \in 0..MaxChunks
  /\ reply # "idle" => loop = "publish"

\* "Refresh 60s before actual expiry to avoid races" (teams.go:306) does avoid
\* them: whenever a reply is on its way, and however long the token and the reply
\* take, the token it carries is valid; unless its whole life is so short that two
\* slow exchanges outlast it, when only trying again helps, and nobody does.
TokenLive ==
  /\ SendingOK
  /\ reply = "post" /\ inHand.life > 2 * Timeout => now < inHand.until
=============================================================================
