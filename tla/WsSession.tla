----------------------------- MODULE WsSession -----------------------------
(***************************************************************************)
(* GET /v1/responses/ws composed with Responses: connections that send     *)
(* response.create messages, each of which runs a create, beside HTTP      *)
(* clients of the same store.  A connection's task reads the next message  *)
(* only after it has answered the last, and forces stream = false; a       *)
(* socket that closes meanwhile is noticed only then.                      *)
(***************************************************************************)
EXTENDS Responses

CONSTANT Conn   \* WebSocket connections

VARIABLES
  sock,      \* "idle": the task awaits a message; "busy"; "closed"
  cur,       \* the create a busy connection awaits
  last,      \* WsSession::last_response_id
  inFlight,  \* WsSession::in_flight
  implicit   \* the creates whose previous id the connection filled in

session == <<sock, cur, last, inFlight, implicit>>

WsInit ==
  /\ Init
  /\ sock = [c \in Conn |-> "idle"]
  /\ cur = [c \in Conn |-> None]
  /\ last = [c \in Conn |-> None]
  /\ inFlight = [c \in Conn |-> FALSE]
  /\ implicit = {}

OwnedByConnection(r) == \E c \in Conn : cur[c] = r

\* The previous id of a message that gives none.
ImplicitPrevious(c) == last[c]

\* A response.create message is accepted; with in_flight set it would be refused.
Accept(c, r) ==
  /\ sock[c] = "idle"
  /\ ~inFlight[c]
  /\ \E p \in Known \cup {None}, wish \in BOOLEAN :
       LET q == IF p = None THEN ImplicitPrevious(c) ELSE p IN
       /\ Create(r, q, wish, FALSE)
       /\ implicit' = IF p = None /\ q # None THEN implicit \cup {r} ELSE implicit
  /\ cur' = [cur EXCEPT ![c] = r]
  /\ inFlight' = [inFlight EXCEPT ![c] = TRUE]
  /\ sock' = [sock EXCEPT ![c] = "busy"]
  /\ UNCHANGED last

\* What becomes of in_flight when the create has failed.
AfterErrorSet == TRUE  \* mutant: it is reset after an answer only
AfterError == FALSE

\* What the connection remembers after its create ended.
RememberAll(c) == cur[c]  \* mutant: failed creates are remembered, too
Remember(c) == IF pc[cur[c]] = "answered" THEN cur[c] ELSE last[c]

\* How a create ends that a connection can learn of.
Over == {"answered", "notfound", "failed"}

\* The outcome is sent, whether or not the socket is still there.
Reply(c) ==
  /\ sock[c] = "busy"
  /\ pc[cur[c]] \in Over
  /\ last' = [last EXCEPT ![c] = Remember(c)]
  /\ inFlight' = [inFlight EXCEPT ![c] = pc[cur[c]] # "answered" /\ AfterError]
  /\ cur' = [cur EXCEPT ![c] = None]
  /\ sock' = [sock EXCEPT ![c] = "idle"]
  /\ UNCHANGED <<vars, implicit>>

\* The client closes, the socket breaks, or a message comes after the 60 minutes.
CloseSocket(c) ==
  /\ sock[c] = "idle"
  /\ sock' = [sock EXCEPT ![c] = "closed"]
  /\ UNCHANGED <<vars, cur, last, inFlight, implicit>>

\* A restart of the server ends the connections as well.
WsRestart ==
  /\ Restart
  /\ sock' = [c \in Conn |-> "closed"]
  /\ cur' = [c \in Conn |-> None]
  /\ inFlight' = [c \in Conn |-> FALSE]
  /\ UNCHANGED <<last, implicit>>

Http(r) ==
  /\ \/ HttpCreate(r) \/ Delete(r)
     \/ CreateStep(r)
     \/ ~OwnedByConnection(r) /\ Disconnect(r)
  /\ UNCHANGED session

WsFinished == Finished /\ UNCHANGED session

WsNext ==
  \/ \E r \in Req : Http(r)
  \/ \E c \in Conn : (\E r \in Req : Accept(c, r)) \/ Reply(c) \/ CloseSocket(c)
  \/ WsRestart
  \/ WsFinished

wsVars == <<vars, session>>

WsSpec == WsInit /\ [][WsNext]_wsVars

\* Creates end (agents answer or fail) and the connections' tasks are scheduled.
WsFairSpec ==
  /\ WsSpec
  /\ \A r \in Req : WF_wsVars(CreateStep(r) /\ UNCHANGED session)
  /\ \A c \in Conn : WF_wsVars(Reply(c))

-----------------------------------------------------------------------------
\* A connection is in flight exactly while its task runs a create, so it never
\* refuses a message; and it remembers a response only if that was answered.
SessionsKeepInStep ==
  /\ sock \in [Conn -> {"idle", "busy", "closed"}]
  /\ \A c \in Conn :
       /\ inFlight[c] <=> sock[c] = "busy"
       /\ cur[c] # None <=> sock[c] = "busy"
       /\ last[c] # None => pc[last[c]] = "answered"

\* An implicit continuation continues an answered response, so what its connection
\* stored of it is complete: if the response is stored, its output reaches the agent.
ImplicitSeesItsPrevious ==
  \A r \in implicit :
    pc[r] \in Given => prev[r] \in ToSet(given[r])

\* A connection that runs a create replies, and then takes the next message or has been
\* closed, whatever becomes of the create (the three arms of handle_socket's match; what
\* is not JSON or no response.create is skipped there without a reply, ws.rs:87-96).
RepliesCome ==
  \A c \in Conn : sock[c] = "busy" ~> \/ sock[c] = "closed"
                                      \/ sock[c] = "idle" /\ ~inFlight[c]

=============================================================================
