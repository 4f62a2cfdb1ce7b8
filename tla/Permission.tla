----------------------------- MODULE Permission -----------------------------
(***************************************************************************)
(* A permission request of the agent: worker.rs inserts a row, optionally  *)
(* posts a webhook, polls the row until it is decided or the deadline      *)
(* passes, overwrites its status and answers the agent, while HTTP clients *)
(* respond to the row through routes.rs.                                   *)
(***************************************************************************)
CONSTANTS
  Perm,         \* permission requests of the agents
  Option,       \* option ids
  AutoApproved,         \* those handled while config.permissions.auto_approve is set
  Nothing,      \* NULL option, no decision, not told
  Cancelled     \* RequestPermissionOutcome::Cancelled; the client's {"cancel": true}

ASSUME PermissionAssumption ==
  /\ AutoApproved \subseteq Perm
  /\ Nothing \notin Option /\ Cancelled \notin Option /\ Nothing # Cancelled

VARIABLES
  handler,   \* where the worker's request handler is
  status,    \* permission_requests.status
  option,    \* permission_requests.decision_option_id
  decision,  \* what wait_for_decision returned
  told,      \* the outcome sent to the agent
  accepted   \* the responses answered 200

vars == <<handler, status, option, decision, told, accepted>>
row  == <<status, option>>

Init ==
  /\ handler = [p \in Perm |-> "idle"]
  /\ status = [p \in Perm |-> "absent"]
  /\ option = [p \in Perm |-> Nothing]
  /\ decision = [p \in Perm |-> Nothing]
  /\ told = [p \in Perm |-> Nothing]
  /\ accepted = [p \in Perm |-> {}]

Goto(p, h) == handler' = [handler EXCEPT ![p] = h]

\* The first option the agent offers, or Cancelled when it offers none.
Approve(p) ==
  /\ p \in AutoApproved
  /\ handler[p] = "idle"
  /\ \E d \in Option \cup {Cancelled} : told' = [told EXCEPT ![p] = d]
  /\ Goto(p, "answered")
  /\ UNCHANGED <<row, decision, accepted>>

\* insert_pending; then the webhook is posted, whose outcome is ignored.
InsertPending(p) ==
  /\ p \notin AutoApproved
  /\ handler[p] = "idle"
  /\ status' = [status EXCEPT ![p] = "pending"]
  /\ Goto(p, "webhook")
  /\ UNCHANGED <<option, decision, told, accepted>>

WebhookOver(p) ==
  /\ handler[p] = "webhook"
  /\ Goto(p, "poll")
  /\ UNCHANGED <<row, decision, told, accepted>>

\* What wait_for_decision returns for a row: the option of an approved row.  An
\* approved row without an option reads like a cancellation.
ReadAnyOption(p) == option[p]  \* mutant: the status is not looked at
Read(p) == IF status[p] = "approved" THEN option[p] ELSE Nothing

\* A round of wait_for_decision returns when the row is decided, or when it is
\* still pending and the deadline has passed; another round follows otherwise.
ReturnsIfDecided(p) == status[p] # "pending"  \* mutant: there is no deadline
Returns(p) == TRUE

Poll(p) ==
  /\ handler[p] = "poll"
  /\ Returns(p)
  /\ decision' = [decision EXCEPT ![p] = Read(p)]
  /\ Goto(p, "resolve")
  /\ UNCHANGED <<row, told, accepted>>

\* The status written back, whatever was decided in the meantime.
ResolvedApproved(p) == "approved"  \* mutant: only pending rows are cancelled
Resolved(p) == IF decision[p] = Nothing THEN "cancelled" ELSE "approved"

\* resolve, whose failure is ignored, then the response to the agent.
Resolve(p) ==
  /\ handler[p] = "resolve"
  /\ \/ /\ status' = [status EXCEPT ![p] = Resolved(p)]
        /\ Goto(p, "answered")
     \/ /\ UNCHANGED status
        /\ Goto(p, "unwritten")
  /\ told' = [told EXCEPT ![p] = IF decision[p] = Nothing THEN Cancelled ELSE decision[p]]
  /\ UNCHANGED <<option, decision, accepted>>

\* The worker ends while the handler waits, or an earlier statement fails and the
\* handler returns an error.
HandlerLost(p) ==
  /\ p \notin AutoApproved
  /\ handler[p] \in {"idle", "webhook", "poll", "resolve"}
  /\ Goto(p, "lost")
  /\ UNCHANGED <<row, decision, told, accepted>>

\* The UPDATE of respond matches a row only while it is pending.
OpenOnceInserted(p) == status[p] # "absent"  \* mutant: no status condition
Open(p) == status[p] = "pending"

\* POST /v1/permissions/{id}/respond: 200 when a row was changed, else 404, which
\* changes nothing.  The body may name an option, cancel, both or neither.
Respond(p, o, cancel) ==
  /\ Open(p)
  /\ status' = [status EXCEPT ![p] = IF cancel THEN "cancelled" ELSE "approved"]
  /\ option' = [option EXCEPT ![p] = o]
  /\ accepted' = [accepted EXCEPT ![p] = @ \cup {IF cancel THEN Cancelled ELSE o}]
  /\ UNCHANGED <<handler, decision, told>>

Handler(p) == Approve(p) \/ InsertPending(p) \/ WebhookOver(p) \/ Poll(p) \/ Resolve(p)

\* Where a handler ends: with its row written, with resolve failed, or without an answer.
Over == {"answered", "unwritten", "lost"}

Finished ==
  /\ \A p \in Perm : handler[p] \in Over /\ ~Open(p)
  /\ UNCHANGED vars

Next ==
  \/ \E p \in Perm : \/ Handler(p) \/ HandlerLost(p)
                     \/ \E o \in Option \cup {Nothing}, cancel \in BOOLEAN : Respond(p, o, cancel)
  \/ Finished

\* A request that has arrived is handled to its end: the webhook and the polling
\* have deadlines.
Spec == Init /\ [][Next]_vars /\ \A p \in Perm : WF_vars(handler[p] # "idle" /\ Handler(p))

-----------------------------------------------------------------------------
\* The state is of its types.
TypeOK ==
  /\ handler \in [Perm -> {"idle", "webhook", "poll", "resolve"} \cup Over]
  /\ status \in [Perm -> {"absent", "pending", "approved", "cancelled"}]
  /\ option \in [Perm -> Option \cup {Nothing}]
  /\ decision \in [Perm -> Option \cup {Nothing}]
  /\ told \in [Perm -> Option \cup {Nothing, Cancelled}]
  /\ accepted \in [Perm -> SUBSET (Option \cup {Nothing, Cancelled})]

\* The rows, the handlers and what clients were answered keep in step: no row is
\* decided twice, and what a handler read is what a client was answered 200 for.
HandlersKeepInStep ==
  /\ TypeOK
  /\ \A p \in Perm :
       /\ handler[p] \in {"answered", "unwritten"} <=> told[p] # Nothing
       /\ accepted[p] # {} => \E v \in Option \cup {Nothing, Cancelled} : accepted[p] = {v}
       /\ decision[p] # Nothing => accepted[p] = {decision[p]}
       /\ status[p] = "approved" => accepted[p] = {option[p]}
       /\ status[p] \in {"absent", "pending"} => accepted[p] = {}
       /\ handler[p] = "idle" \/ p \in AutoApproved => status[p] = "absent"
       /\ status[p] = "absent" => handler[p] \in {"idle", "lost"} \/ p \in AutoApproved

\* Without auto_approve, the agent is told to go on with an option only if a client
\* was answered 200 for that option.
OnlyVotedOptionsAreSelected ==
  \A p \in Perm \ AutoApproved : told[p] \in Option => accepted[p] = {told[p]}

\* Once the agent is answered, the row says what the agent was told, although resolve
\* overwrites it without looking and clients respond meanwhile.  The one exception is
\* an agent told Cancelled whose resolve failed: its row stays pending, and a client
\* may still be answered 200 for it.
RowSaysWhatAgentWasTold ==
  \A p \in Perm \ AutoApproved : told[p] # Nothing =>
    \/ status[p] = IF told[p] = Cancelled THEN "cancelled" ELSE "approved"
    \/ handler[p] = "unwritten" /\ told[p] = Cancelled

\* At most one response is accepted and the agent is told one outcome, once: see
\* PermissionDecision.
Promise == INSTANCE PermissionDecision WITH vote <- accepted
KeepsPromise == Promise!Spec

\* The agent is answered, unless its worker is gone.
AgentIsAnswered ==
  \A p \in Perm : (handler[p] = "webhook") ~> (handler[p] \in Over)

-----------------------------------------------------------------------------
(* What the program says and does not do. *)

\* routes.rs:381 answers "ok" to an accepted response, and routes.rs:384 "not found
\* or already resolved" to a late one: the agent is told the option that was accepted.
AcceptedOptionReachesAgent ==
  \A p \in Perm : \A o \in Option :
    handler[p] = "answered" /\ o \in accepted[p] => told[p] = o
=============================================================================
