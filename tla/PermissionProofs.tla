-------------------------- MODULE PermissionProofs --------------------------
(***************************************************************************)
(* Proofs about Permission, for all sets of requests and options: the      *)
(* inductive invariant behind HandlersKeepInStep, what follows from it,    *)
(* and the refinement of PermissionDecision.                               *)
(***************************************************************************)
EXTENDS Permission, TLAPS

Waiting == {"webhook", "poll", "resolve"}

\* What links a handler to its row: what a handler has read does not change any
\* more, and an answered handler has left its decision in the row.
Linked(p) ==
  /\ handler[p] \in {"idle", "webhook", "poll"} => decision[p] = Nothing
  /\ handler[p] \in Waiting \cup {"unwritten", "lost"} => p \notin AutoApproved
  /\ decision[p] # Nothing => status[p] = "approved" /\ option[p] = decision[p]
  /\ handler[p] = "answered" /\ p \notin AutoApproved =>
       /\ told[p] = IF decision[p] = Nothing THEN Cancelled ELSE decision[p]
       /\ status[p] = IF decision[p] = Nothing THEN "cancelled" ELSE "approved"
  /\ handler[p] = "unwritten" =>
       told[p] = IF decision[p] = Nothing THEN Cancelled ELSE decision[p]

IInv == HandlersKeepInStep /\ \A p \in Perm : Linked(p)

-----------------------------------------------------------------------------
LEMMA InitIInv == Init => IInv
<1> USE PermissionAssumption
<1> QED BY DEF Init, IInv, HandlersKeepInStep, TypeOK, Linked, Waiting, Over

LEMMA NextIInv == IInv /\ [Next]_vars => IInv'
<1> SUFFICES ASSUME IInv, [Next]_vars PROVE IInv'
  OBVIOUS
<1> USE PermissionAssumption
         DEF IInv, HandlersKeepInStep, TypeOK, Linked, Waiting, Over, Goto, row
<1>1. ASSUME NEW p \in Perm, Approve(p) PROVE IInv'
  BY <1>1 DEF Approve
<1>2. ASSUME NEW p \in Perm, InsertPending(p) PROVE IInv'
  BY <1>2 DEF InsertPending
<1>3. ASSUME NEW p \in Perm, WebhookOver(p) PROVE IInv'
  BY <1>3 DEF WebhookOver
<1>4. ASSUME NEW p \in Perm, Poll(p) PROVE IInv'
  BY <1>4 DEF Poll, Read
<1>5. ASSUME NEW p \in Perm, Resolve(p) PROVE IInv'
  BY <1>5 DEF Resolve, Resolved
<1>6. ASSUME NEW p \in Perm, HandlerLost(p) PROVE IInv'
  BY <1>6 DEF HandlerLost
<1>7. ASSUME NEW p \in Perm, NEW o \in Option \cup {Nothing}, NEW cancel \in BOOLEAN,
             Respond(p, o, cancel)
      PROVE IInv'
  BY <1>7 DEF Respond, Open
<1>8. CASE UNCHANGED vars
  BY <1>8 DEF vars
<1> HIDE DEF IInv, HandlersKeepInStep, TypeOK, Linked, Waiting, Over, Goto, row
<1> QED
  BY <1>1, <1>2, <1>3, <1>4, <1>5, <1>6, <1>7, <1>8 DEF Next, Handler, Finished

\* No row is decided twice, and what a handler read (permissions.rs:112) is what a
\* client was answered 200 for (routes.rs:381), however polls, responses and resolve
\* interleave.
THEOREM RowsKeepInStep == Spec => []HandlersKeepInStep
<1>1. IInv => HandlersKeepInStep
  BY DEF IInv
<1> QED BY <1>1, InitIInv, NextIInv, PTL DEF Spec

\* The agent is not told to go on (worker.rs:251) with an option nobody chose.
THEOREM SelectionsAreVoted == Spec => []OnlyVotedOptionsAreSelected
<1>1. IInv => OnlyVotedOptionsAreSelected
  BY PermissionAssumption
  DEF IInv, HandlersKeepInStep, TypeOK, Linked, Waiting, Over, OnlyVotedOptionsAreSelected
<1> QED BY <1>1, InitIInv, NextIInv, PTL DEF Spec

\* The row and the agent agree once resolve (worker.rs:248, 258) is done, unless it failed
\* and the agent was told Cancelled.
THEOREM RowsAgreeWithAgents == Spec => []RowSaysWhatAgentWasTold
<1>1. IInv => RowSaysWhatAgentWasTold
  BY PermissionAssumption
  DEF IInv, HandlersKeepInStep, TypeOK, Linked, Waiting, Over, RowSaysWhatAgentWasTold
<1> QED BY <1>1, InitIInv, NextIInv, PTL DEF Spec

-----------------------------------------------------------------------------
(* The refinement of PermissionDecision. *)

LEMMA InitPromise == Init => Promise!Init
BY DEF Init, Promise!Init

LEMMA NextPromise == IInv /\ [Next]_vars => [Promise!Next]_<<accepted, told>>
<1> SUFFICES ASSUME IInv, [Next]_vars PROVE [Promise!Next]_<<accepted, told>>
  OBVIOUS
<1> USE PermissionAssumption
<1>1. ASSUME NEW p \in Perm, Approve(p) PROVE Promise!Next
  <2>1. p \in AutoApproved /\ told[p] = Nothing
    BY <1>1 DEF Approve, IInv, HandlersKeepInStep
  <2>2. Promise!TellDefault(p)
    BY <1>1, <2>1 DEF Approve, Promise!TellDefault
  <2> QED BY <2>1, <2>2 DEF Promise!Next
<1>2. ASSUME NEW p \in Perm, Resolve(p) PROVE Promise!Next
  <2>1. p \notin AutoApproved /\ told[p] = Nothing
    BY <1>2 DEF Resolve, IInv, HandlersKeepInStep, Linked, Waiting
  <2>2. decision[p] # Nothing => decision[p] \in accepted[p] \cap Option
    BY DEF IInv, HandlersKeepInStep, TypeOK
  <2>3. Promise!Tell(p)
    BY <1>2, <2>1, <2>2 DEF Resolve, Promise!Tell
  <2> QED BY <2>1, <2>3 DEF Promise!Next
<1>3. ASSUME NEW p \in Perm, NEW o \in Option \cup {Nothing}, NEW cancel \in BOOLEAN,
             Respond(p, o, cancel)
      PROVE Promise!Next
  <2> DEFINE v == IF cancel THEN Cancelled ELSE o
  <2>1. p \notin AutoApproved /\ accepted[p] = {}
    BY <1>3 DEF Respond, Open, IInv, HandlersKeepInStep
  <2>2. v \in Option \cup {Nothing, Cancelled}
    OBVIOUS
  <2>3. Promise!Vote(p, v)
    BY <1>3, <2>1 DEF Respond, Promise!Vote, IInv, HandlersKeepInStep, TypeOK
  <2> QED BY <2>1, <2>2, <2>3 DEF Promise!Next
<1>4. ASSUME NEW p \in Perm,
             \/ InsertPending(p) \/ WebhookOver(p) \/ Poll(p) \/ HandlerLost(p)
      PROVE UNCHANGED <<accepted, told>>
  BY <1>4 DEF InsertPending, WebhookOver, Poll, HandlerLost
<1>5. CASE UNCHANGED vars
  BY <1>5 DEF vars
<1> QED
  BY <1>1, <1>2, <1>3, <1>4, <1>5 DEF Next, Handler, Finished

\* The handler, the row and the clients together implement PermissionDecision: one
\* vote, one outcome, and the outcome is the vote or a cancellation.
THEOREM PromiseIsKept == Spec => KeepsPromise
<1> QED
  BY InitIInv, NextIInv, InitPromise, NextPromise, PTL
  DEF Spec, KeepsPromise, Promise!Spec
=============================================================================
