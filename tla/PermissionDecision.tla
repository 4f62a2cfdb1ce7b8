------------------------- MODULE PermissionDecision -------------------------
(***************************************************************************)
(* What the permission machinery promises: at most one client's vote is    *)
(* accepted for a request, the agent is told one outcome, once, and what   *)
(* it is told is the accepted option or a cancellation.  A cancellation    *)
(* may ignore the vote: the deadline can win.                              *)
(***************************************************************************)
CONSTANTS
  Perm,       \* permission requests
  AutoApproved,       \* those decided without a client, by auto_approve
  Option,     \* option ids
  Nothing,    \* no vote yet, not told yet, or a vote that names no option
  Cancelled

VARIABLES
  vote,  \* the accepted vote on each request
  told   \* what the agent has been told

Vote(p, v) ==
  /\ vote[p] = {}
  /\ vote' = [vote EXCEPT ![p] = {v}]
  /\ UNCHANGED told

Tell(p) ==
  /\ told[p] = Nothing
  /\ \E d \in (vote[p] \cap Option) \cup {Cancelled} : told' = [told EXCEPT ![p] = d]
  /\ UNCHANGED vote

TellDefault(p) ==
  /\ told[p] = Nothing
  /\ \E d \in Option \cup {Cancelled} : told' = [told EXCEPT ![p] = d]
  /\ UNCHANGED vote

Init == vote = [p \in Perm |-> {}] /\ told = [p \in Perm |-> Nothing]

Next ==
  \/ \E p \in AutoApproved : TellDefault(p)
  \/ \E p \in Perm \ AutoApproved :
       Tell(p) \/ \E v \in Option \cup {Nothing, Cancelled} : Vote(p, v)

Spec == Init /\ [][Next]_<<vote, told>>
=============================================================================
