--------------------------- MODULE PromptDelivery ---------------------------
(***************************************************************************)
(* What send_prompt promises: a prompt is handed at most once, to a        *)
(* running worker of its own conversation and model; a worker runs its     *)
(* prompts one at a time; and the caller is told one outcome, once: the    *)
(* agent's answer, only after the prompt ran, an error, or an end of the   *)
(* stream without one, when the worker ends with the prompt in its hands.  *)
(* The map of workers, its lock, evictions, watchers, permits, the status  *)
(* column and the shutdown are none of the caller's concern.               *)
(***************************************************************************)
CONSTANTS
  Req,     \* calls of send_prompt, and the workers named by them
  Conv,    \* conversation ids
  Model,   \* model names
  Nobody   \* "no prompt"

VARIABLES
  conv, model,  \* of each request, and of the worker named by it
  fate,         \* what each caller does, or has been told
  life,         \* of each worker
  waiting,      \* the prompts each worker has been handed
  running       \* the one it executes

vars == <<conv, model, fate, life, waiting, running>>
arguments == <<conv, model>>

Init ==
  /\ conv \in [Req -> Conv]
  /\ model \in [Req -> Model]
  /\ fate = [r \in Req |-> "asking"]
  /\ life = [w \in Req |-> "unborn"]
  /\ waiting = [w \in Req |-> {}]
  /\ running = [w \in Req |-> Nobody]

\* The callers among S that still listen are told the outcome.
Tell(S, outcome) ==
  fate' = [r \in Req |-> IF r \in S /\ fate[r] = "await" THEN outcome ELSE fate[r]]

\* A worker is started by a request, for its own conversation and model.
Start(w) ==
  /\ life[w] = "unborn" /\ fate[w] = "asking"
  /\ life' = [life EXCEPT ![w] = "alive"]
  /\ UNCHANGED <<arguments, fate, waiting, running>>

Hand(r, w) ==
  /\ fate[r] = "asking" /\ life[w] = "alive"
  /\ conv[r] = conv[w] /\ model[r] = model[w]
  /\ fate' = [fate EXCEPT ![r] = "await"]
  /\ waiting' = [waiting EXCEPT ![w] = @ \cup {r}]
  /\ UNCHANGED <<arguments, life, running>>

Refuse(r) ==
  /\ fate[r] = "asking"
  /\ fate' = [fate EXCEPT ![r] = "error"]
  /\ UNCHANGED <<arguments, life, waiting, running>>

\* The prompt of a caller that leaves is executed all the same, once handed.
Leave(r) ==
  /\ fate[r] \in {"asking", "await"}
  /\ fate' = [fate EXCEPT ![r] = "cancelled"]
  /\ UNCHANGED <<arguments, life, waiting, running>>

Run(w) ==
  /\ life[w] = "alive" /\ running[w] = Nobody
  /\ \E r \in waiting[w] : /\ running' = [running EXCEPT ![w] = r]
                           /\ waiting' = [waiting EXCEPT ![w] = @ \ {r}]
  /\ UNCHANGED <<arguments, fate, life>>

Answer(w) ==
  /\ life[w] = "alive" /\ running[w] # Nobody
  /\ \E outcome \in {"done", "error"} : Tell({running[w]}, outcome)
  /\ running' = [running EXCEPT ![w] = Nobody]
  /\ UNCHANGED <<arguments, life, waiting>>

End(w) ==
  /\ life[w] = "alive"
  /\ life' = [life EXCEPT ![w] = "gone"]
  /\ Tell(waiting[w] \cup {running[w]}, "empty")
  /\ waiting' = [waiting EXCEPT ![w] = {}]
  /\ running' = [running EXCEPT ![w] = Nobody]
  /\ UNCHANGED arguments

Next ==
  \/ \E r \in Req : Refuse(r) \/ Leave(r) \/ \E w \in Req : Hand(r, w)
  \/ \E w \in Req : Start(w) \/ Run(w) \/ Answer(w) \/ End(w)

Spec == Init /\ [][Next]_vars
=============================================================================
