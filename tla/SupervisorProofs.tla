-------------------------- MODULE SupervisorProofs --------------------------
(* Theorems about Supervisor, for all constants that satisfy its assumption. *)
EXTENDS Supervisor, TLAPS

\* An answer to some awaiting callers only moves them to pc.
LEMMA AnswerType ==
  ASSUME TypeOK, NEW S, NEW pc \in Settled, Answer(S, pc)
  PROVE  rpc' \in [Req -> {"new"} \cup Starting \cup {"await"} \cup Settled]
BY DEF TypeOK, Answer

\* A send within capacity keeps every channel a sequence within its capacity.
LEMMA OfferType ==
  ASSUME TypeOK, NEW w, NEW cmd \in Req \cup {Shutdown}, CanSend(w), Offer(w, cmd)
  PROVE  /\ queue' \in [Req -> Seq(Req \cup {Shutdown})]
         /\ \A v \in Req : Len(queue'[v]) <= ChanCap
<1>1. CASE w \in Req /\ worker[w] # "gone"
  <2>1. queue[w] \in Seq(Req \cup {Shutdown}) /\ Len(queue[w]) < ChanCap
    BY <1>1 DEF TypeOK, CanSend
  <2>2. /\ Append(queue[w], cmd) \in Seq(Req \cup {Shutdown})
        /\ Len(Append(queue[w], cmd)) <= ChanCap
    BY <2>1, SupervisorAssumption
  <2>3. queue' = [queue EXCEPT ![w] = Append(queue[w], cmd)]
    BY <1>1 DEF Offer, TypeOK
  <2> QED BY <2>2, <2>3, <1>1 DEF TypeOK
<1>2. CASE w \notin Req \/ worker[w] = "gone"
  <2>1. \A v \in Req : queue'[v] = queue[v]
    BY <1>2 DEF Offer, TypeOK
  <2>2. queue' = [v \in Req |-> queue[v]]
    BY <1>2 DEF Offer, TypeOK
  <2> QED BY <2>1, <2>2 DEF TypeOK
<1> QED BY <1>1, <1>2

\* A request that moves on is at one of send_prompt's places.
Places == {"new"} \cup Starting \cup {"await"} \cup Settled
LEMMA GotoType ==
  ASSUME TypeOK, NEW r, NEW pc \in Places, Goto(r, pc)
  PROVE  rpc' \in [Req -> Places]
<1>1. rpc \in [Req -> Places]
  BY DEF TypeOK, Places
<1> QED BY <1>1 DEF Goto

\* A worker that moves on is in one of the loop's states.
States == {"unborn", "setup", "ready", "busy", "closing", "gone"}
LEMMA WorkerType ==
  ASSUME TypeOK, NEW w, NEW s \in States, worker' = [worker EXCEPT ![w] = s]
  PROVE  worker' \in [Req -> States]
<1>1. worker \in [Req -> States]
  BY DEF TypeOK, States
<1> QED BY <1>1

LEMMA InitType == Init => TypeOK
<1> SUFFICES ASSUME Init PROVE TypeOK
  OBVIOUS
<1>1. <<>> \in Seq(Req \cup {Shutdown}) /\ Len(<<>>) <= ChanCap
  BY SupervisorAssumption
<1>2. /\ queue \in [Req -> Seq(Req \cup {Shutdown})]
      /\ \A w \in Req : Len(queue[w]) <= ChanCap
  BY <1>1 DEF Init
<1>3. status \in [Conv -> {"absent", "active", "dormant"}]
  <2>1. status \in [Conv -> {"absent", "dormant"}]
    BY DEF Init
  <2> QED BY <2>1
<1>4. rpc \in [Req -> {"new"} \cup Starting \cup {"await"} \cup Settled]
  BY DEF Init
<1>5. stopping \in BOOLEAN /\ draining \in SUBSET Req /\ orphans \in SUBSET Conv
  BY DEF Init
<1>6. /\ conversations \in [Conv -> Req \cup {Nobody}]
      /\ lock \in Req \cup {Nobody, Shutdown}
      /\ conv \in [Req -> Conv]
      /\ model \in [Req -> Model]
      /\ handle \in [Req -> Req \cup {Nobody}]
      /\ cur \in [Req -> Req \cup {Nobody}]
  BY DEF Init
<1>7. /\ worker \in [Req -> {"unborn", "setup", "ready", "busy", "closing", "gone"}]
      /\ watcher \in [Req -> {"none", "permit", "watch", "remove", "dormant", "ended"}]
  BY DEF Init
<1> QED BY <1>2, <1>3, <1>4, <1>5, <1>6, <1>7 DEF TypeOK

LEMMA NextType == TypeOK /\ [Next]_vars => TypeOK'
<1> SUFFICES ASSUME TypeOK, [Next]_vars PROVE TypeOK'
  OBVIOUS
<1> USE DEF rows, request, process, shutdown, Goto, Starting, Settled
<1>1. ASSUME NEW r \in Req, Lookup(r) PROVE TypeOK'
  <2>1. conv[r] \in Conv /\ conversations[conv[r]] \in Req \cup {Nobody}
    BY DEF TypeOK
  <2>2. rpc' \in [Req -> Places]
    <3>1. Goto(r, "prepare") \/ Goto(r, "evict") \/ Goto(r, "send")
      BY <1>1 DEF Lookup
    <3> QED BY <3>1, GotoType DEF Places
  <2>3. handle' \in [Req -> Req \cup {Nobody}]
    BY <1>1, <2>1 DEF Lookup, TypeOK
  <2> QED BY <1>1, <2>2, <2>3 DEF Lookup, Places, TypeOK
<1>2. ASSUME NEW r \in Req, EvictRemove(r) PROVE TypeOK'
  <2>1. conversations[conv[r]] \in Req \cup {Nobody}
    BY DEF TypeOK
  <2>2. /\ conversations' \in [Conv -> Req \cup {Nobody}]
        /\ lock' \in Req \cup {Nobody, Shutdown}
    BY <1>2 DEF EvictRemove, Unmap, TypeOK
  <2>3. rpc' \in [Req -> Places]
    <3>1. Goto(r, "prepare") \/ Goto(r, "notify")
      BY <1>2 DEF EvictRemove
    <3> QED BY <3>1, GotoType DEF Places
  <2>4. handle' \in [Req -> Req \cup {Nobody}]
    BY <1>2, <2>1 DEF EvictRemove, TypeOK
  <2> QED BY <1>2, <2>2, <2>3, <2>4 DEF EvictRemove, Places, TypeOK
<1>3. ASSUME NEW r \in Req, EvictNotify(r) PROVE TypeOK'
  <2>1. /\ queue' \in [Req -> Seq(Req \cup {Shutdown})]
        /\ \A v \in Req : Len(queue'[v]) <= ChanCap
    BY <1>3, OfferType DEF EvictNotify
  <2> QED BY <1>3, <2>1 DEF EvictNotify, Released, TypeOK
<1>4. ASSUME NEW r \in Req, Prepare(r) PROVE TypeOK'
  BY <1>4 DEF Prepare, TypeOK
<1>5. ASSUME NEW r \in Req, Upsert(r) PROVE TypeOK'
  <2>1. conv[r] \in Conv
    BY DEF TypeOK
  <2>2. /\ status' \in [Conv -> {"absent", "active", "dormant"}]
        /\ orphans' \in SUBSET Conv
    <3>1. /\ status' = status \/ status' = [status EXCEPT ![conv[r]] = "active"]
          /\ orphans' \in {orphans, orphans \ {conv[r]}, orphans \cup {conv[r]}}
      BY <1>5 DEF Upsert, SetStatus
    <3>2. status \in [Conv -> {"absent", "active", "dormant"}] /\ orphans \in SUBSET Conv
      BY DEF TypeOK
    <3> QED BY <2>1, <3>1, <3>2
  <2>3. rpc' \in [Req -> Places]
    <3>1. Goto(r, "error") \/ Goto(r, "spawn")
      BY <1>5 DEF Upsert
    <3> QED BY <3>1, GotoType DEF Places
  <2> QED BY <1>5, <2>2, <2>3 DEF Upsert, Places, TypeOK
<1>6. ASSUME NEW r \in Req, Spawn(r) PROVE TypeOK'
  BY <1>6 DEF Spawn, TypeOK
<1>7. ASSUME NEW r \in Req, Insert(r) PROVE TypeOK'
  BY <1>7 DEF Insert, TypeOK
<1>8. ASSUME NEW r \in Req, Send(r) PROVE TypeOK'
  <2>1. /\ queue' \in [Req -> Seq(Req \cup {Shutdown})]
        /\ \A v \in Req : Len(queue'[v]) <= ChanCap
    BY <1>8, OfferType DEF Send
  <2> QED BY <1>8, <2>1 DEF Send, TypeOK
<1>9. ASSUME NEW r \in Req, Cancel(r) PROVE TypeOK'
  BY <1>9 DEF Cancel, Released, TypeOK
<1>10. ASSUME NEW w \in Req, SetupDone(w) PROVE TypeOK'
  BY <1>10 DEF SetupDone, TypeOK
<1>11. ASSUME NEW w \in Req, Receive(w) PROVE TypeOK'
  <2>1. queue[w] \in Seq(Req \cup {Shutdown}) /\ Len(queue[w]) <= ChanCap
    BY DEF TypeOK
  <2>2. CASE queue[w] # <<>>
    <3>1. /\ Head(queue[w]) \in Req \cup {Shutdown}
          /\ Tail(queue[w]) \in Seq(Req \cup {Shutdown})
          /\ Len(Tail(queue[w])) <= ChanCap
      BY <2>1, <2>2, SupervisorAssumption
    <3>2. queue' = [queue EXCEPT ![w] = Tail(queue[w])]
      BY <1>11, <2>2 DEF Receive, AfterReceive
    <3>3. /\ queue' \in [Req -> Seq(Req \cup {Shutdown})]
          /\ \A v \in Req : Len(queue'[v]) <= ChanCap
      BY <3>1, <3>2 DEF TypeOK
    <3>4. cur' \in [Req -> Req \cup {Nobody}]
      <4>1. \/ UNCHANGED cur
            \/ Head(queue[w]) \in Req /\ cur' = [cur EXCEPT ![w] = Head(queue[w])]
        BY <1>11, <2>2, <3>1 DEF Receive
      <4> QED BY <4>1 DEF TypeOK
    <3>5. worker' \in [Req -> {"unborn", "setup", "ready", "busy", "closing", "gone"}]
      BY <1>11, <2>2, WorkerType DEF Receive, States
    <3> QED BY <1>11, <3>3, <3>4, <3>5 DEF Receive, TypeOK
  <2>3. CASE queue[w] = <<>>
    <3>1. worker' \in [Req -> {"unborn", "setup", "ready", "busy", "closing", "gone"}]
      BY <1>11, <2>3, WorkerType DEF Receive, AfterIdle, States
    <3> QED BY <1>11, <2>3, <3>1 DEF Receive, TypeOK
  <2> QED BY <2>2, <2>3
<1>12. ASSUME NEW w \in Req, PromptDone(w) PROVE TypeOK'
  BY <1>12, AnswerType DEF PromptDone, SetStatus, TypeOK
<1>13. ASSUME NEW w \in Req, PromptFails(w) PROVE TypeOK'
  BY <1>13, AnswerType DEF PromptFails, SetStatus, TypeOK
<1>14. ASSUME NEW w \in Req, DropReceiver(w) PROVE TypeOK'
  <2>1. rpc' \in [Req -> {"new"} \cup Starting \cup {"await"} \cup Settled]
    BY <1>14, AnswerType DEF DropReceiver
  <2>2. <<>> \in Seq(Req \cup {Shutdown}) /\ Len(<<>>) <= ChanCap
    BY SupervisorAssumption
  <2>3. /\ queue' \in [Req -> Seq(Req \cup {Shutdown})]
        /\ \A v \in Req : Len(queue'[v]) <= ChanCap
    BY <1>14, <2>2 DEF DropReceiver, TypeOK
  <2>4. /\ cur' \in [Req -> Req \cup {Nobody}]
        /\ worker' \in [Req -> {"unborn", "setup", "ready", "busy", "closing", "gone"}]
    BY <1>14 DEF DropReceiver, TypeOK
  <2> QED BY <1>14, <2>1, <2>3, <2>4 DEF DropReceiver, TypeOK
<1>15. ASSUME NEW w \in Req, WatcherStep(w) PROVE TypeOK'
  <2>1. CASE AcquirePermit(w)
    BY <2>1 DEF AcquirePermit, TypeOK
  <2>2. CASE SeeClosed(w)
    BY <2>2 DEF SeeClosed, TypeOK
  <2>3. CASE RemoveEntry(w)
    BY <2>3 DEF RemoveEntry, Unmap, TypeOK
  <2>4. CASE SetDormant(w)
    <3>1. /\ status' = [status EXCEPT ![conv[w]] = "dormant"] \/ status' = status
          /\ orphans' \subseteq orphans \cup {conv[w]}
      BY <2>4 DEF SetDormant, SetStatus
    <3>2. status' \in [Conv -> {"absent", "active", "dormant"}]
      BY <3>1 DEF TypeOK
    <3>3. orphans' \subseteq Conv
      BY <3>1 DEF TypeOK
    <3> QED BY <2>4, <3>2, <3>3 DEF SetDormant, TypeOK
  <2> QED BY <1>15, <2>1, <2>2, <2>3, <2>4 DEF WatcherStep
<1>16. CASE ShutdownAll
  BY <1>16 DEF ShutdownAll, TypeOK
<1>17. ASSUME NEW w \in Req, ShutdownNotify(w) PROVE TypeOK'
  <2>1. /\ queue' \in [Req -> Seq(Req \cup {Shutdown})]
        /\ \A v \in Req : Len(queue'[v]) <= ChanCap
    BY <1>17, OfferType DEF ShutdownNotify
  <2> QED BY <1>17, <2>1 DEF ShutdownNotify, TypeOK
<1>18. CASE UNCHANGED vars
  BY <1>18 DEF vars, TypeOK
<1> QED
  BY <1>1, <1>2, <1>3, <1>4, <1>5, <1>6, <1>7, <1>8, <1>9, <1>10, <1>11, <1>12,
     <1>13, <1>14, <1>15, <1>16, <1>17, <1>18
  DEF Next, RequestStep, WorkerStep, WorkerLost, Close, Finished

\* Type correctness, with the capacity of every command channel (worker.rs:66):
\* no interleaving of sends under and outside the map's lock overfills one.
THEOREM TypeCorrect == Spec => []TypeOK
<1> QED BY InitType, NextType, PTL DEF Spec

-----------------------------------------------------------------------------
(* The write lock of the map: inductive together with TypeOK. *)

LEMMA InitLock == Init => LockHasOwner
BY SupervisorAssumption DEF Init, LockHasOwner

LEMMA NextLock == TypeOK /\ LockHasOwner /\ [Next]_vars => LockHasOwner'
<1> SUFFICES ASSUME TypeOK, LockHasOwner, [Next]_vars PROVE LockHasOwner'
  OBVIOUS
<1> USE SupervisorAssumption DEF rows, request, process, shutdown, Goto, TypeOK, LockHasOwner
<1>1. ASSUME NEW r \in Req, Lookup(r) PROVE LockHasOwner'
  BY <1>1 DEF Lookup
<1>2. ASSUME NEW r \in Req, EvictRemove(r) PROVE LockHasOwner'
  BY <1>2 DEF EvictRemove
<1>3. ASSUME NEW r \in Req, EvictNotify(r) PROVE LockHasOwner'
  BY <1>3 DEF EvictNotify, Released
<1>4. ASSUME NEW r \in Req, Prepare(r) \/ Upsert(r) \/ Spawn(r) \/ Insert(r) \/ Send(r)
      PROVE  LockHasOwner'
  BY <1>4 DEF Prepare, Upsert, Spawn, Insert, Send
<1>5. ASSUME NEW r \in Req, Cancel(r) PROVE LockHasOwner'
  BY <1>5 DEF Cancel, Released
<1>6. ASSUME NEW w \in Req, SetupDone(w) \/ Receive(w) PROVE LockHasOwner'
  BY <1>6 DEF SetupDone, Receive
<1>7. ASSUME NEW w \in Req, PromptDone(w) \/ PromptFails(w) \/ DropReceiver(w)
      PROVE  LockHasOwner'
  BY <1>7 DEF PromptDone, PromptFails, DropReceiver, Answer
<1>8. ASSUME NEW w \in Req, WatcherStep(w) PROVE LockHasOwner'
  BY <1>8 DEF WatcherStep, AcquirePermit, SeeClosed, RemoveEntry, SetDormant
<1>9. CASE ShutdownAll
  BY <1>9 DEF ShutdownAll
<1>10. ASSUME NEW w \in Req, ShutdownNotify(w) PROVE LockHasOwner'
  BY <1>10 DEF ShutdownNotify
<1>11. CASE UNCHANGED vars
  BY <1>11 DEF vars
<1> QED
  BY <1>1, <1>2, <1>3, <1>4, <1>5, <1>6, <1>7, <1>8, <1>9, <1>10, <1>11
  DEF Next, RequestStep, WorkerStep, WorkerLost, Close, Finished

\* The write lock the eviction (supervisor.rs:200) and shutdown_all (supervisor.rs:187)
\* keep while a send waits for room belongs to exactly one of them, which is still there.
THEOREM LockIsOwned == Spec => []LockHasOwner
<1> QED BY InitType, NextType, InitLock, NextLock, PTL DEF Spec

-----------------------------------------------------------------------------
(* Where a prompt can end up. *)

\* w was started for r's conversation and r's model.
Serves(w, r) == conv[w] = conv[r] /\ model[w] = model[r]

\* The invariant behind PromptReachesItsOwnAgent: what the map, the handles of
\* requests about to send, the channels and the workers hold.
Routing ==
  /\ \A c \in Conv : conversations[c] \in Req => conv[conversations[c]] = c
  /\ \A r \in Req : rpc[r] = "insert" => handle[r] = r
  /\ \A r \in Req : rpc[r] = "send" => handle[r] \in Req /\ Serves(handle[r], r)
  /\ \A w \in Req : \A i \in 1..Len(queue[w]) :
       queue[w][i] \in Req => Serves(w, queue[w][i])
  /\ \A w \in Req : cur[w] \in Req => Serves(w, cur[w])

LEMMA RoutingSuffices == TypeOK /\ Routing => PromptReachesItsOwnAgent
BY SupervisorAssumption DEF TypeOK, Routing, Serves, Prompts, PromptReachesItsOwnAgent

LEMMA InitRouting == Init => Routing
BY SupervisorAssumption DEF Init, Routing, Serves

\* A send leaves a channel alone or adds cmd behind what is there.
LEMMA OfferKeeps ==
  ASSUME TypeOK, NEW w, NEW cmd \in Req \cup {Shutdown}, Offer(w, cmd),
         NEW v \in Req, NEW i \in 1..Len(queue'[v])
  PROVE  \/ i \in 1..Len(queue[v]) /\ queue'[v][i] = queue[v][i]
         \/ v = w /\ worker[w] # "gone" /\ i = Len(queue[v]) + 1 /\ queue'[v][i] = cmd
<1>1. queue[v] \in Seq(Req \cup {Shutdown})
  BY DEF TypeOK
<1>2. CASE v = w /\ worker[w] # "gone"
  <2>1. queue'[v] = Append(queue[v], cmd)
    BY <1>2 DEF Offer, TypeOK
  <2> QED BY <1>1, <1>2, <2>1
<1>3. CASE ~(v = w /\ worker[w] # "gone")
  <2>1. queue'[v] = queue[v]
    BY <1>3 DEF Offer, TypeOK
  <2> QED BY <2>1
<1> QED BY <1>2, <1>3

LEMMA NextRouting == TypeOK /\ Routing /\ [Next]_vars => Routing'
<1> SUFFICES ASSUME TypeOK, Routing, [Next]_vars PROVE Routing'
  OBVIOUS
<1> USE SupervisorAssumption DEF rows, request, process, shutdown, Goto, Serves
<1>1. ASSUME NEW r \in Req, Lookup(r) PROVE Routing'
  <2>1. conversations[conv[r]] \in Req \cup {Nobody}
    BY DEF TypeOK
  <2>2. CASE Goto(r, "send")
    <3>1. /\ conversations[conv[r]] \in Req
          /\ model[conversations[conv[r]]] = model[r]
          /\ conv[conversations[conv[r]]] = conv[r]
          /\ handle' = [handle EXCEPT ![r] = conversations[conv[r]]]
      BY <1>1, <2>1, <2>2 DEF Lookup, SameModel, TypeOK, Routing
    <3> QED BY <1>1, <2>2, <3>1 DEF Lookup, TypeOK, Routing
  <2>3. CASE ~Goto(r, "send")
    BY <1>1, <2>3 DEF Lookup, TypeOK, Routing
  <2> QED BY <2>2, <2>3
<1>2. ASSUME NEW r \in Req, EvictRemove(r) PROVE Routing'
  <2>1. CASE conversations[conv[r]] = Nobody
    BY <1>2, <2>1 DEF EvictRemove, TypeOK, Routing
  <2>2. CASE conversations[conv[r]] # Nobody
    <3>1. /\ UNCHANGED <<conv, model, queue, cur>>
          /\ \A q \in Req : rpc'[q] \in {"insert", "send"} =>
               rpc'[q] = rpc[q] /\ handle'[q] = handle[q]
      BY <1>2, <2>2 DEF EvictRemove, TypeOK
    <3>2. \A c \in Conv : conversations'[c] \in {conversations[c], Nobody}
      BY <1>2, <2>2 DEF EvictRemove, Unmap, TypeOK
    <3> QED BY <3>1, <3>2 DEF Routing
  <2> QED BY <2>1, <2>2
<1>3. ASSUME NEW r \in Req, EvictNotify(r) PROVE Routing'
  <2>1. \A w \in Req : \A i \in 1..Len(queue'[w]) :
          queue'[w][i] \in Req => Serves(w, queue'[w][i])
    BY <1>3, OfferKeeps DEF EvictNotify, Routing
  <2> QED BY <1>3, <2>1 DEF EvictNotify, TypeOK, Routing
<1>4. ASSUME NEW r \in Req, Prepare(r) \/ Upsert(r) \/ Spawn(r) PROVE Routing'
  <2>1. CASE Prepare(r)
    BY <2>1 DEF Prepare, TypeOK, Routing
  <2>2. CASE Upsert(r)
    BY <2>2 DEF Upsert, TypeOK, Routing
  <2>3. CASE Spawn(r)
    BY <2>3 DEF Spawn, TypeOK, Routing
  <2> QED BY <1>4, <2>1, <2>2, <2>3
<1>5. ASSUME NEW r \in Req, Insert(r) PROVE Routing'
  BY <1>5 DEF Insert, TypeOK, Routing
<1>6. ASSUME NEW r \in Req, Send(r) PROVE Routing'
  <2>1. \A w \in Req : \A i \in 1..Len(queue'[w]) :
          queue'[w][i] \in Req => Serves(w, queue'[w][i])
    BY <1>6, OfferKeeps DEF Send, Routing
  <2> QED BY <1>6, <2>1 DEF Send, TypeOK, Routing
<1>7. ASSUME NEW r \in Req, Cancel(r) PROVE Routing'
  BY <1>7 DEF Cancel, TypeOK, Routing
<1>8. ASSUME NEW w \in Req, SetupDone(w) PROVE Routing'
  BY <1>8 DEF SetupDone, TypeOK, Routing
<1>9. ASSUME NEW w \in Req, Receive(w) PROVE Routing'
  <2>1. queue[w] \in Seq(Req \cup {Shutdown})
    BY DEF TypeOK
  <2>2. CASE queue[w] # <<>>
    <3>1. /\ \A i \in 1..Len(Tail(queue[w])) :
               i + 1 \in 1..Len(queue[w]) /\ Tail(queue[w])[i] = queue[w][i + 1]
          /\ 1 \in 1..Len(queue[w]) /\ Head(queue[w]) = queue[w][1]
      BY <2>1, <2>2
    <3>2. queue' = [queue EXCEPT ![w] = Tail(queue[w])]
      BY <1>9, <2>2 DEF Receive, AfterReceive
    <3>3. \A v \in Req : \A i \in 1..Len(queue'[v]) :
            queue'[v][i] \in Req => Serves(v, queue'[v][i])
      BY <3>1, <3>2 DEF TypeOK, Routing
    <3>4. \A v \in Req : cur'[v] \in Req => Serves(v, cur'[v])
      <4>1. Head(queue[w]) \in Req => Serves(w, Head(queue[w]))
        BY <3>1 DEF Routing
      <4>2. \A v \in Req : cur'[v] = cur[v] \/ (v = w /\ cur'[v] = Head(queue[w]))
        <5>1. cur' = cur \/ cur' = [cur EXCEPT ![w] = Head(queue[w])]
          BY <1>9, <2>2 DEF Receive
        <5> QED BY <5>1 DEF TypeOK
      <4>3. UNCHANGED <<conv, model>>
        BY <1>9 DEF Receive
      <4> QED BY <4>1, <4>2, <4>3 DEF Routing
    <3>5. UNCHANGED <<conversations, conv, model, rpc, handle>>
      BY <1>9 DEF Receive
    <3> QED BY <3>3, <3>4, <3>5 DEF Routing
  <2>3. CASE queue[w] = <<>>
    BY <1>9, <2>3 DEF Receive, TypeOK, Routing
  <2> QED BY <2>2, <2>3
<1>10. ASSUME NEW w \in Req, PromptDone(w) \/ PromptFails(w) PROVE Routing'
  <2>1. \A r \in Req : rpc'[r] \in {"insert", "send"} => rpc'[r] = rpc[r]
    BY <1>10 DEF PromptDone, PromptFails, Answer
  <2>2. /\ UNCHANGED <<conversations, conv, model, handle, queue>>
        /\ \A v \in Req : cur'[v] \in {cur[v], Nobody}
    BY <1>10 DEF PromptDone, PromptFails, TypeOK
  <2> QED BY <2>1, <2>2 DEF Routing
<1>11. ASSUME NEW w \in Req, DropReceiver(w) PROVE Routing'
  <2>1. \A r \in Req : rpc'[r] \in {"insert", "send"} => rpc'[r] = rpc[r]
    BY <1>11 DEF DropReceiver, Answer, TypeOK
  <2>2. \A v \in Req : queue'[v] = queue[v] \/ 1..Len(queue'[v]) = {}
    BY <1>11 DEF DropReceiver, TypeOK
  <2> QED BY <1>11, <2>1, <2>2 DEF DropReceiver, TypeOK, Routing
<1>12. ASSUME NEW w \in Req, WatcherStep(w) PROVE Routing'
  <2>1. CASE RemoveEntry(w)
    BY <2>1 DEF RemoveEntry, Unmap, TypeOK, Routing
  <2>2. CASE AcquirePermit(w) \/ SeeClosed(w) \/ SetDormant(w)
    BY <2>2 DEF AcquirePermit, SeeClosed, SetDormant, Routing
  <2> QED BY <1>12, <2>1, <2>2 DEF WatcherStep
<1>13. CASE ShutdownAll
  BY <1>13 DEF ShutdownAll, TypeOK, Routing
<1>14. ASSUME NEW w \in Req, ShutdownNotify(w) PROVE Routing'
  <2>1. \A v \in Req : \A i \in 1..Len(queue'[v]) :
          queue'[v][i] \in Req => Serves(v, queue'[v][i])
    BY <1>14, OfferKeeps DEF ShutdownNotify, Routing
  <2> QED BY <1>14, <2>1 DEF ShutdownNotify, TypeOK, Routing
<1>15. CASE UNCHANGED vars
  BY <1>15 DEF vars, Routing
<1> QED
  BY <1>1, <1>2, <1>3, <1>4, <1>5, <1>6, <1>7, <1>8, <1>9, <1>10, <1>11, <1>12,
     <1>13, <1>14, <1>15
  DEF Next, RequestStep, WorkerStep, WorkerLost, Close, Finished

\* A prompt waits in, or is executed by, a worker of its own conversation and model,
\* however evictions (supervisor.rs:194), overwritten entries (supervisor.rs:292) and
\* handles looked up earlier (supervisor.rs:146) interleave.
THEOREM PromptsAreRouted == Spec => []PromptReachesItsOwnAgent
<1> QED
  BY InitType, NextType, InitRouting, NextRouting, RoutingSuffices, PTL DEF Spec

-----------------------------------------------------------------------------
(* Who clears a row that says 'active'. *)

\* The lives of a request, its worker and its watcher, in step.
Paced ==
  /\ \A r \in Req : rpc[r] \in {"new", "evict", "notify", "prepare", "update", "create", "spawn"}
       => worker[r] = "unborn"
  /\ \A w \in Req : worker[w] = "unborn" <=> watcher[w] = "none"
  /\ \A w \in Req : watcher[w] \in {"remove", "dormant", "ended"} => worker[w] = "gone"

\* r's tasks have it before them to set c's row dormant.
Keeps(r, c) ==
  /\ conv[r] = c
  /\ rpc[r] = "spawn" \/ watcher[r] \notin {"none", "ended"}

LEMMA InitPaced == Init => Paced /\ ActiveRowHasKeeper
BY DEF Init, Paced, ActiveRowHasKeeper

LEMMA NextPaced == TypeOK /\ Paced /\ [Next]_vars => Paced'
<1> SUFFICES ASSUME TypeOK, Paced, [Next]_vars PROVE Paced'
  OBVIOUS
<1> USE DEF rows, request, process, shutdown, Goto
<1>1. ASSUME NEW r \in Req, Lookup(r) \/ EvictRemove(r) \/ EvictNotify(r) \/ Prepare(r)
      PROVE  Paced'
  <2>1. /\ UNCHANGED <<worker, watcher>>
        /\ rpc[r] \in {"new", "evict", "notify", "prepare"}
        /\ \A q \in Req \ {r} : rpc'[q] = rpc[q]
    BY <1>1 DEF Lookup, EvictRemove, EvictNotify, Prepare, TypeOK
  <2> QED BY <2>1 DEF Paced
<1>2. ASSUME NEW r \in Req, Upsert(r) \/ Insert(r) \/ Send(r) \/ Cancel(r)
      PROVE  Paced'
  <2>1. /\ UNCHANGED <<worker, watcher>>
        /\ rpc'[r] \in {"error", "send", "await", "cancelled"} \/ rpc[r] \in {"update", "create"}
        /\ \A q \in Req \ {r} : rpc'[q] = rpc[q]
    BY <1>2 DEF Upsert, Insert, Send, Cancel, TypeOK
  <2> QED BY <2>1 DEF Paced
<1>3. ASSUME NEW r \in Req, Spawn(r) PROVE Paced'
  BY <1>3 DEF Spawn, TypeOK, Paced
<1>4. ASSUME NEW w \in Req, SetupDone(w) \/ Receive(w) PROVE Paced'
  <2>1. /\ UNCHANGED <<rpc, watcher>>
        /\ worker[w] \in {"setup", "ready"} /\ worker'[w] \notin {"unborn", "gone"}
        /\ \A v \in Req \ {w} : worker'[v] = worker[v]
    BY <1>4 DEF SetupDone, Receive, AfterIdle, TypeOK
  <2> QED BY <2>1 DEF Paced
<1>5. ASSUME NEW w \in Req, PromptDone(w) \/ PromptFails(w) \/ DropReceiver(w)
      PROVE  Paced'
  <2>1. \A r \in Req : rpc'[r] \notin Settled => rpc'[r] = rpc[r]
    BY <1>5 DEF PromptDone, PromptFails, DropReceiver, Answer, Settled
  <2>2. /\ UNCHANGED watcher
        /\ worker[w] \in {"setup", "ready", "busy", "closing"}
        /\ worker'[w] = "gone" \/ (worker[w] = "busy" /\ worker'[w] = "ready")
        /\ \A v \in Req \ {w} : worker'[v] = worker[v]
    BY <1>5 DEF PromptDone, PromptFails, DropReceiver, Live, TypeOK
  <2> QED BY <2>1, <2>2 DEF Paced, Settled
<1>6. ASSUME NEW w \in Req, WatcherStep(w) PROVE Paced'
  <2>1. /\ UNCHANGED <<rpc, worker>>
        /\ watcher[w] # "none" /\ watcher'[w] # "none"
        /\ worker[w] = "gone" \/ watcher'[w] = "watch" \/ watcher[w] \in {"remove", "dormant"}
        /\ \A v \in Req \ {w} : watcher'[v] = watcher[v]
    BY <1>6 DEF WatcherStep, AcquirePermit, SeeClosed, RemoveEntry, SetDormant, TypeOK
  <2> QED BY <2>1 DEF Paced
<1>7. CASE ShutdownAll \/ UNCHANGED vars
  BY <1>7 DEF ShutdownAll, vars, Paced
<1>8. ASSUME NEW w \in Req, ShutdownNotify(w) PROVE Paced'
  BY <1>8 DEF ShutdownNotify, Paced
<1> QED
  BY <1>1, <1>2, <1>3, <1>4, <1>5, <1>6, <1>7, <1>8
  DEF Next, RequestStep, WorkerStep, WorkerLost, Close, Finished

\* A request or its watcher lets go of a row only in set_dormant, or orphans it.
LEMMA KeeperStays ==
  ASSUME TypeOK, Paced, [Next]_vars, NEW r \in Req, NEW c \in Conv, Keeps(r, c),
         ~SetDormant(r), c \notin orphans'
  PROVE  Keeps(r, c)'
<1> USE DEF rows, request, process, shutdown, Goto
<1>1. ASSUME NEW q \in Req, Lookup(q) \/ RequestStep(q) \/ Cancel(q) PROVE Keeps(r, c)'
  <2>1. CASE Spawn(q)
    BY <2>1 DEF Spawn, Keeps, TypeOK
  <2>2. CASE Cancel(q)
    <3>1. q = r => rpc[r] # "spawn"
      BY <2>2 DEF Cancel, Keeps, TypeOK
    <3>2. /\ UNCHANGED <<conv, watcher>>
          /\ \A p \in Req \ {q} : rpc'[p] = rpc[p]
      BY <2>2 DEF Cancel, TypeOK
    <3> QED BY <3>1, <3>2 DEF Keeps
  <2>3. CASE Lookup(q) \/ EvictRemove(q) \/ EvictNotify(q) \/ Prepare(q) \/ Upsert(q)
             \/ Insert(q) \/ Send(q)
    <3>1. /\ UNCHANGED <<conv, watcher>>
          /\ rpc[q] # "spawn"
          /\ \A p \in Req \ {q} : rpc'[p] = rpc[p]
      BY <2>3 DEF Lookup, EvictRemove, EvictNotify, Prepare, Upsert, Insert, Send, TypeOK
    <3> QED BY <3>1 DEF Keeps
  <2> QED BY <1>1, <2>1, <2>2, <2>3 DEF RequestStep
<1>2. ASSUME NEW w \in Req, WorkerStep(w) \/ WorkerLost(w) PROVE Keeps(r, c)'
  <2>1. \A p \in Req : rpc[p] = "spawn" => rpc'[p] = rpc[p]
    BY <1>2 DEF WorkerStep, WorkerLost, Close, SetupDone, Receive, PromptDone, PromptFails,
                DropReceiver, Answer
  <2>2. UNCHANGED <<conv, watcher>>
    BY <1>2 DEF WorkerStep, WorkerLost, Close, SetupDone, Receive, PromptDone, PromptFails,
                DropReceiver
  <2> QED BY <2>1, <2>2 DEF Keeps
<1>3. ASSUME NEW w \in Req, WatcherStep(w) PROVE Keeps(r, c)'
  <2>1. /\ UNCHANGED <<conv, rpc>>
        /\ watcher[w] # "none"
        /\ watcher'[w] \notin {"none", "ended"} \/ SetDormant(w)
        /\ \A v \in Req \ {w} : watcher'[v] = watcher[v]
    BY <1>3 DEF WatcherStep, AcquirePermit, SeeClosed, RemoveEntry, SetDormant, TypeOK
  <2> QED BY <2>1 DEF Keeps
<1>4. CASE ShutdownAll \/ UNCHANGED vars \/ \E w \in Req : ShutdownNotify(w)
  BY <1>4 DEF ShutdownAll, ShutdownNotify, vars, Keeps
<1> QED BY <1>1, <1>2, <1>3, <1>4 DEF Next, Finished

\* Apart from the writes that leave a keeper of their own, no step makes c's row say
\* 'active', or takes c out of the orphans while it says so.
LEMMA RowWasActive ==
  ASSUME TypeOK, [Next]_vars, NEW c \in Conv, status'[c] = "active", c \notin orphans',
         \A r \in Req : Upsert(r) /\ conv[r] = c => rpc'[r] # "spawn",
         \A w \in Req : PromptDone(w) \/ PromptFails(w) => conv[w] # c
  PROVE  status[c] = "active" /\ c \notin orphans
<1> USE DEF rows, request, process, shutdown, Goto
<1>1. CASE UNCHANGED rows
  BY <1>1
<1>2. ASSUME NEW r \in Req, Upsert(r) PROVE status[c] = "active" /\ c \notin orphans
  <2>1. CASE conv[r] = c
    <3>1. UNCHANGED rows
      BY <1>2, <2>1 DEF Upsert, TypeOK
    <3> QED BY <3>1
  <2>2. CASE conv[r] # c
    <3>1. status'[c] = status[c] /\ (c \in orphans => c \in orphans')
      BY <1>2, <2>2 DEF Upsert, SetStatus, TypeOK
    <3> QED BY <3>1
  <2> QED BY <2>1, <2>2
<1>3. ASSUME NEW v \in Req, PromptDone(v) \/ PromptFails(v)
      PROVE  status[c] = "active" /\ c \notin orphans
  BY <1>3 DEF PromptDone, PromptFails, SetStatus, TypeOK
<1>4. ASSUME NEW v \in Req, SetDormant(v) PROVE status[c] = "active" /\ c \notin orphans
  <2>1. CASE conv[v] = c
    <3>1. UNCHANGED status /\ orphans' = orphans \cup {c}
      BY <1>4, <2>1 DEF SetDormant, SetStatus, TypeOK
    <3> QED BY <3>1
  <2>2. CASE conv[v] # c
    <3>1. status'[c] = status[c] /\ (c \in orphans => c \in orphans')
      BY <1>4, <2>2 DEF SetDormant, SetStatus, TypeOK
    <3> QED BY <3>1
  <2> QED BY <2>1, <2>2
<1>5. ASSUME NEW r \in Req, Cancel(r) PROVE status[c] = "active" /\ c \notin orphans
  BY <1>5 DEF Cancel
<1> QED
  BY <1>1, <1>2, <1>3, <1>4, <1>5
  DEF Next, RequestStep, WorkerStep, WorkerLost, Close, WatcherStep, Finished, vars,
      Lookup, EvictRemove, EvictNotify, Prepare, Spawn, Insert, Send, SetupDone,
      Receive, DropReceiver, AcquirePermit, SeeClosed, RemoveEntry,
      ShutdownAll, ShutdownNotify

LEMMA NextKeeper ==
  TypeOK /\ Paced /\ ActiveRowHasKeeper /\ [Next]_vars => ActiveRowHasKeeper'
<1> SUFFICES ASSUME TypeOK, Paced, ActiveRowHasKeeper, [Next]_vars,
                    NEW c \in Conv, c \notin orphans', status'[c] = "active"
             PROVE  \E r \in Req : Keeps(r, c)'
  BY DEF ActiveRowHasKeeper, Keeps
<1> USE DEF rows, request, process, shutdown, Goto
<1>1. CASE \E r \in Req : Upsert(r) /\ conv[r] = c /\ rpc'[r] = "spawn"
  <2>1. PICK r \in Req : Upsert(r) /\ conv[r] = c /\ rpc'[r] = "spawn"
    BY <1>1
  <2>2. conv'[r] = c
    BY <2>1 DEF Upsert
  <2> QED BY <2>1, <2>2 DEF Keeps
<1>2. CASE \E w \in Req : (PromptDone(w) \/ PromptFails(w)) /\ conv[w] = c
  <2>1. PICK w \in Req : (PromptDone(w) \/ PromptFails(w)) /\ conv[w] = c
    BY <1>2
  <2>2. watcher[w] \notin {"none", "ended"}
    BY <2>1 DEF PromptDone, PromptFails, Paced
  <2>3. watcher'[w] = watcher[w] /\ conv'[w] = c
    BY <2>1 DEF PromptDone, PromptFails
  <2> QED BY <2>2, <2>3 DEF Keeps
<1>3. CASE ~(\E r \in Req : Upsert(r) /\ conv[r] = c /\ rpc'[r] = "spawn")
           /\ ~(\E w \in Req : (PromptDone(w) \/ PromptFails(w)) /\ conv[w] = c)
  <2>1. status[c] = "active" /\ c \notin orphans
    BY <1>3, RowWasActive
  <2>2. PICK r \in Req : Keeps(r, c)
    BY <2>1 DEF ActiveRowHasKeeper, Keeps
  <2>3. ~SetDormant(r)
    <3>1. SUFFICES ASSUME SetDormant(r) PROVE FALSE
      OBVIOUS
    <3>2. conv[r] = c
      BY <2>2 DEF Keeps
    <3> QED BY <3>1, <3>2 DEF SetDormant, SetStatus, TypeOK
  <2> QED BY <2>2, <2>3, KeeperStays
<1> QED BY <1>1, <1>2, <1>3

\* As long as a conversation's row says 'active' (conversations.rs:58, 74), some watcher
\* has set_dormant (supervisor.rs:288) still before it, but for the rows orphaned by a
\* start that ended before spawn_worker or by a set_dormant that failed.
THEOREM ActiveRowsAreKept == Spec => []ActiveRowHasKeeper
<1> QED
  BY InitType, NextType, InitPaced, NextPaced, NextKeeper, PTL DEF Spec

-----------------------------------------------------------------------------
(* What channels hold, and how the steps that touch them change it. *)

\* A command x waits in w's channel.
Queued(w, x) == \E i \in 1..Len(queue[w]) : queue[w][i] = x

\* No command waits twice in a channel.
Distinct(q) == \A i, j \in 1..Len(q) : q[i] = q[j] => i = j

LEMMA PromptsQueued ==
  ASSUME TypeOK, NEW w \in Req, NEW r \in Req
  PROVE  r \in Prompts(w) <=> Queued(w, r)
<1>1. queue[w] \in Seq(Req \cup {Shutdown}) /\ r # Shutdown
  BY SupervisorAssumption DEF TypeOK
<1>2. DOMAIN queue[w] = 1..Len(queue[w])
  BY <1>1
<1> QED BY <1>1, <1>2 DEF Prompts, Queued

\* A send adds its command, unless the receiver is gone.
LEMMA OfferQueued ==
  ASSUME TypeOK, NEW w, NEW cmd \in Req \cup {Shutdown}, Offer(w, cmd), NEW v \in Req, NEW x
  PROVE  Queued(v, x)' <=> Queued(v, x) \/ (v = w /\ worker[w] # "gone" /\ x = cmd)
<1>1. queue[v] \in Seq(Req \cup {Shutdown})
  BY DEF TypeOK
<1>2. CASE v = w /\ worker[w] # "gone"
  <2>1. queue'[v] = Append(queue[v], cmd)
    BY <1>2 DEF Offer, TypeOK
  <2>2. /\ Len(queue[v]) \in Nat /\ Len(queue'[v]) = Len(queue[v]) + 1
        /\ \A i \in 1..Len(queue[v]) : queue'[v][i] = queue[v][i]
        /\ queue'[v][Len(queue[v]) + 1] = cmd
    BY <1>1, <2>1
  <2>3. 1..Len(queue'[v]) = 1..Len(queue[v]) \cup {Len(queue[v]) + 1}
    BY <2>2
  <2> QED BY <1>2, <2>2, <2>3 DEF Queued
<1>3. CASE ~(v = w /\ worker[w] # "gone")
  <2>1. queue'[v] = queue[v]
    BY <1>3 DEF Offer, TypeOK
  <2> QED BY <1>3, <2>1 DEF Queued
<1> QED BY <1>2, <1>3

\* ... and waits there once, if it did not wait there before.
LEMMA OfferDistinct ==
  ASSUME TypeOK, NEW w, NEW cmd \in Req \cup {Shutdown}, Offer(w, cmd), NEW v \in Req,
         Distinct(queue[v]), v = w => ~Queued(w, cmd)
  PROVE  Distinct(queue'[v])
<1>1. queue[v] \in Seq(Req \cup {Shutdown})
  BY DEF TypeOK
<1>2. CASE v = w /\ worker[w] # "gone"
  <2>1. queue'[v] = Append(queue[v], cmd)
    BY <1>2 DEF Offer, TypeOK
  <2>2. /\ Len(queue[v]) \in Nat /\ Len(queue'[v]) = Len(queue[v]) + 1
        /\ \A i \in 1..Len(queue[v]) : queue'[v][i] = queue[v][i]
        /\ queue'[v][Len(queue[v]) + 1] = cmd
    BY <1>1, <2>1
  <2>3. 1..Len(queue'[v]) = 1..Len(queue[v]) \cup {Len(queue[v]) + 1}
    BY <2>2
  <2>4. \A i \in 1..Len(queue[v]) : queue'[v][i] # cmd
    BY <1>2, <2>2 DEF Queued
  <2>5. ASSUME NEW i \in 1..Len(queue'[v]), NEW j \in 1..Len(queue'[v]), queue'[v][i] = queue'[v][j]
        PROVE  i = j
    <3>1. CASE i \in 1..Len(queue[v]) /\ j \in 1..Len(queue[v])
      BY <2>2, <2>5, <3>1 DEF Distinct
    <3>2. CASE i \notin 1..Len(queue[v]) \/ j \notin 1..Len(queue[v])
      BY <2>2, <2>3, <2>4, <2>5, <3>2
    <3> QED BY <3>1, <3>2
  <2> QED BY <2>5 DEF Distinct
<1>3. CASE ~(v = w /\ worker[w] # "gone")
  BY <1>3 DEF Offer, TypeOK
<1> QED BY <1>2, <1>3

\* A worker takes the first command of its channel, and no other.
LEMMA TakesHead ==
  ASSUME TypeOK, NEW w \in Req, queue[w] # <<>>,
         queue' = [queue EXCEPT ![w] = AfterReceive(@)], NEW v \in Req, NEW x
  PROVE  /\ Queued(w, Head(queue[w])) /\ Head(queue[w]) \in Req \cup {Shutdown}
         /\ Queued(v, x)' => Queued(v, x)
         /\ Queued(v, x) => Queued(v, x)' \/ (v = w /\ x = Head(queue[w]))
         /\ Distinct(queue[v]) => /\ Distinct(queue'[v])
                                  /\ Queued(v, x)' => ~(v = w /\ x = Head(queue[w]))
<1>1. queue[w] \in Seq(Req \cup {Shutdown})
  BY DEF TypeOK
<1>2. queue'[w] = Tail(queue[w]) /\ (v # w => queue'[v] = queue[v])
  BY DEF TypeOK, AfterReceive
<1>3. /\ Head(queue[w]) = queue[w][1] /\ 1 \in 1..Len(queue[w])
      /\ queue[w][1] \in Req \cup {Shutdown}
      /\ Len(queue[w]) \in Nat /\ Len(queue'[w]) = Len(queue[w]) - 1
      /\ \A i \in 1..Len(queue'[w]) :
           i + 1 \in 1..Len(queue[w]) /\ queue'[w][i] = queue[w][i + 1]
  <2>1. /\ Head(queue[w]) = queue[w][1] /\ 1 \in 1..Len(queue[w])
        /\ Len(queue[w]) \in Nat /\ Len(Tail(queue[w])) = Len(queue[w]) - 1
    BY <1>1
  <2>2. \A i \in 1..Len(Tail(queue[w])) :
          i + 1 \in 1..Len(queue[w]) /\ Tail(queue[w])[i] = queue[w][i + 1]
    BY <1>1
  <2>3. queue[w][1] \in Req \cup {Shutdown}
    BY <1>1, <2>1
  <2> QED BY <1>2, <2>1, <2>2, <2>3
<1>4. Queued(w, Head(queue[w])) /\ Head(queue[w]) \in Req \cup {Shutdown}
  BY <1>3 DEF Queued
<1>5. CASE v = w
  <2>1. ASSUME Queued(w, x)'
        PROVE  Queued(w, x) /\ (Distinct(queue[w]) => x # Head(queue[w]))
    <3>1. PICK i \in 1..Len(queue'[w]) : queue'[w][i] = x
      BY <2>1 DEF Queued
    <3>2. i + 1 \in 1..Len(queue[w]) /\ queue[w][i + 1] = x /\ i + 1 # 1
      BY <1>3, <3>1
    <3> QED BY <1>3, <3>2 DEF Queued, Distinct
  <2>2. ASSUME Queued(w, x), x # Head(queue[w]) PROVE Queued(w, x)'
    <3>1. PICK i \in 1..Len(queue[w]) : queue[w][i] = x
      BY <2>2 DEF Queued
    <3>2. i - 1 \in 1..Len(queue'[w]) /\ queue'[w][i - 1] = queue[w][(i - 1) + 1]
      BY <1>3, <2>2, <3>1
    <3> QED BY <3>1, <3>2 DEF Queued
  <2>3. ASSUME Distinct(queue[w]), NEW i \in 1..Len(queue'[w]), NEW j \in 1..Len(queue'[w]),
               queue'[w][i] = queue'[w][j]
        PROVE  i = j
    <3>1. i + 1 \in 1..Len(queue[w]) /\ j + 1 \in 1..Len(queue[w])
          /\ queue[w][i + 1] = queue[w][j + 1]
      BY <1>3, <2>3
    <3>2. i + 1 = j + 1
      BY <2>3, <3>1 DEF Distinct
    <3> QED BY <3>2
  <2>4. Distinct(queue[w]) => Distinct(queue'[w])
    BY <2>3 DEF Distinct
  <2> QED BY <1>4, <1>5, <2>1, <2>2, <2>4
<1>6. CASE v # w
  BY <1>2, <1>4, <1>6 DEF Queued
<1> QED BY <1>5, <1>6

\* A dropped receiver takes its channel with it.
LEMMA DropEmpties ==
  ASSUME TypeOK, NEW w \in Req, DropReceiver(w), NEW v \in Req, NEW x
  PROVE  /\ Queued(v, x)' <=> Queued(v, x) /\ v # w
         /\ Distinct(queue[v]) => Distinct(queue'[v])
<1>1. queue'[w] = <<>> /\ (v # w => queue'[v] = queue[v])
  BY DEF DropReceiver, TypeOK
<1>2. 1..Len(<<>>) = {}
  OBVIOUS
<1> QED BY <1>1, <1>2 DEF Queued, Distinct


-----------------------------------------------------------------------------
(* Which workers have been told to stop. *)

BeforeInsert == {"new", "evict", "notify", "prepare", "update", "create", "spawn", "insert"}

Notified(w) == \E r \in Req : rpc[r] = "notify" /\ handle[r] = w

\* w was told to stop, or somebody holds the lock who will tell it.
Condemned(w) == Queued(w, Shutdown) \/ w \in draining \/ Notified(w)

\* Workers that are named by the map or by a handle about to be used have been spawned.
Spawned ==
  /\ \A c \in Conv : conversations[c] \in Req => worker[conversations[c]] # "unborn"
  /\ \A r \in Req : rpc[r] = "insert" => worker[r] # "unborn"
  /\ \A r \in Req : rpc[r] = "send" => worker[handle[r]] # "unborn"

\* The invariant behind MappedWorkerIsNotDoomed: a worker is condemned once, when it
\* leaves the map, and it enters the map once, before it can be condemned.
Doom ==
  /\ \A c \in Conv : conversations[c] \in Req => ~Condemned(conversations[c])
  /\ \A r \in Req : rpc[r] \in BeforeInsert =>
       ~Condemned(r) /\ \A c \in Conv : conversations[c] # r
  /\ \A w \in Req : Queued(w, Shutdown) => w \notin draining /\ ~Notified(w)

LEMMA DoomSuffices == TypeOK /\ Spawned /\ Doom => MappedWorkerIsNotDoomed
<1> SUFFICES ASSUME TypeOK, Spawned, Doom, NEW c \in Conv, conversations[c] # Nobody
             PROVE  /\ \A i \in DOMAIN queue[conversations[c]] :
                         queue[conversations[c]][i] # Shutdown
                    /\ worker[conversations[c]] # "unborn"
                    /\ conversations[c] \notin draining
                    /\ \A r \in Req : rpc[r] = "notify" => handle[r] # conversations[c]
  BY DEF MappedWorkerIsNotDoomed
<1>1. conversations[c] \in Req
  BY DEF TypeOK
<1>2. DOMAIN queue[conversations[c]] = 1..Len(queue[conversations[c]])
  BY <1>1 DEF TypeOK
<1> QED BY <1>1, <1>2 DEF Spawned, Doom, Condemned, Notified, Queued

LEMMA InitDoom == Init => Spawned /\ Doom
<1> SUFFICES ASSUME Init PROVE Spawned /\ Doom
  OBVIOUS
<1>1. \A w \in Req : ~Queued(w, Shutdown)
  BY DEF Init, Queued
<1>2. \A w \in Req : ~Condemned(w)
  BY <1>1 DEF Init, Condemned, Notified
<1> QED BY <1>1, <1>2, SupervisorAssumption DEF Init, Spawned, Doom

LEMMA NextSpawned == TypeOK /\ Routing /\ Spawned /\ [Next]_vars => Spawned'
<1> SUFFICES ASSUME TypeOK, Routing, Spawned, [Next]_vars PROVE Spawned'
  OBVIOUS
<1> USE SupervisorAssumption DEF rows, request, process, shutdown, Goto
<1>1. ASSUME NEW r \in Req, Lookup(r) PROVE Spawned'
  <2>1. conversations[conv[r]] \in Req \cup {Nobody}
    BY DEF TypeOK
  <2>2. /\ UNCHANGED <<worker, conversations>>
        /\ \A q \in Req \ {r} : rpc'[q] = rpc[q] /\ handle'[q] = handle[q]
        /\ rpc'[r] # "insert"
        /\ rpc'[r] = "send" => handle'[r] = conversations[conv[r]] /\ handle'[r] \in Req
    BY <1>1, <2>1 DEF Lookup, TypeOK
  <2>3. conv[r] \in Conv
    BY DEF TypeOK
  <2> QED BY <2>2, <2>3 DEF Spawned
<1>2. ASSUME NEW r \in Req, EvictRemove(r) PROVE Spawned'
  <2>1. /\ UNCHANGED worker
        /\ \A q \in Req : rpc'[q] \in {"insert", "send"} =>
             rpc'[q] = rpc[q] /\ handle'[q] = handle[q]
        /\ \A c \in Conv : conversations'[c] \in {conversations[c], Nobody}
    BY <1>2 DEF EvictRemove, Unmap, TypeOK
  <2> QED BY <2>1 DEF Spawned
<1>3. ASSUME NEW r \in Req, EvictNotify(r) \/ Prepare(r) \/ Upsert(r) \/ Cancel(r)
      PROVE  Spawned'
  <2>1. /\ UNCHANGED <<worker, conversations>>
        /\ \A q \in Req : rpc'[q] \in {"insert", "send"} =>
             rpc'[q] = rpc[q] /\ handle'[q] = handle[q]
    BY <1>3 DEF EvictNotify, Prepare, Upsert, Cancel, TypeOK
  <2> QED BY <2>1 DEF Spawned
<1>4. ASSUME NEW r \in Req, Spawn(r) PROVE Spawned'
  <2>1. /\ UNCHANGED conversations
        /\ \A v \in Req : worker[v] # "unborn" => worker'[v] # "unborn"
        /\ worker'[r] # "unborn"
        /\ \A q \in Req \ {r} : rpc'[q] = rpc[q] /\ handle'[q] = handle[q]
        /\ rpc'[r] = "insert"
    BY <1>4 DEF Spawn, TypeOK
  <2>2. \A q \in Req : rpc[q] = "send" => handle[q] \in Req
    BY DEF Routing
  <2> QED BY <2>1, <2>2 DEF Spawned
<1>5. ASSUME NEW r \in Req, Insert(r) PROVE Spawned'
  <2>1. worker[r] # "unborn" /\ handle[r] = r
    BY <1>5 DEF Insert, Spawned, Routing
  <2> QED BY <1>5, <2>1 DEF Insert, TypeOK, Spawned
<1>6. ASSUME NEW r \in Req, Send(r) PROVE Spawned'
  BY <1>6 DEF Send, TypeOK, Spawned
<1>7. ASSUME NEW w \in Req, WorkerStep(w) \/ WorkerLost(w) PROVE Spawned'
  <2>1. \A r \in Req : rpc'[r] \in {"insert", "send"} => rpc'[r] = rpc[r]
    BY <1>7 DEF WorkerStep, WorkerLost, Close, SetupDone, Receive, PromptDone, PromptFails,
                DropReceiver, Answer
  <2>2. /\ UNCHANGED <<conversations, handle>>
        /\ \A v \in Req : worker'[v] = "unborn" => worker[v] = "unborn"
    BY <1>7 DEF WorkerStep, WorkerLost, Close, SetupDone, Receive, AfterIdle, PromptDone,
                PromptFails, DropReceiver, TypeOK
  <2>3. \A q \in Req : rpc[q] = "send" => handle[q] \in Req
    BY DEF Routing
  <2> QED BY <2>1, <2>2, <2>3 DEF Spawned
<1>8. ASSUME NEW w \in Req, WatcherStep(w) PROVE Spawned'
  <2>1. /\ UNCHANGED <<worker, rpc, handle>>
        /\ \A c \in Conv : conversations'[c] \in {conversations[c], Nobody}
    BY <1>8 DEF WatcherStep, AcquirePermit, SeeClosed, RemoveEntry, SetDormant, Unmap, TypeOK
  <2> QED BY <2>1 DEF Spawned
<1>9. CASE ShutdownAll
  BY <1>9 DEF ShutdownAll, Spawned
<1>10. CASE UNCHANGED vars \/ \E w \in Req : ShutdownNotify(w)
  BY <1>10 DEF ShutdownNotify, vars, Spawned
<1> QED
  BY <1>1, <1>2, <1>3, <1>4, <1>5, <1>6, <1>7, <1>8, <1>9, <1>10
  DEF Next, RequestStep, Finished

LEMMA NextDoom ==
  TypeOK /\ LockHasOwner /\ Routing /\ Doom /\ [Next]_vars => Doom'
<1> SUFFICES ASSUME TypeOK, LockHasOwner, Routing, Doom, [Next]_vars PROVE Doom'
  OBVIOUS
<1> USE SupervisorAssumption DEF rows, request, process, shutdown, Goto
<1>1. ASSUME NEW r \in Req, Lookup(r) \/ Prepare(r) \/ Upsert(r) \/ Spawn(r) \/ Cancel(r)
      PROVE  Doom'
  <2>1. /\ UNCHANGED <<conversations, queue, draining>>
        /\ \A q \in Req : rpc'[q] \in BeforeInsert => rpc[q] \in BeforeInsert
        /\ \A q \in Req : rpc'[q] = "notify" => rpc[q] = "notify" /\ handle'[q] = handle[q]
    BY <1>1 DEF Lookup, Prepare, Upsert, Spawn, Cancel, TypeOK, BeforeInsert
  <2>2. \A v \in Req : Condemned(v)' => Condemned(v)
    BY <2>1 DEF Condemned, Notified, Queued
  <2> QED BY <2>1, <2>2 DEF Doom, Queued, Notified, TypeOK
<1>2. ASSUME NEW r \in Req, EvictRemove(r) PROVE Doom'
  <2>1. CASE conversations[conv[r]] = Nobody
    <3>1. /\ UNCHANGED <<conversations, queue, draining, handle>>
          /\ \A q \in Req : rpc'[q] \in BeforeInsert => rpc[q] \in BeforeInsert
          /\ \A q \in Req : rpc'[q] = "notify" => rpc[q] = "notify"
      BY <1>2, <2>1 DEF EvictRemove, TypeOK, BeforeInsert
    <3>2. \A v \in Req : Condemned(v)' => Condemned(v)
      BY <3>1 DEF Condemned, Notified, Queued
    <3> QED BY <3>1, <3>2 DEF Doom, Queued, Notified
  <2>2. CASE conversations[conv[r]] # Nobody
    <3> DEFINE w == conversations[conv[r]]
    <3>1. /\ w \in Req /\ conv[w] = conv[r] /\ ~Queued(w, Shutdown)
          /\ \A q \in Req : rpc[q] # "notify"
          /\ \A c \in Conv : conversations[c] = w => c = conv[r]
          /\ rpc[w] \notin BeforeInsert
      BY <1>2, <2>2 DEF EvictRemove, TypeOK, LockHasOwner, Routing, Doom, Condemned
    <3>2. /\ UNCHANGED <<queue, draining>>
          /\ conversations' = [conversations EXCEPT ![conv[r]] = Nobody]
          /\ \A q \in Req : rpc'[q] \in BeforeInsert => rpc[q] \in BeforeInsert
          /\ \A q \in Req : rpc'[q] = "notify" => q = r
          /\ handle'[r] = w
      BY <1>2, <2>2, <3>1 DEF EvictRemove, Unmap, TypeOK, BeforeInsert
    <3>3. \A v \in Req : Condemned(v)' => Condemned(v) \/ v = w
      BY <3>2 DEF Condemned, Notified, Queued
    <3>4. \A v \in Req : Queued(v, Shutdown)' => v \notin draining' /\ ~Notified(v)'
      BY <3>1, <3>2 DEF Doom, Queued, Notified
    <3>5. \A c \in Conv : conversations'[c] \in Req =>
            conversations'[c] = conversations[c] /\ conversations[c] # w
      BY <3>1, <3>2 DEF TypeOK
    <3>6. \A q \in Req : \A c \in Conv : conversations[c] # q => conversations'[c] # q
      BY <3>2 DEF TypeOK
    <3>7. \A q \in Req : rpc'[q] \in BeforeInsert =>
            ~Condemned(q)' /\ \A c \in Conv : conversations'[c] # q
      <4>1. TAKE q \in Req
      <4>2. HAVE rpc'[q] \in BeforeInsert
      <4>3. q # w /\ rpc[q] \in BeforeInsert
        BY <4>2, <3>1, <3>2
      <4> QED BY <4>3, <3>3, <3>6 DEF Doom
    <3> HIDE DEF w
    <3> QED BY <3>3, <3>4, <3>5, <3>7 DEF Doom
  <2> QED BY <2>1, <2>2
<1>3. ASSUME NEW r \in Req, EvictNotify(r) PROVE Doom'
  <2>1. /\ draining = {}
        /\ \A q \in Req : rpc[q] = "notify" => q = r
        /\ Notified(handle[r])
    BY <1>3 DEF EvictNotify, TypeOK, LockHasOwner, Notified
  <2>2. /\ UNCHANGED <<conversations, draining>>
        /\ \A q \in Req : rpc'[q] \in BeforeInsert => rpc[q] \in BeforeInsert
        /\ \A q \in Req : rpc'[q] # "notify"
    BY <1>3, <2>1 DEF EvictNotify, TypeOK, BeforeInsert
  <2>3. \A v \in Req : Queued(v, Shutdown)' => Queued(v, Shutdown) \/ v = handle[r]
    BY <1>3, OfferQueued DEF EvictNotify
  <2>4. \A v \in Req : Condemned(v)' => Condemned(v)
    BY <2>1, <2>2, <2>3 DEF Condemned, Notified
  <2> QED BY <2>1, <2>2, <2>4 DEF Doom, Notified
<1>4. ASSUME NEW r \in Req, Insert(r) PROVE Doom'
  <2>1. /\ UNCHANGED <<queue, draining, handle>>
        /\ ~Condemned(r)
        /\ rpc'[r] = "send" /\ \A q \in Req \ {r} : rpc'[q] = rpc[q]
        /\ \A c \in Conv : conversations'[c] = conversations[c] \/ conversations'[c] = r
    BY <1>4 DEF Insert, TypeOK, Doom, BeforeInsert
  <2>2. \A v \in Req : Condemned(v)' => Condemned(v)
    BY <2>1 DEF Condemned, Notified, Queued
  <2>3. \A q \in Req : rpc'[q] \in BeforeInsert => q # r /\ rpc[q] \in BeforeInsert
    BY <2>1 DEF BeforeInsert
  <2> QED BY <2>1, <2>2, <2>3 DEF Doom, Queued, Notified
<1>5. ASSUME NEW r \in Req, Send(r) PROVE Doom'
  <2>1. /\ UNCHANGED <<conversations, draining, handle>>
        /\ \A q \in Req : rpc'[q] \in BeforeInsert => rpc[q] \in BeforeInsert
        /\ \A q \in Req : rpc'[q] = "notify" => rpc[q] = "notify"
    BY <1>5 DEF Send, TypeOK, BeforeInsert
  <2>2. \A v \in Req : Queued(v, Shutdown)' <=> Queued(v, Shutdown)
    BY <1>5, OfferQueued DEF Send
  <2>3. \A v \in Req : Condemned(v)' => Condemned(v)
    BY <2>1, <2>2 DEF Condemned, Notified
  <2> QED BY <2>1, <2>2, <2>3 DEF Doom, Notified
<1>6. ASSUME NEW w \in Req, WorkerStep(w) \/ WorkerLost(w) PROVE Doom'
  <2>1. /\ UNCHANGED <<conversations, draining, handle>>
        /\ \A q \in Req : rpc'[q] \in BeforeInsert => rpc'[q] = rpc[q]
    BY <1>6 DEF WorkerStep, WorkerLost, Close, SetupDone, Receive, PromptDone, PromptFails,
                DropReceiver, Answer, BeforeInsert
  <2>2. \A v \in Req : Queued(v, Shutdown)' => Queued(v, Shutdown)
    <3>1. CASE UNCHANGED queue
      BY <3>1 DEF Queued
    <3>2. CASE Receive(w) /\ queue[w] # <<>>
      BY <3>2, TakesHead DEF Receive
    <3>3. CASE DropReceiver(w)
      BY <3>3, DropEmpties
    <3> QED
      BY <1>6, <3>1, <3>2, <3>3
      DEF WorkerStep, WorkerLost, Close, SetupDone, Receive, PromptDone, PromptFails
  <2>3. \A q \in Req : rpc'[q] = "notify" => rpc[q] = "notify"
    BY <2>1 DEF BeforeInsert
  <2>4. \A v \in Req : Condemned(v)' => Condemned(v)
    BY <2>1, <2>2, <2>3 DEF Condemned, Notified
  <2> QED BY <2>1, <2>2, <2>3, <2>4 DEF Doom, Notified
<1>7. ASSUME NEW w \in Req, WatcherStep(w) PROVE Doom'
  <2>1. /\ UNCHANGED <<queue, draining, rpc, handle>>
        /\ \A c \in Conv : conversations'[c] \in {conversations[c], Nobody}
    BY <1>7 DEF WatcherStep, AcquirePermit, SeeClosed, RemoveEntry, SetDormant, Unmap, TypeOK
  <2>2. \A v \in Req : Condemned(v)' <=> Condemned(v)
    BY <2>1 DEF Condemned, Notified, Queued
  <2> QED BY <2>1, <2>2 DEF Doom, Queued, Notified
<1>8. CASE ShutdownAll
  <2>1. /\ UNCHANGED <<queue, rpc, handle>>
        /\ draining' = {w \in Req : \E c \in Conv : conversations[c] = w}
        /\ \A c \in Conv : conversations'[c] = Nobody
        /\ \A q \in Req : rpc[q] # "notify"
    BY <1>8 DEF ShutdownAll, LockHasOwner
  <2>2. \A v \in Req : Condemned(v)' => Condemned(v) \/ v \in draining'
    BY <2>1 DEF Condemned, Notified, Queued
  <2>3. \A v \in Req : v \in draining' => ~Queued(v, Shutdown)
    BY <2>1 DEF Doom, Condemned
  <2>4. \A r \in Req : rpc[r] \in BeforeInsert => r \notin draining'
    BY <2>1 DEF Doom
  <2> QED BY <2>1, <2>2, <2>3, <2>4 DEF Doom, Queued, Notified
<1>9. ASSUME NEW w \in Req, ShutdownNotify(w) PROVE Doom'
  <2>1. /\ UNCHANGED <<conversations, rpc, handle>>
        /\ draining' = draining \ {w} /\ w \in draining
        /\ \A q \in Req : rpc[q] # "notify"
    BY <1>9 DEF ShutdownNotify, LockHasOwner
  <2>2. \A v \in Req : Queued(v, Shutdown)' => Queued(v, Shutdown) \/ v = w
    BY <1>9, OfferQueued DEF ShutdownNotify
  <2>3. \A v \in Req : Condemned(v)' => Condemned(v)
    BY <2>1, <2>2 DEF Condemned, Notified
  <2> QED BY <2>1, <2>2, <2>3 DEF Doom, Notified
<1>10. CASE UNCHANGED vars
  BY <1>10 DEF vars, Doom, Condemned, Notified, Queued
<1> QED
  BY <1>1, <1>2, <1>3, <1>4, <1>5, <1>6, <1>7, <1>8, <1>9, <1>10
  DEF Next, RequestStep, Finished

\* A worker the map still names has not been told to stop, and nobody is about to tell
\* it: evict (supervisor.rs:194) and shutdown_all (supervisor.rs:183) remove an entry
\* before they send, and an entry is inserted once.
THEOREM MappedWorkersAreNotDoomed == Spec => []MappedWorkerIsNotDoomed
<1> QED
  BY InitType, NextType, InitLock, NextLock, InitRouting, NextRouting, InitDoom,
     NextSpawned, NextDoom, DoomSuffices, PTL DEF Spec

-----------------------------------------------------------------------------
(* Where a prompt is, and who waits for it. *)

\* A worker has a prompt in execution only while it is busy.
OnlyBusyHasCur == \A w \in Req : worker[w] # "busy" => cur[w] = Nobody

\* The prompt of r is nowhere.
Unsent(r) == \A w \in Req : cur[w] # r /\ ~Queued(w, r)

\* The invariant behind PromptIsNotDuplicated. The last conjunct is what a send needs.
Single ==
  /\ \A w \in Req : Distinct(queue[w])
  /\ \A r, v, w \in Req : Queued(v, r) /\ Queued(w, r) => v = w
  /\ \A r, v, w \in Req : cur[v] = r => ~Queued(w, r)
  /\ \A r, v, w \in Req : cur[v] = r /\ cur[w] = r => v = w
  /\ \A r \in Req : rpc[r] \in BeforeInsert \cup {"send"} => Unsent(r)

\* A caller that waits is owned, AwaitedPromptIsOwned without sequences.
Owned ==
  \A r \in Req : rpc[r] = "await" =>
    \E w \in Req : Live(w) /\ (Queued(w, r) \/ cur[w] = r)

LEMMA SingleSuffices == TypeOK /\ Single => PromptIsNotDuplicated
<1> SUFFICES ASSUME TypeOK, Single, NEW v \in Req, NEW w \in Req
             PROVE  /\ v # w => (Prompts(v) \cup {cur[v]}) \cap (Prompts(w) \cup {cur[w]})
                                  \subseteq {Nobody}
                    /\ cur[w] \notin Prompts(w)
                    /\ \A i, j \in DOMAIN queue[w] : queue[w][i] = queue[w][j] => i = j
  BY DEF PromptIsNotDuplicated
<1>1. \A u \in Req : Prompts(u) \subseteq Req /\ cur[u] \in Req \cup {Nobody}
  BY DEF TypeOK, Prompts
<1>2. \A u, r \in Req : r \in Prompts(u) <=> Queued(u, r)
  BY PromptsQueued
<1>3. DOMAIN queue[w] = 1..Len(queue[w])
  BY DEF TypeOK
<1>4. cur[w] \notin Prompts(w)
  BY <1>1, <1>2 DEF Single
<1>5. ASSUME v # w, NEW x \in (Prompts(v) \cup {cur[v]}) \cap (Prompts(w) \cup {cur[w]}),
             x # Nobody
      PROVE  FALSE
  <2>1. x \in Req
    BY <1>1, <1>5
  <2> QED BY <1>2, <1>5, <2>1 DEF Single
<1>6. \A i, j \in DOMAIN queue[w] : queue[w][i] = queue[w][j] => i = j
  BY <1>3 DEF Single, Distinct
<1> QED BY <1>4, <1>5, <1>6

LEMMA OwnedSuffices == TypeOK /\ Owned => AwaitedPromptIsOwned
BY PromptsQueued DEF Owned, AwaitedPromptIsOwned

LEMMA InitSingle == Init => OnlyBusyHasCur /\ Single /\ Owned
<1> SUFFICES ASSUME Init PROVE OnlyBusyHasCur /\ Single /\ Owned
  OBVIOUS
<1>1. \A w, r \in Req : ~Queued(w, r) /\ cur[w] # r
  BY SupervisorAssumption DEF Init, Queued
<1>2. \A w \in Req : Distinct(queue[w])
  BY DEF Init, Distinct
<1> QED BY <1>1, <1>2 DEF Init, OnlyBusyHasCur, Single, Unsent, Owned

LEMMA NextBusy == TypeOK /\ Paced /\ OnlyBusyHasCur /\ [Next]_vars => OnlyBusyHasCur'
<1> SUFFICES ASSUME TypeOK, Paced, OnlyBusyHasCur, [Next]_vars PROVE OnlyBusyHasCur'
  OBVIOUS
<1> USE DEF rows, request, process, shutdown, Goto
<1>1. ASSUME NEW r \in Req, Spawn(r) PROVE OnlyBusyHasCur'
  <2>1. UNCHANGED cur /\ worker' = [worker EXCEPT ![r] = "setup"] /\ worker[r] = "unborn"
    BY <1>1 DEF Spawn, Paced
  <2> QED BY <2>1 DEF TypeOK, OnlyBusyHasCur
<1>2. ASSUME NEW r \in Req,
             Lookup(r) \/ EvictRemove(r) \/ EvictNotify(r) \/ Prepare(r) \/ Upsert(r)
             \/ Insert(r) \/ Send(r) \/ Cancel(r)
      PROVE  OnlyBusyHasCur'
  BY <1>2 DEF Lookup, EvictRemove, EvictNotify, Prepare, Upsert, Insert, Send, Cancel,
              OnlyBusyHasCur
<1>3. ASSUME NEW w \in Req, WorkerStep(w) \/ WorkerLost(w) PROVE OnlyBusyHasCur'
  <2>1. /\ worker'[w] = "busy" \/ cur'[w] = Nobody
        /\ \A v \in Req \ {w} : worker'[v] = worker[v] /\ cur'[v] = cur[v]
    BY <1>3 DEF WorkerStep, WorkerLost, Close, SetupDone, Receive, PromptDone, PromptFails,
                DropReceiver, TypeOK, OnlyBusyHasCur
  <2> QED BY <2>1 DEF OnlyBusyHasCur
<1>4. CASE \/ UNCHANGED vars \/ ShutdownAll
           \/ \E w \in Req : WatcherStep(w) \/ ShutdownNotify(w)
  BY <1>4 DEF WatcherStep, AcquirePermit, SeeClosed, RemoveEntry, SetDormant, ShutdownAll,
              ShutdownNotify, vars, OnlyBusyHasCur
<1> QED BY <1>1, <1>2, <1>3, <1>4 DEF Next, RequestStep, Finished

LEMMA NextSingle ==
  TypeOK /\ LockHasOwner /\ Doom /\ OnlyBusyHasCur /\ Single /\ [Next]_vars => Single'
<1> SUFFICES ASSUME TypeOK, LockHasOwner, Doom, OnlyBusyHasCur, Single, [Next]_vars
             PROVE  Single'
  OBVIOUS
<1> USE SupervisorAssumption DEF rows, request, process, shutdown, Goto
<1> DEFINE Pending(r) == rpc[r] \in BeforeInsert \cup {"send"}
<1>1. ASSUME UNCHANGED <<queue, cur>>, \A r \in Req : Pending(r)' => Pending(r) PROVE Single'
  BY <1>1 DEF Single, Queued, Unsent
<1>2. ASSUME NEW w, Offer(w, Shutdown), w \in Req => ~Queued(w, Shutdown),
             UNCHANGED cur, \A r \in Req : Pending(r)' => Pending(r)
      PROVE  Single'
  <2>1. \A v, r \in Req : Queued(v, r)' <=> Queued(v, r)
    BY <1>2, OfferQueued
  <2>2. \A v \in Req : Distinct(queue'[v])
    BY <1>2, OfferDistinct DEF Single
  <2>3. \A r \in Req : Pending(r)' => Unsent(r)'
    BY <1>2, <2>1 DEF Single, Unsent
  <2> HIDE DEF Pending
  <2>4. \A r \in Req : rpc'[r] \in BeforeInsert \cup {"send"} => Unsent(r)'
    BY <2>3 DEF Pending
  <2> QED BY <1>2, <2>1, <2>2, <2>4 DEF Single
<1>3. ASSUME NEW r \in Req,
             Lookup(r) \/ EvictRemove(r) \/ Prepare(r) \/ Upsert(r) \/ Spawn(r) \/ Insert(r)
             \/ Cancel(r)
      PROVE  Single'
  <2>1. UNCHANGED <<queue, cur>> /\ \A q \in Req : Pending(q)' => Pending(q)
    BY <1>3 DEF Lookup, EvictRemove, Prepare, Upsert, Spawn, Insert, Cancel, TypeOK,
                BeforeInsert
  <2> QED BY <1>1, <2>1
<1>4. ASSUME NEW r \in Req, EvictNotify(r) PROVE Single'
  <2>1. UNCHANGED cur /\ \A q \in Req : Pending(q)' => Pending(q)
    BY <1>4 DEF EvictNotify, TypeOK, BeforeInsert
  <2>2. handle[r] \in Req => ~Queued(handle[r], Shutdown)
    BY <1>4 DEF EvictNotify, Doom, Notified
  <2>3. Offer(handle[r], Shutdown)
    BY <1>4 DEF EvictNotify
  <2> QED BY <1>2, <2>1, <2>2, <2>3
<1>5. ASSUME NEW r \in Req, Send(r) PROVE Single'
  <2>1. Unsent(r)
    BY <1>5 DEF Send, Single
  <2>2. /\ UNCHANGED cur
        /\ \A q \in Req : Pending(q)' => q # r /\ Pending(q)
    BY <1>5 DEF Send, TypeOK, BeforeInsert
  <2>3. \A v, q \in Req : Queued(v, q)' => Queued(v, q) \/ (v = handle[r] /\ q = r)
    BY <1>5, OfferQueued DEF Send
  <2>4. \A v \in Req : Distinct(queue'[v])
    BY <1>5, <2>1, OfferDistinct DEF Send, Single, Unsent
  <2>5. \A q \in Req : Pending(q)' => Unsent(q)'
    BY <2>2, <2>3 DEF Single, Unsent
  <2>6. \A q, v, w \in Req : Queued(v, q)' /\ Queued(w, q)' => v = w
    BY <2>1, <2>3 DEF Single, Unsent
  <2>7. \A q, v, w \in Req : cur'[v] = q => ~Queued(w, q)'
    BY <2>1, <2>2, <2>3 DEF Single, Unsent
  <2>8. \A q, v, w \in Req : cur'[v] = q /\ cur'[w] = q => v = w
    BY <2>2 DEF Single
  <2> HIDE DEF Pending
  <2>9. \A q \in Req : rpc'[q] \in BeforeInsert \cup {"send"} => Unsent(q)'
    BY <2>5 DEF Pending
  <2> QED BY <2>4, <2>6, <2>7, <2>8, <2>9 DEF Single
<1>6. ASSUME NEW w \in Req, Receive(w), queue[w] # <<>>, Head(queue[w]) # Shutdown
      PROVE  Single'
  <2>1. queue' = [queue EXCEPT ![w] = AfterReceive(@)] /\ UNCHANGED rpc
    BY <1>6 DEF Receive
  <2> DEFINE p == Head(queue[w])
  <2>2. /\ p \in Req /\ Queued(w, p)
        /\ \A v \in Req : Distinct(queue'[v])
        /\ \A v, q \in Req : Queued(v, q)' => Queued(v, q) /\ ~(v = w /\ q = p)
    BY <1>6, <2>1, TakesHead DEF Single
  <2>3. \A v \in Req : cur'[v] = IF v = w THEN p ELSE cur[v]
    BY <1>6 DEF Receive, TypeOK
  <2> HIDE DEF p
  <2>4. \A q, v, u \in Req : Queued(v, q)' /\ Queued(u, q)' => v = u
    BY <2>2 DEF Single
  <2>5. \A q, v, u \in Req : cur'[v] = q => ~Queued(u, q)'
    BY <2>2, <2>3 DEF Single
  <2>6. \A q, v, u \in Req : cur'[v] = q /\ cur'[u] = q => v = u
    BY <2>2, <2>3 DEF Single
  <2>7. \A q \in Req : rpc'[q] \in BeforeInsert \cup {"send"} => Unsent(q)'
    BY <2>1, <2>2, <2>3 DEF Single, Unsent
  <2> QED BY <2>2, <2>4, <2>5, <2>6, <2>7 DEF Single
<1>7. ASSUME NEW w \in Req, WorkerStep(w) \/ WorkerLost(w),
             ~(Receive(w) /\ queue[w] # <<>> /\ Head(queue[w]) # Shutdown)
      PROVE  Single'
  <2>1. /\ \A v \in Req : cur'[v] \in {cur[v], Nobody}
        /\ \A q \in Req : Pending(q)' => Pending(q)
    BY <1>7 DEF WorkerStep, WorkerLost, Close, SetupDone, Receive, PromptDone, PromptFails,
                DropReceiver, Answer, TypeOK, BeforeInsert
  <2>2. /\ \A v, q \in Req : Queued(v, q)' => Queued(v, q)
        /\ \A v \in Req : Distinct(queue'[v])
    <3>1. CASE UNCHANGED queue
      BY <3>1 DEF Queued, Single
    <3>2. CASE Receive(w) /\ queue[w] # <<>>
      BY <3>2, TakesHead DEF Receive, Single
    <3>3. CASE DropReceiver(w)
      BY <3>3, DropEmpties DEF Single
    <3> QED
      BY <1>7, <3>1, <3>2, <3>3
      DEF WorkerStep, WorkerLost, Close, SetupDone, Receive, PromptDone, PromptFails
  <2>3. \A q \in Req : Pending(q)' => Unsent(q)'
    BY <2>1, <2>2 DEF Single, Unsent
  <2> HIDE DEF Pending
  <2>4. \A q \in Req : rpc'[q] \in BeforeInsert \cup {"send"} => Unsent(q)'
    BY <2>3 DEF Pending
  <2> QED BY <2>1, <2>2, <2>4 DEF Single
<1>8. CASE UNCHANGED vars \/ ShutdownAll \/ \E w \in Req : WatcherStep(w)
  <2>1. UNCHANGED <<queue, cur, rpc>>
    BY <1>8 DEF WatcherStep, AcquirePermit, SeeClosed, RemoveEntry, SetDormant, ShutdownAll, vars
  <2> QED BY <1>1, <2>1
<1>9. ASSUME NEW w \in Req, ShutdownNotify(w) PROVE Single'
  <2>1. Offer(w, Shutdown) /\ UNCHANGED <<cur, rpc>> /\ ~Queued(w, Shutdown)
    BY <1>9 DEF ShutdownNotify, Doom
  <2> QED BY <1>2, <2>1
<1> QED
  BY <1>3, <1>4, <1>5, <1>6, <1>7, <1>8, <1>9 DEF Next, RequestStep, Finished

LEMMA NextOwned ==
  TypeOK /\ Routing /\ Spawned /\ OnlyBusyHasCur /\ Owned /\ [Next]_vars => Owned'
<1> SUFFICES ASSUME TypeOK, Routing, Spawned, OnlyBusyHasCur, Owned, [Next]_vars,
                    NEW r \in Req, rpc'[r] = "await"
             PROVE  \E w \in Req : Live(w)' /\ (Queued(w, r)' \/ cur'[w] = r)
  BY DEF Owned
<1> USE SupervisorAssumption DEF rows, request, process, shutdown, Goto
<1>1. CASE Send(r)
  <2>1. handle[r] \in Req /\ worker[handle[r]] \notin {"unborn", "gone"} /\ UNCHANGED worker
    BY <1>1 DEF Send, Routing, Spawned, TypeOK
  <2>2. Queued(handle[r], r)'
    <3>1. \A v \in Req : v = handle[r] /\ worker[handle[r]] # "gone" => Queued(v, r)'
      BY <1>1, OfferQueued DEF Send
    <3>2. PICK h \in Req : h = handle[r]
      BY <2>1
    <3>3. Queued(h, r)' /\ handle'[r] = h
      BY <1>1, <2>1, <3>1, <3>2 DEF Send
    <3> QED BY <3>2, <3>3 DEF Queued
  <2>3. UNCHANGED handle
    BY <1>1 DEF Send
  <2>4. PICK h \in Req : h = handle[r]
    BY <2>1
  <2>5. Queued(h, r)'
    BY <2>2, <2>3, <2>4 DEF Queued
  <2>6. Live(h)'
    BY <2>1, <2>4 DEF Live, TypeOK
  <2> QED BY <2>5, <2>6
<1>2. CASE ~Send(r)
  <2>1. rpc[r] = "await"
    BY <1>2 DEF Next, RequestStep, Lookup, EvictRemove, EvictNotify, Prepare, Upsert, Spawn,
                Insert, Send, Cancel, WorkerStep, WorkerLost, Close, SetupDone, Receive,
                PromptDone, PromptFails, DropReceiver, Answer, WatcherStep, AcquirePermit,
                SeeClosed, RemoveEntry, SetDormant, ShutdownAll, ShutdownNotify, Finished,
                vars, TypeOK
  <2>2. PICK w \in Req : Live(w) /\ (Queued(w, r) \/ cur[w] = r)
    BY <2>1 DEF Owned
  <2>3. ASSUME NEW q \in Req, Lookup(q) \/ RequestStep(q) \/ Cancel(q)
        PROVE  Live(w)' /\ (Queued(w, r)' \/ cur'[w] = r)
    <3>1. UNCHANGED cur /\ (Live(w) => Live(w)')
      BY <2>3 DEF Lookup, RequestStep, EvictRemove, EvictNotify, Prepare, Upsert, Spawn,
                  Insert, Send, Cancel, Live, TypeOK
    <3>2. Queued(w, r) => Queued(w, r)'
      <4>1. CASE UNCHANGED queue
        BY <4>1 DEF Queued
      <4>2. CASE EvictNotify(q) \/ Send(q)
        BY <4>2, OfferQueued DEF EvictNotify, Send
      <4> QED
        BY <2>3, <4>1, <4>2
        DEF Lookup, RequestStep, EvictRemove, Prepare, Upsert, Spawn, Insert, Cancel
    <3> QED BY <2>2, <3>1, <3>2
  <2>4. ASSUME NEW v \in Req, SetupDone(v) \/ Receive(v)
        PROVE  Live(w)' /\ (Queued(w, r)' \/ cur'[w] = r)
    <3>1. Live(w)'
      BY <2>2, <2>4 DEF SetupDone, Receive, AfterIdle, Live, TypeOK
    <3>2. CASE Receive(v) /\ queue[v] # <<>>
      <4>1. Queued(w, r) => Queued(w, r)' \/ (w = v /\ r = Head(queue[v]))
        BY <3>2, TakesHead DEF Receive
      <4>2. w = v /\ r = Head(queue[v]) => cur'[w] = r
        BY <3>2 DEF Receive, TypeOK
      <4>3. cur[w] = r => cur'[w] = r
        <5>1. cur[v] # r
          BY <3>2 DEF Receive, OnlyBusyHasCur
        <5>2. v # w => cur'[w] = cur[w]
          BY <3>2 DEF Receive, TypeOK
        <5> QED BY <5>1, <5>2
      <4> QED BY <2>2, <3>1, <4>1, <4>2, <4>3
    <3>3. CASE UNCHANGED <<queue, cur>>
      BY <2>2, <3>1, <3>3 DEF Queued
    <3> QED BY <2>4, <3>2, <3>3 DEF SetupDone, Receive
  <2>5. ASSUME NEW v \in Req, PromptDone(v) \/ PromptFails(v)
        PROVE  Live(w)' /\ (Queued(w, r)' \/ cur'[w] = r)
    <3>1. r # cur[v]
      BY <2>1, <2>5 DEF PromptDone, PromptFails, Answer
    <3>2. /\ UNCHANGED queue
          /\ cur[w] = r => cur'[w] = r
          /\ Live(w) => Live(w)'
      BY <2>5, <3>1 DEF PromptDone, PromptFails, Live, TypeOK
    <3> QED BY <2>2, <3>2 DEF Queued
  <2>6. ASSUME NEW v \in Req, DropReceiver(v)
        PROVE  Live(w)' /\ (Queued(w, r)' \/ cur'[w] = r)
    <3>1. r \notin Stranded(v)
      BY <2>1, <2>6 DEF DropReceiver, Answer
    <3>2. w # v
      BY <2>2, <3>1, PromptsQueued DEF Stranded
    <3>3. Queued(w, r) => Queued(w, r)'
      BY <2>6, <3>2, DropEmpties
    <3> QED BY <2>2, <2>6, <3>2, <3>3 DEF DropReceiver, Live, TypeOK
  <2>7. CASE UNCHANGED vars \/ ShutdownAll \/ \E v \in Req : WatcherStep(v)
    BY <2>2, <2>7 DEF WatcherStep, AcquirePermit, SeeClosed, RemoveEntry, SetDormant,
                      ShutdownAll, vars, Live, Queued
  <2>8. ASSUME NEW v \in Req, ShutdownNotify(v)
        PROVE  Live(w)' /\ (Queued(w, r)' \/ cur'[w] = r)
    <3>1. Queued(w, r) => Queued(w, r)'
      BY <2>8, OfferQueued DEF ShutdownNotify
    <3> QED BY <2>2, <2>8, <3>1 DEF ShutdownNotify, Live
  <2> QED
    BY <2>3, <2>4, <2>5, <2>6, <2>7, <2>8 DEF Next, WorkerStep, WorkerLost, Close, Finished
<1> QED BY <1>1, <1>2

\* A prompt waits or runs in one place only, so that it is executed at most once, however
\* often its conversation's worker is evicted, started twice or overwritten
\* (supervisor.rs:146, 292; worker.rs:352).
THEOREM PromptsAreNotDuplicated == Spec => []PromptIsNotDuplicated
<1> QED
  BY InitType, NextType, InitLock, NextLock, InitRouting, NextRouting, InitPaced, NextPaced,
     InitDoom, NextDoom, InitSingle, NextBusy, NextSingle, SingleSuffices, PTL DEF Spec

\* Whoever waits for an answer waits for a worker that runs and has the prompt: when a
\* receiver is dropped, the streams of all its prompts end (worker.rs:352).
THEOREM AwaitedPromptsAreOwned == Spec => []AwaitedPromptIsOwned
<1> QED
  BY InitType, NextType, InitRouting, NextRouting, InitPaced, NextPaced, InitDoom,
     NextSpawned, InitSingle, NextBusy, NextOwned, OwnedSuffices, PTL DEF Spec

-----------------------------------------------------------------------------
(* The refinement of PromptDelivery. *)

\* A busy worker has the prompt it is busy with.
BusyHasCur == \A w \in Req : worker[w] = "busy" => cur[w] \in Req

\* What the steps of the abstract specification need of the state.
DInv ==
  /\ TypeOK /\ Routing /\ Paced /\ Spawned
  /\ OnlyBusyHasCur /\ Single /\ BusyHasCur

LEMMA NextBusyHas == TypeOK /\ Paced /\ BusyHasCur /\ [Next]_vars => BusyHasCur'
<1> SUFFICES ASSUME TypeOK, Paced, BusyHasCur, [Next]_vars, NEW w \in Req, worker'[w] = "busy"
             PROVE  cur'[w] \in Req
  BY DEF BusyHasCur
<1> USE DEF rows, request, process, shutdown
<1>1. ASSUME NEW v \in Req, Receive(v) PROVE cur'[w] \in Req
  <2>1. CASE v = w /\ queue[v] # <<>>
    <3>1. Head(queue[w]) \in Req \cup {Shutdown}
      <4>1. queue[w] \in Seq(Req \cup {Shutdown})
        BY DEF TypeOK
      <4> QED BY <2>1, <4>1
    <3>2. Head(queue[w]) # Shutdown /\ cur'[w] = Head(queue[w])
      BY <1>1, <2>1 DEF Receive, TypeOK
    <3> QED BY <3>1, <3>2
  <2>2. CASE v = w /\ queue[v] = <<>>
    BY <1>1, <2>2 DEF Receive, AfterIdle, TypeOK
  <2>3. CASE v # w
    <3>1. worker'[w] = worker[w] /\ cur'[w] = cur[w]
      BY <1>1, <2>3 DEF Receive, TypeOK
    <3> QED BY <3>1 DEF BusyHasCur
  <2> QED BY <2>1, <2>2, <2>3
<1>2. ASSUME NEW v \in Req,
             SetupDone(v) \/ PromptDone(v) \/ PromptFails(v) \/ DropReceiver(v)
      PROVE  cur'[w] \in Req
  <2>1. v # w /\ worker'[w] = worker[w] /\ cur'[w] = cur[w]
    BY <1>2 DEF SetupDone, PromptDone, PromptFails, DropReceiver, TypeOK
  <2> QED BY <2>1 DEF BusyHasCur
<1>3. ASSUME NEW r \in Req, Spawn(r) PROVE cur'[w] \in Req
  <2>1. UNCHANGED cur /\ worker'[w] \in {worker[w], "setup"}
    BY <1>3 DEF Spawn, TypeOK
  <2> QED BY <2>1 DEF BusyHasCur
<1>4. ASSUME UNCHANGED <<worker, cur>> PROVE cur'[w] \in Req
  BY <1>4 DEF BusyHasCur
<1>5. ASSUME NEW r \in Req,
             Lookup(r) \/ EvictRemove(r) \/ EvictNotify(r) \/ Prepare(r) \/ Upsert(r)
             \/ Insert(r) \/ Send(r) \/ Cancel(r)
      PROVE  UNCHANGED <<worker, cur>>
  BY <1>5 DEF Lookup, EvictRemove, EvictNotify, Prepare, Upsert, Insert, Send, Cancel
<1>6. CASE \/ UNCHANGED vars \/ ShutdownAll
           \/ \E v \in Req : WatcherStep(v) \/ ShutdownNotify(v)
  BY <1>4, <1>6 DEF WatcherStep, AcquirePermit, SeeClosed, RemoveEntry, SetDormant,
                    ShutdownAll, ShutdownNotify, vars
<1> QED
  BY <1>1, <1>2, <1>3, <1>4, <1>5, <1>6
  DEF Next, RequestStep, WorkerStep, WorkerLost, Close, Finished

\* A request that moves on is told at most what pc says.
LEMMA FateMoves ==
  ASSUME TypeOK, NEW r \in Req, NEW pc, Goto(r, pc)
  PROVE  fate' = [fate EXCEPT ![r] = IF pc \in {"new"} \cup Starting THEN "asking" ELSE pc]
BY DEF TypeOK, Goto, fate

LEMMA FateStays ==
  ASSUME TypeOK, NEW r \in Req, NEW pc \in Starting, rpc[r] \in {"new"} \cup Starting, Goto(r, pc)
  PROVE  UNCHANGED fate
<1>1. fate[r] = "asking"
  BY DEF fate
<1>2. fate' = [fate EXCEPT ![r] = "asking"]
  BY FateMoves
<1> QED BY <1>1, <1>2 DEF fate

\* Awaiting callers are told what the worker answers.
LEMMA FateAnswered ==
  ASSUME TypeOK, NEW S, NEW pc \in Settled, Answer(S, pc)
  PROVE  Delivery!Tell(S, pc)
<1>1. ASSUME NEW r \in Req
      PROVE  fate'[r] = IF r \in S /\ fate[r] = "await" THEN pc ELSE fate[r]
  <2>1. rpc'[r] = IF r \in S /\ rpc[r] = "await" THEN pc ELSE rpc[r]
    BY DEF Answer
  <2>2. "await" \notin {"new"} \cup Starting /\ pc \notin {"new"} \cup Starting
    BY DEF Starting, Settled
  <2>3. fate[r] = "await" <=> rpc[r] = "await"
    BY <2>2 DEF fate
  <2> QED BY <2>1, <2>2, <2>3 DEF fate
<1>2. fate' = [r \in Req |-> fate'[r]]
  BY DEF fate
<1> QED BY <1>1, <1>2 DEF Delivery!Tell

\* The prompts a worker was handed are those in its channel.
LEMMA WaitingQueued ==
  ASSUME TypeOK
  PROVE  /\ waiting \in [Req -> SUBSET Req]
         /\ \A w, r \in Req : r \in waiting[w] <=> Queued(w, r)
<1>1. \A w \in Req : Prompts(w) \subseteq Req
  BY DEF TypeOK, Prompts
<1> QED BY <1>1, PromptsQueued DEF waiting

LEMMA WaitingBecomes ==
  ASSUME TypeOK', NEW W \in [Req -> SUBSET Req],
         \A w, r \in Req : Queued(w, r)' <=> r \in W[w]
  PROVE  waiting' = W
<1>1. \A w \in Req : /\ queue'[w] \in Seq(Req \cup {Shutdown})
                     /\ DOMAIN queue'[w] = 1..Len(queue'[w])
  BY DEF TypeOK
<1>2. \A w \in Req : \A r \in Prompts(w)' : r \in Req
  BY <1>1 DEF Prompts
<1>3. \A w, r \in Req : r \in Prompts(w)' <=> Queued(w, r)'
  BY <1>1, SupervisorAssumption DEF Prompts, Queued
<1>4. waiting' = [w \in Req |-> Prompts(w)']
  BY DEF waiting
<1>5. \A w \in Req : waiting'[w] = W[w]
  BY <1>2, <1>3, <1>4
<1> QED BY <1>4, <1>5

LEMMA WaitingStays ==
  ASSUME TypeOK, TypeOK', \A w, r \in Req : Queued(w, r)' <=> Queued(w, r)
  PROVE  UNCHANGED waiting
BY WaitingQueued, WaitingBecomes

LEMMA InitDelivery == Init => Delivery!Init
BY DEF Init, Delivery!Init, fate, life, waiting, Prompts

LEMMA NextDelivery == DInv /\ TypeOK' /\ [Next]_vars => [Delivery!Next]_(Delivery!vars)
<1> SUFFICES ASSUME DInv, TypeOK', [Next]_vars PROVE Delivery!Next \/ UNCHANGED Delivery!vars
  OBVIOUS
<1> USE DEF rows, request, process, shutdown
<1>0. /\ TypeOK
      /\ \A w \in Req : life[w] = IF worker[w] \in {"unborn", "gone"} THEN worker[w] ELSE "alive"
      /\ \A r \in Req : fate[r] = IF rpc[r] \in {"new"} \cup Starting THEN "asking" ELSE rpc[r]
  BY DEF DInv, life, fate
<1>a. ASSUME UNCHANGED queue PROVE UNCHANGED waiting
  BY <1>a DEF waiting, Prompts
<1>b. ASSUME UNCHANGED worker PROVE UNCHANGED life
  BY <1>b DEF life
<1>c. ASSUME UNCHANGED rpc PROVE UNCHANGED fate
  BY <1>c DEF fate
<1>d. ASSUME NEW r \in Req, Delivery!Refuse(r) \/ Delivery!Leave(r) PROVE Delivery!Next
  BY <1>d DEF Delivery!Next
<1>e. ASSUME NEW w \in Req,
             Delivery!Start(w) \/ Delivery!Run(w) \/ Delivery!Answer(w) \/ Delivery!End(w)
      PROVE  Delivery!Next
  BY <1>e DEF Delivery!Next
<1>f. ASSUME NEW w, NEW cmd \in {Shutdown}, Offer(w, cmd) PROVE UNCHANGED waiting
  <2>1. \A v, r \in Req : Queued(v, r)' <=> Queued(v, r)
    BY <1>0, <1>f, OfferQueued, SupervisorAssumption
  <2> QED BY <1>0, <2>1, WaitingStays
<1>g. ASSUME NEW r \in Req, fate[r] = "asking", Goto(r, "error"),
             UNCHANGED <<conv, model, worker, queue, cur>>
      PROVE  Delivery!Next
  <2>1. fate' = [fate EXCEPT ![r] = "error"]
    BY <1>0, <1>g, FateMoves DEF Starting
  <2> QED BY <1>a, <1>b, <1>d, <1>g, <2>1 DEF Delivery!Refuse, Delivery!arguments
<1>h. ASSUME UNCHANGED <<conv, model, fate, life, waiting, cur>> PROVE UNCHANGED Delivery!vars
  BY <1>h DEF Delivery!vars
<1>1. ASSUME NEW r \in Req,
             Lookup(r) \/ EvictRemove(r) \/ EvictNotify(r) \/ Insert(r)
      PROVE  UNCHANGED Delivery!vars
  <2>1. /\ rpc[r] \in {"new", "evict", "notify", "insert"}
        /\ \E pc \in Starting : Goto(r, pc)
        /\ UNCHANGED <<conv, model, worker, cur>>
        /\ UNCHANGED queue \/ Offer(handle[r], Shutdown)
    BY <1>1 DEF Lookup, EvictRemove, EvictNotify, Insert, Starting
  <2>2. UNCHANGED fate
    BY <1>0, <2>1, FateStays DEF Starting
  <2>3. UNCHANGED waiting
    BY <1>a, <1>f, <2>1
  <2> QED BY <1>b, <1>h, <2>1, <2>2, <2>3
<1>2. ASSUME NEW r \in Req, Prepare(r) \/ Upsert(r)
      PROVE  Delivery!Next \/ UNCHANGED Delivery!vars
  <2>1. /\ rpc[r] \in {"prepare", "update", "create"}
        /\ Goto(r, "error") \/ \E pc \in Starting : Goto(r, pc)
        /\ UNCHANGED <<conv, model, worker, queue, cur>>
    BY <1>2 DEF Prepare, Upsert, Starting
  <2>2. fate[r] = "asking"
    BY <1>0, <2>1 DEF Starting
  <2>3. ASSUME NEW pc \in Starting, Goto(r, pc) PROVE UNCHANGED fate
    BY <1>0, <2>1, <2>3, FateStays DEF Starting
  <2> QED BY <1>a, <1>b, <1>g, <1>h, <2>1, <2>2, <2>3
<1>3. ASSUME NEW r \in Req, Spawn(r) PROVE Delivery!Next
  <2>1. /\ rpc[r] = "spawn" /\ Goto(r, "insert") /\ worker' = [worker EXCEPT ![r] = "setup"]
        /\ UNCHANGED <<conv, model, queue, cur>>
    BY <1>3 DEF Spawn
  <2>2. life[r] = "unborn" /\ fate[r] = "asking"
    BY <1>0, <2>1 DEF DInv, Paced, Starting
  <2>3. life' = [life EXCEPT ![r] = "alive"]
    BY <1>0, <2>1 DEF life, TypeOK
  <2>4. UNCHANGED fate
    BY <1>0, <2>1, FateStays DEF Starting
  <2> QED BY <1>a, <1>e, <2>1, <2>2, <2>3, <2>4 DEF Delivery!Start, Delivery!arguments
<1>4. ASSUME NEW r \in Req, Send(r) PROVE Delivery!Next
  <2> DEFINE w == handle[r]
  <2>1. rpc[r] = "send" /\ w \in Req /\ conv[r] = conv[w] /\ model[r] = model[w]
        /\ worker[w] # "unborn" /\ fate[r] = "asking"
    BY <1>0, <1>4 DEF Send, DInv, Routing, Spawned, Serves, Starting
  <2>2. /\ Offer(w, r) /\ UNCHANGED <<conv, model, worker, cur>>
        /\ Goto(r, IF worker[w] = "gone" THEN "error" ELSE "await")
    BY <1>4 DEF Send
  <2> HIDE DEF w
  <2>3. CASE worker[w] = "gone"
    <3>1. UNCHANGED queue /\ Goto(r, "error")
      BY <2>2, <2>3 DEF Offer
    <3> QED BY <1>g, <2>1, <2>2, <3>1
  <2>4. CASE worker[w] # "gone"
    <3>1. fate' = [fate EXCEPT ![r] = "await"]
      <4>1. Goto(r, "await")
        BY <2>2, <2>4
      <4> QED BY <1>0, <4>1, FateMoves DEF Starting
    <3>2. life[w] = "alive"
      BY <1>0, <2>1, <2>4
    <3>3. waiting' = [waiting EXCEPT ![w] = @ \cup {r}]
      <4>1. \A v, x \in Req : Queued(v, x)' <=> Queued(v, x) \/ (v = w /\ x = r)
        BY <1>0, <2>1, <2>2, <2>4, OfferQueued
      <4>2. [waiting EXCEPT ![w] = @ \cup {r}] \in [Req -> SUBSET Req]
        BY <1>0, <2>1, WaitingQueued
      <4>3. \A v, x \in Req :
              Queued(v, x)' <=> x \in [waiting EXCEPT ![w] = @ \cup {r}][v]
        BY <1>0, <2>1, <4>1, WaitingQueued
      <4> QED BY <4>2, <4>3, WaitingBecomes
    <3>4. Delivery!Hand(r, w)
      BY <1>b, <2>1, <2>2, <3>1, <3>2, <3>3 DEF Delivery!Hand, Delivery!arguments
    <3> QED BY <2>1, <3>4 DEF Delivery!Next
  <2> QED BY <2>3, <2>4
<1>5. ASSUME NEW r \in Req, Cancel(r) PROVE Delivery!Next
  <2>1. /\ rpc[r] \in Starting \cup {"await"} /\ Goto(r, "cancelled")
        /\ UNCHANGED <<conv, model, worker, queue, cur>>
    BY <1>5 DEF Cancel
  <2>2. fate[r] \in {"asking", "await"} /\ fate' = [fate EXCEPT ![r] = "cancelled"]
    BY <1>0, <2>1, FateMoves DEF Starting
  <2> QED BY <1>a, <1>b, <1>d, <2>1, <2>2 DEF Delivery!Leave, Delivery!arguments
<1>i. ASSUME NEW w \in Req, life[w] = "alive", NEW s \in {"ready", "busy", "closing"},
             worker' = [worker EXCEPT ![w] = s]
      PROVE  UNCHANGED life
  <2>1. \A v \in Req : worker'[v] = worker[v] \/ (v = w /\ worker'[v] = s)
    BY <1>0, <1>i DEF TypeOK
  <2>2. worker[w] \notin {"unborn", "gone"}
    BY <1>0, <1>i
  <2> QED BY <1>i, <2>1, <2>2 DEF life
<1>6. ASSUME NEW w \in Req, SetupDone(w) PROVE UNCHANGED Delivery!vars
  <2>1. /\ worker[w] = "setup" /\ worker' = [worker EXCEPT ![w] = "ready"]
        /\ UNCHANGED <<conv, model, rpc, queue, cur>>
    BY <1>6 DEF SetupDone
  <2>2. life[w] = "alive"
    BY <1>0, <2>1
  <2> QED BY <1>a, <1>c, <1>h, <1>i, <2>1, <2>2
<1>7. ASSUME NEW w \in Req, Receive(w) PROVE Delivery!Next \/ UNCHANGED Delivery!vars
  <2>1. worker[w] = "ready" /\ life[w] = "alive" /\ cur[w] = Nobody
    BY <1>0, <1>7 DEF Receive, DInv, OnlyBusyHasCur
  <2>2. UNCHANGED <<conv, model, rpc>>
    BY <1>7 DEF Receive
  <2>3. UNCHANGED fate /\ UNCHANGED life
    <3>1. \E s \in {"busy", "closing"} : worker' = [worker EXCEPT ![w] = s]
      BY <1>7 DEF Receive, AfterIdle
    <3> QED BY <1>c, <1>i, <2>1, <2>2, <3>1
  <2>4. CASE queue[w] = <<>>
    <3>1. UNCHANGED <<queue, cur>>
      BY <1>7, <2>4 DEF Receive
    <3> QED BY <1>a, <1>h, <2>2, <2>3, <3>1
  <2>5. CASE queue[w] # <<>>
    <3> DEFINE x == Head(queue[w])
    <3>1. queue' = [queue EXCEPT ![w] = AfterReceive(@)]
      BY <1>7, <2>5 DEF Receive
    <3>2. /\ Queued(w, x) /\ x \in Req \cup {Shutdown}
          /\ \A v, r \in Req : Queued(v, r)' <=> Queued(v, r) /\ ~(v = w /\ r = x)
      <4>1. \A v \in Req : Distinct(queue[v])
        BY DEF DInv, Single
      <4> QED BY <1>0, <2>5, <3>1, <4>1, TakesHead
    <3>3. CASE x = Shutdown
      <4>1. UNCHANGED cur
        BY <1>7, <2>5, <3>3 DEF Receive
      <4>2. \A v, r \in Req : Queued(v, r)' <=> Queued(v, r)
        BY <3>2, <3>3, SupervisorAssumption
      <4>3. UNCHANGED waiting
        BY <1>0, <4>2, WaitingStays
      <4> QED BY <1>h, <2>2, <2>3, <4>1, <4>3
    <3>4. CASE x # Shutdown
      <4>1. cur' = [cur EXCEPT ![w] = x]
        BY <1>7, <2>5, <3>4 DEF Receive
      <4>2. x \in waiting[w]
        BY <1>0, <3>2, <3>4, WaitingQueued
      <4> HIDE DEF x
      <4>3. waiting' = [waiting EXCEPT ![w] = @ \ {x}]
        <5>1. [waiting EXCEPT ![w] = @ \ {x}] \in [Req -> SUBSET Req]
          BY <1>0, WaitingQueued
        <5>2. \A v, r \in Req :
                Queued(v, r)' <=> r \in [waiting EXCEPT ![w] = @ \ {x}][v]
          BY <1>0, <3>2, WaitingQueued
        <5> QED BY <5>1, <5>2, WaitingBecomes
      <4>4. Delivery!Run(w)
        BY <2>1, <2>2, <2>3, <4>1, <4>2, <4>3 DEF Delivery!Run, Delivery!arguments
      <4> QED BY <1>e, <4>4
    <3> QED BY <3>3, <3>4
  <2> QED BY <2>4, <2>5
<1>8. ASSUME NEW w \in Req, PromptDone(w) \/ PromptFails(w) PROVE Delivery!Next
  <2>1. /\ worker[w] = "busy" /\ worker' = [worker EXCEPT ![w] = "ready"]
        /\ cur' = [cur EXCEPT ![w] = Nobody]
        /\ Answer({cur[w]}, "done") \/ Answer({cur[w]}, "error")
        /\ UNCHANGED <<conv, model, queue>>
    BY <1>8 DEF PromptDone, PromptFails
  <2>2. life[w] = "alive" /\ cur[w] # Nobody
    BY <1>0, <2>1, SupervisorAssumption DEF DInv, BusyHasCur
  <2>3. Delivery!Tell({cur[w]}, "done") \/ Delivery!Tell({cur[w]}, "error")
    BY <1>0, <2>1, FateAnswered DEF Settled
  <2>4. UNCHANGED life /\ UNCHANGED waiting
    BY <1>a, <1>i, <2>1, <2>2
  <2>5. Delivery!Answer(w)
    BY <2>1, <2>2, <2>3, <2>4 DEF Delivery!Answer, Delivery!arguments
  <2> QED BY <1>e, <2>5
<1>9. ASSUME NEW w \in Req, DropReceiver(w) PROVE Delivery!Next
  <2>1. /\ life[w] = "alive" /\ worker' = [worker EXCEPT ![w] = "gone"]
        /\ cur' = [cur EXCEPT ![w] = Nobody]
        /\ Answer(waiting[w] \cup {cur[w]}, "empty")
        /\ UNCHANGED <<conv, model>>
    BY <1>0, <1>9 DEF DropReceiver, Live, Stranded, waiting
  <2>2. life' = [life EXCEPT ![w] = "gone"]
    BY <1>0, <2>1 DEF life, TypeOK
  <2>3. Delivery!Tell(waiting[w] \cup {cur[w]}, "empty")
    BY <1>0, <2>1, FateAnswered DEF Settled
  <2>4. waiting' = [waiting EXCEPT ![w] = {}]
    <3>1. \A v, r \in Req : Queued(v, r)' <=> Queued(v, r) /\ v # w
      BY <1>0, <1>9, DropEmpties
    <3>2. [waiting EXCEPT ![w] = {}] \in [Req -> SUBSET Req]
      BY <1>0, WaitingQueued
    <3>3. \A v, r \in Req : Queued(v, r)' <=> r \in [waiting EXCEPT ![w] = {}][v]
      BY <1>0, <3>1, WaitingQueued
    <3> QED BY <3>2, <3>3, WaitingBecomes
  <2>5. Delivery!End(w)
    BY <2>1, <2>2, <2>3, <2>4 DEF Delivery!End, Delivery!arguments
  <2> QED BY <1>e, <2>5
<1>10. ASSUME NEW w \in Req, WatcherStep(w) \/ ShutdownNotify(w)
       PROVE  UNCHANGED Delivery!vars
  <2>1. /\ UNCHANGED <<conv, model, rpc, worker, cur>>
        /\ UNCHANGED queue \/ Offer(w, Shutdown)
    BY <1>10 DEF WatcherStep, AcquirePermit, SeeClosed, RemoveEntry, SetDormant, ShutdownNotify
  <2> QED BY <1>a, <1>b, <1>c, <1>f, <1>h, <2>1
<1>11. CASE ShutdownAll \/ UNCHANGED vars
  <2>1. UNCHANGED <<conv, model, rpc, worker, queue, cur>>
    BY <1>11 DEF ShutdownAll, vars
  <2> QED BY <1>a, <1>b, <1>c, <1>h, <2>1
<1> QED
  BY <1>1, <1>2, <1>3, <1>4, <1>5, <1>6, <1>7, <1>8, <1>9, <1>10, <1>11
  DEF Next, RequestStep, WorkerStep, WorkerLost, Close, Finished

\* send_prompt, the map, the workers and their channels together implement PromptDelivery:
\* a prompt is handed once, to a running worker of its conversation and model
\* (supervisor.rs:136), is run alone, and its caller hears of one outcome, "done" only from
\* the worker that ran it (worker.rs:320, 343, 352).
THEOREM PromptsAreDelivered == Spec => DeliversPrompts
<1>1. Init => OnlyBusyHasCur /\ Single /\ BusyHasCur
  BY InitSingle DEF Init, BusyHasCur
<1> QED
  BY <1>1, InitType, NextType, InitLock, NextLock, InitRouting, NextRouting, InitPaced,
     NextPaced, InitDoom, NextSpawned, NextDoom, NextBusy, NextSingle, NextBusyHas,
     InitDelivery, NextDelivery, PTL
  DEF Spec, DInv, DeliversPrompts, Delivery!Spec
=============================================================================
