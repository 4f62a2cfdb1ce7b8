----------------------------- MODULE Supervisor -----------------------------
(***************************************************************************)
(* The conversation supervisor of copenai-acp: the map from conversations  *)
(* to live workers, the multi-step start of a worker, the worker's command *)
(* loop, and the watcher task that unmaps a worker once its command        *)
(* channel is closed.  Every await of supervisor.rs at which another task  *)
(* can interleave separates two actions.                                   *)
(*                                                                         *)
(* A request is one call of send_prompt.  It spawns at most one worker, so *)
(* a worker is named by the request that spawned it and inherits that      *)
(* request's conversation and model.                                       *)
(***************************************************************************)
EXTENDS Naturals, Sequences, FiniteSets

CONSTANTS
  Req,        \* calls of send_prompt, and the workers they spawn
  Conv,       \* conversation ids
  Model,      \* model names
  MaxAgents,  \* config.server.max_concurrent_agents, the semaphore's permits
  ChanCap,    \* capacity of a worker's command channel (8 in spawn_worker)
  Nobody,     \* "no worker", "no lock holder"
  Shutdown    \* WorkerCommand::Shutdown; also names shutdown_all as lock holder

ASSUME SupervisorAssumption ==
  /\ Nobody \notin Req
  /\ Shutdown \notin Req
  /\ Shutdown # Nobody
  /\ MaxAgents \in Nat \ {0}
  /\ ChanCap \in Nat \ {0}

VARIABLES
  conversations,  \* SupervisorInner::conversations
  lock,           \* who keeps the map's write lock across an await
  status,         \* the status column of the conversations table
  orphans,        \* history: conversations with a row that nobody will set dormant
  conv, model,    \* arguments of each request
  rpc,            \* where each request is in send_prompt / get_or_start
  handle,         \* the worker whose command sender the request holds
  worker,         \* where each worker is in run_worker_loop
  queue,          \* each worker's command channel
  cur,            \* the prompt a busy worker executes
  watcher,        \* where each worker's watcher task is
  draining,       \* what shutdown_all still has to notify
  stopping        \* shutdown_all has been called

vars == <<conversations, lock, status, orphans, conv, model, rpc, handle,
          worker, queue, cur, watcher, draining, stopping>>
rows     == <<status, orphans>>
request  == <<conv, model, rpc, handle>>
process  == <<worker, queue, cur>>
shutdown == <<draining, stopping>>

\* "evict": holds no lock yet; "notify": holds the lock and sends Shutdown;
\* "update"/"create": the SELECT of upsert found / did not find the row.
Starting == {"evict", "notify", "prepare", "update", "create", "spawn", "insert", "send"}
Settled  == {"done", "error", "empty", "cancelled"}

Live(w)  == worker[w] \in {"setup", "ready", "busy", "closing"}
Prompts(w) == {queue[w][i] : i \in DOMAIN queue[w]} \ {Shutdown}

-----------------------------------------------------------------------------
Init ==
  /\ conversations = [c \in Conv |-> Nobody]
  /\ lock = Nobody
  /\ status \in [Conv -> {"absent", "dormant"}]
  /\ orphans = {}
  /\ conv \in [Req -> Conv]
  /\ model \in [Req -> Model]
  /\ rpc = [r \in Req |-> "new"]
  /\ handle = [r \in Req |-> Nobody]
  /\ worker = [w \in Req |-> "unborn"]
  /\ queue = [w \in Req |-> <<>>]
  /\ cur = [w \in Req |-> Nobody]
  /\ watcher = [w \in Req |-> "none"]
  /\ draining = {}
  /\ stopping = FALSE

(***************************************************************************)
(* Requests                                                                *)
(***************************************************************************)
Goto(r, pc) == rpc' = [rpc EXCEPT ![r] = pc]

\* A mapped worker serves a request that asks for the worker's model.
SameModelIgnored(w, r) == TRUE  \* mutant: any worker of the conversation serves
SameModel(w, r) == model[w] = model[r]

\* Removal of a conversation's entry.
UnmapForgotten(c) == conversations  \* mutant: told to stop, but still mapped
Unmap(c) == [conversations EXCEPT ![c] = Nobody]

\* A request that goes away drops its lock guard, if it has one.
Released(r) == IF lock = r THEN Nobody ELSE lock

SetStatus(c, s) == [status EXCEPT ![c] = s]

\* get_or_start takes the write lock and looks the conversation up.
Lookup(r) ==
  /\ rpc[r] = "new"
  /\ lock = Nobody
  /\ LET w == conversations[conv[r]] IN
       \/ /\ w = Nobody
          /\ Goto(r, "prepare")
          /\ UNCHANGED handle
       \/ /\ w # Nobody
          /\ ~SameModel(w, r)
          /\ Goto(r, "evict")
          /\ UNCHANGED handle
       \/ /\ w # Nobody
          /\ SameModel(w, r)
          /\ Goto(r, "send")
          /\ handle' = [handle EXCEPT ![r] = w]
  /\ UNCHANGED <<conversations, lock, rows, conv, model, process, watcher, shutdown>>

\* evict re-takes the lock: the entry may be gone, or be another worker by now.
EvictRemove(r) ==
  /\ rpc[r] = "evict"
  /\ lock = Nobody
  /\ LET w == conversations[conv[r]] IN
       \/ /\ w = Nobody
          /\ Goto(r, "prepare")
          /\ UNCHANGED <<conversations, lock, handle>>
       \/ /\ w # Nobody
          /\ conversations' = Unmap(conv[r])
          /\ lock' = r
          /\ handle' = [handle EXCEPT ![r] = w]
          /\ Goto(r, "notify")
  /\ UNCHANGED <<rows, conv, model, process, watcher, shutdown>>

\* A send on a command channel: fails once the receiver is dropped, waits while full.
CanSend(w) == worker[w] = "gone" \/ Len(queue[w]) < ChanCap

Offer(w, cmd) ==
  queue' = IF worker[w] = "gone" THEN queue ELSE [queue EXCEPT ![w] = Append(@, cmd)]

\* ... and sends Shutdown with the lock still held, whatever the send returns.
EvictNotify(r) ==
  /\ rpc[r] = "notify"
  /\ CanSend(handle[r])
  /\ Offer(handle[r], Shutdown)
  /\ lock' = Released(r)
  /\ handle' = [handle EXCEPT ![r] = Nobody]
  /\ Goto(r, "prepare")
  /\ UNCHANGED <<conversations, rows, conv, model, worker, cur, watcher, shutdown>>

\* prepare_workspace, read_session_meta and the SELECT of upsert.
Prepare(r) ==
  /\ rpc[r] = "prepare"
  /\ \/ Goto(r, IF status[conv[r]] = "absent" THEN "create" ELSE "update")
     \/ Goto(r, "error")
  /\ UNCHANGED <<conversations, lock, rows, conv, model, handle, process, watcher, shutdown>>

\* The UPDATE or INSERT of upsert, which may fail, and must when another call has
\* created the row; then the row is read again, and the start ends if that fails.
Upsert(r) ==
  /\ rpc[r] \in {"update", "create"}
  /\ \/ /\ Goto(r, "error")
        /\ UNCHANGED rows
     \/ /\ rpc[r] = "create" => status[conv[r]] = "absent"
        /\ status' = SetStatus(conv[r], "active")
        /\ \/ Goto(r, "spawn") /\ orphans' = orphans \ {conv[r]}
           \/ Goto(r, "error") /\ orphans' = orphans \cup {conv[r]}
  /\ UNCHANGED <<conversations, lock, conv, model, handle, process, watcher, shutdown>>

\* spawn_worker and the watcher task; the entry is not in the map yet.
Spawn(r) ==
  /\ rpc[r] = "spawn"
  /\ Goto(r, "insert")
  /\ handle' = [handle EXCEPT ![r] = r]
  /\ worker' = [worker EXCEPT ![r] = "setup"]
  /\ watcher' = [watcher EXCEPT ![r] = "permit"]
  /\ UNCHANGED <<conversations, lock, rows, conv, model, queue, cur, shutdown>>

\* The lock is re-taken and whatever entry is there is overwritten.
Insert(r) ==
  /\ rpc[r] = "insert"
  /\ lock = Nobody
  /\ conversations' = [conversations EXCEPT ![conv[r]] = r]
  /\ Goto(r, "send")
  /\ UNCHANGED <<lock, rows, conv, model, handle, process, watcher, shutdown>>

\* send_prompt sends the Prompt command; a dropped receiver is "worker unavailable".
Send(r) ==
  /\ rpc[r] = "send"
  /\ CanSend(handle[r])
  /\ Offer(handle[r], r)
  /\ Goto(r, IF worker[handle[r]] = "gone" THEN "error" ELSE "await")
  /\ UNCHANGED <<conversations, lock, rows, conv, model, handle, worker, cur, watcher, shutdown>>

\* The HTTP client disconnects: the handler's future is dropped where it waits.
Cancel(r) ==
  /\ rpc[r] \in Starting \cup {"await"}
  /\ Goto(r, "cancelled")
  /\ lock' = Released(r)
  /\ orphans' = IF rpc[r] = "spawn" THEN orphans \cup {conv[r]} ELSE orphans
  /\ UNCHANGED <<conversations, status, conv, model, handle, process, watcher, shutdown>>

(***************************************************************************)
(* Workers                                                                 *)
(***************************************************************************)
\* The streams of the prompts in S end: awaiting callers move to pc.
AnswerAll(S, pc) ==  \* mutant: every waiting caller is answered
  rpc' = [r \in Req |-> IF rpc[r] = "await" THEN pc ELSE rpc[r]]
Answer(S, pc) ==
  rpc' = [r \in Req |-> IF r \in S /\ rpc[r] = "await" THEN pc ELSE rpc[r]]

\* initialize and setup_session succeed.
SetupDone(w) ==
  /\ worker[w] = "setup"
  /\ worker' = [worker EXCEPT ![w] = "ready"]
  /\ UNCHANGED <<conversations, lock, rows, request, queue, cur, watcher, shutdown>>

\* What recv leaves in the channel.
AfterReceivePeeked(q) == q  \* mutant: the command is looked at, not taken
AfterReceive(q) == Tail(q)

\* Where the loop goes when recv times out.
AfterIdleAgain == "setup"  \* mutant: an idle worker sets its session up again
AfterIdle == "closing"

\* The next command, or the idle timeout when none is there.
Receive(w) ==
  /\ worker[w] = "ready"
  /\ \/ /\ queue[w] # <<>>
        /\ Head(queue[w]) # Shutdown
        /\ cur' = [cur EXCEPT ![w] = Head(queue[w])]
        /\ queue' = [queue EXCEPT ![w] = AfterReceive(@)]
        /\ worker' = [worker EXCEPT ![w] = "busy"]
     \/ /\ queue[w] # <<>>
        /\ Head(queue[w]) = Shutdown
        /\ queue' = [queue EXCEPT ![w] = AfterReceive(@)]
        /\ worker' = [worker EXCEPT ![w] = "closing"]
        /\ UNCHANGED cur
     \/ /\ queue[w] = <<>>
        /\ worker' = [worker EXCEPT ![w] = AfterIdle]
        /\ UNCHANGED <<queue, cur>>
  /\ UNCHANGED <<conversations, lock, rows, request, watcher, shutdown>>

\* execute_prompt returns Ok: the row is touched, then Done is sent.
PromptDone(w) ==
  /\ worker[w] = "busy"
  /\ status' = SetStatus(conv[w], "active")
  /\ Answer({cur[w]}, "done")
  /\ cur' = [cur EXCEPT ![w] = Nobody]
  /\ worker' = [worker EXCEPT ![w] = "ready"]
  /\ UNCHANGED <<conversations, lock, orphans, conv, model, handle, queue, watcher, shutdown>>

\* execute_prompt returns Err: an Error event is sent and the loop goes on.  The row has
\* been touched if it is Done that nobody receives.
PromptFails(w) ==
  /\ worker[w] = "busy"
  /\ status' = SetStatus(conv[w], "active") \/ UNCHANGED status
  /\ Answer({cur[w]}, "error")
  /\ cur' = [cur EXCEPT ![w] = Nobody]
  /\ worker' = [worker EXCEPT ![w] = "ready"]
  /\ UNCHANGED <<conversations, lock, orphans, conv, model, handle, queue, watcher, shutdown>>

\* The prompts whose reply streams end when w drops its receiver.
StrandedInFlight(w) == {cur[w]}  \* mutant: queued prompts keep their streams open
Stranded(w) == Prompts(w) \cup {cur[w]}

\* cmd_rx is dropped with the commands still in it: after the loop ends, when
\* connecting or setup_session fails, or when the agent's process is lost.
\* The streams of those prompts end without Done and the caller answers 200
\* with an empty text.
DropReceiver(w) ==
  /\ Live(w)
  /\ worker' = [worker EXCEPT ![w] = "gone"]
  /\ queue' = [queue EXCEPT ![w] = <<>>]
  /\ cur' = [cur EXCEPT ![w] = Nobody]
  /\ Answer(Stranded(w), "empty")
  /\ UNCHANGED <<conversations, lock, rows, conv, model, handle, watcher, shutdown>>

WorkerLost(w) == worker[w] \in {"setup", "ready", "busy"} /\ DropReceiver(w)
Close(w)      == worker[w] = "closing" /\ DropReceiver(w)

(***************************************************************************)
(* Watchers                                                                *)
(***************************************************************************)
Holding == {w \in Req : watcher[w] \in {"watch", "remove", "dormant"}}

AcquirePermitOrQuit(w) ==  \* mutant: a watcher that finds no permit does not wait
  /\ watcher[w] = "permit"
  /\ watcher' = [watcher EXCEPT ![w] = IF Cardinality(Holding) < MaxAgents THEN "watch" ELSE "ended"]
  /\ UNCHANGED <<conversations, lock, rows, request, process, shutdown>>

\* The permit is taken by the watcher, after the worker has been spawned.
AcquirePermit(w) ==
  /\ watcher[w] = "permit"
  /\ Cardinality(Holding) < MaxAgents
  /\ watcher' = [watcher EXCEPT ![w] = "watch"]
  /\ UNCHANGED <<conversations, lock, rows, request, process, shutdown>>

SeeClosed(w) ==
  /\ watcher[w] = "watch"
  /\ worker[w] = "gone"
  /\ watcher' = [watcher EXCEPT ![w] = "remove"]
  /\ UNCHANGED <<conversations, lock, rows, request, process, shutdown>>

\* Removes the conversation's entry by id, whichever worker it names.
RemoveEntry(w) ==
  /\ watcher[w] = "remove"
  /\ lock = Nobody
  /\ conversations' = Unmap(conv[w])
  /\ watcher' = [watcher EXCEPT ![w] = "dormant"]
  /\ UNCHANGED <<lock, rows, request, process, shutdown>>

\* set_dormant, whose failure is ignored; the permit is released when the task ends.
SetDormant(w) ==
  /\ watcher[w] = "dormant"
  /\ \/ status' = SetStatus(conv[w], "dormant") /\ orphans' = orphans \ {conv[w]}
     \/ orphans' = orphans \cup {conv[w]} /\ UNCHANGED status
  /\ watcher' = [watcher EXCEPT ![w] = "ended"]
  /\ UNCHANGED <<conversations, lock, request, process, shutdown>>

(***************************************************************************)
(* shutdown_all, once axum has finished its graceful shutdown: it drains   *)
(* the map and sends Shutdown to each worker, lock held.  HTTP requests    *)
(* are over by then; the tasks of upgraded WebSocket connections are not,  *)
(* so requests may be anywhere.  The exit of the process that follows is   *)
(* the business of the daemon.                                             *)
(***************************************************************************)
ShutdownAll ==
  /\ ~stopping
  /\ lock = Nobody
  /\ stopping' = TRUE
  /\ draining' = {w \in Req : \E c \in Conv : conversations[c] = w}
  /\ conversations' = [c \in Conv |-> Nobody]
  /\ lock' = IF draining' = {} THEN Nobody ELSE Shutdown
  /\ UNCHANGED <<rows, request, process, watcher>>

ShutdownNotify(w) ==
  /\ w \in draining
  /\ CanSend(w)
  /\ Offer(w, Shutdown)
  /\ draining' = draining \ {w}
  /\ lock' = IF draining' = {} THEN Nobody ELSE lock
  /\ UNCHANGED <<conversations, rows, request, worker, cur, watcher, stopping>>

-----------------------------------------------------------------------------
RequestStep(r) ==
  \/ EvictRemove(r) \/ EvictNotify(r)
  \/ Prepare(r) \/ Upsert(r) \/ Spawn(r) \/ Insert(r) \/ Send(r)

WorkerStep(w) ==
  SetupDone(w) \/ Receive(w) \/ PromptDone(w) \/ PromptFails(w) \/ Close(w)

WatcherStep(w) ==
  AcquirePermit(w) \/ SeeClosed(w) \/ RemoveEntry(w) \/ SetDormant(w)

\* Nothing is left to run.
Finished ==
  /\ \A r \in Req : rpc[r] \in Settled \cup {"new"}
  /\ \A w \in Req : ~Live(w) /\ watcher[w] \in {"none", "ended"}
  /\ draining = {}
  /\ UNCHANGED vars

Next ==
  \/ \E r \in Req : Lookup(r) \/ RequestStep(r) \/ Cancel(r)
  \/ \E w \in Req : WorkerStep(w) \/ WorkerLost(w) \/ WatcherStep(w) \/ ShutdownNotify(w)
  \/ ShutdownAll
  \/ Finished

\* tokio runs every task that can run, agents answer or fail, and channels,
\* locks and permits are granted in turn.  Nobody has to send a request,
\* disconnect, lose an agent or shut the server down.
Fairness ==
  /\ \A r \in Req : WF_vars(RequestStep(r))
  /\ \A w \in Req : WF_vars(WorkerStep(w)) /\ WF_vars(WatcherStep(w))
                    /\ WF_vars(ShutdownNotify(w))

Spec == Init /\ [][Next]_vars
FairSpec == Spec /\ Fairness

-----------------------------------------------------------------------------
\* The state is of its types, and no command channel holds more than its capacity.
TypeOK ==
  /\ conversations \in [Conv -> Req \cup {Nobody}]
  /\ lock \in Req \cup {Nobody, Shutdown}
  /\ status \in [Conv -> {"absent", "active", "dormant"}]
  /\ orphans \in SUBSET Conv
  /\ conv \in [Req -> Conv]
  /\ model \in [Req -> Model]
  /\ rpc \in [Req -> {"new"} \cup Starting \cup {"await"} \cup Settled]
  /\ handle \in [Req -> Req \cup {Nobody}]
  /\ worker \in [Req -> {"unborn", "setup", "ready", "busy", "closing", "gone"}]
  /\ queue \in [Req -> Seq(Req \cup {Shutdown})]
  /\ \A w \in Req : Len(queue[w]) <= ChanCap
  /\ cur \in [Req -> Req \cup {Nobody}]
  /\ watcher \in [Req -> {"none", "permit", "watch", "remove", "dormant", "ended"}]
  /\ draining \in SUBSET Req
  /\ stopping \in BOOLEAN

\* A prompt is executed by a worker of its own conversation started for its own
\* model: no race of evictions, restarts and stale handles sends it elsewhere.
PromptReachesItsOwnAgent ==
  \A w \in Req : \A r \in Prompts(w) \cup ({cur[w]} \ {Nobody}) :
    conv[r] = conv[w] /\ model[r] = model[w]

\* A caller that awaits a reply awaits a worker that has its prompt, queued or in
\* execution, and has not dropped its receiver: nobody waits on a dead stream.
AwaitedPromptIsOwned ==
  \A r \in Req : rpc[r] = "await" =>
    \E w \in Req : Live(w) /\ r \in Prompts(w) \cup {cur[w]}

\* A prompt is in at most one place of one worker, so it is executed at most once.
PromptIsNotDuplicated ==
  \A v, w \in Req :
    /\ v # w => (Prompts(v) \cup {cur[v]}) \cap (Prompts(w) \cup {cur[w]}) \subseteq {Nobody}
    /\ cur[w] \notin Prompts(w)
    /\ \A i, j \in DOMAIN queue[w] : queue[w][i] = queue[w][j] => i = j

\* A worker that lookups can still find has not been told to stop, by an eviction
\* or by shutdown_all: new prompts are not queued behind a Shutdown by a lookup.
MappedWorkerIsNotDoomed ==
  \A c \in Conv : LET w == conversations[c] IN w # Nobody =>
    /\ \A i \in DOMAIN queue[w] : queue[w][i] # Shutdown
    /\ worker[w] # "unborn"
    /\ w \notin draining
    /\ \A r \in Req : rpc[r] = "notify" => handle[r] # w

\* What a caller knows of its request, what becomes of a worker, and what it was handed.
fate    == [r \in Req |-> IF rpc[r] \in {"new"} \cup Starting THEN "asking" ELSE rpc[r]]
life    == [w \in Req |-> IF worker[w] \in {"unborn", "gone"} THEN worker[w] ELSE "alive"]
waiting == [w \in Req |-> Prompts(w)]

\* Prompts are handed out at most once and answered by what ran them: see PromptDelivery.
Delivery == INSTANCE PromptDelivery WITH running <- cur
DeliversPrompts == Delivery!Spec

\* The map's write lock is kept across an await only by a live eviction or by
\* shutdown_all, and a disconnecting client gives it back.
LockHasOwner ==
  /\ \A r \in Req : lock = r <=> rpc[r] = "notify"
  /\ lock = Shutdown <=> draining # {}

\* A row that says 'active' has a task left that will set it dormant.  Exempt is a row
\* since a start ended between its write and spawn_worker, for its client disconnected
\* or the row could not be read again, or since set_dormant failed on it; until the
\* next start takes it over.
ActiveRowHasKeeper ==
  \A c \in Conv \ orphans : status[c] = "active" =>
    \E r \in Req : conv[r] = c /\ (rpc[r] = "spawn" \/ watcher[r] \notin {"none", "ended"})

\* While the process lives, every call of send_prompt gets an answer, also one
\* that a WebSocket connection makes while or after shutdown_all runs.
EveryPromptSettles ==
  \A r \in Req :
    (rpc[r] \in Starting \cup {"await"}) ~> rpc[r] \in Settled

\* No worker is leaked: also those no entry of the map names end, and those started
\* after shutdown_all has drained the map, and their watchers return the permits.
WorkersRetire ==
  \A w \in Req :
    Live(w) ~> worker[w] = "gone" /\ watcher[w] = "ended"

-----------------------------------------------------------------------------
(* What the documentation says and the code does not do. *)

\* No start, stop or clean-up is under way.
AtRest ==
  /\ lock = Nobody
  /\ \A r \in Req : rpc[r] \in Settled \cup {"new", "await"}
  /\ \A w \in Req :
       /\ worker[w] # "closing"
       /\ worker[w] = "gone" => watcher[w] = "ended"
       /\ \A i \in DOMAIN queue[w] : queue[w][i] # Shutdown

\* README.md:35, GET /health reports active sessions: at rest every session it
\* reports has a running worker, and every running worker, unless its client has
\* disconnected, is the worker of a session it reports.
HealthReportsActiveSessions ==
  AtRest =>
    /\ \A c \in Conv : conversations[c] # Nobody => Live(conversations[c])
    /\ \A w \in Req : Live(w) /\ rpc[w] # "cancelled" => conversations[conv[w]] = w
=============================================================================
