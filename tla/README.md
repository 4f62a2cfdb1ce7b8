# TLA+ verification of copenai

copenai serves an OpenAI-compatible HTTP API from Cursor agents: a request of
`/v1/chat/completions` or `/v1/responses` becomes a prompt to an agent process
that a *conversation supervisor* keeps alive per conversation. This directory
models the parts of it in which tasks, clients, timeouts and stored state
interleave, checks them with TLC on small instances, and proves some of their
properties for every instance with TLAPS.

    tlc -workers 2 -config SupervisorSafety.cfg MCSupervisor.tla    # one run
    tlapm SupervisorProofs.tla                                      # one module's proofs

The other proofs are in `PromptTurnProofs`, `PermissionProofs`, `ResponsesProofs`,
`ResponsesTurnProofs`, `SessionResumeProofs`, `FilesProofs` and `DaemonProofs`.

Paths such as `supervisor.rs:292` are under `src/crates/*/src/`; `PROJECT.json`
gives the full path and the lines of every definition.

## The system

### Components, their state and their operations

| Component | State | Operations | Modelled in |
|---|---|---|---|
| Conversation supervisor (`copenai-acp/supervisor.rs`) | the map conversation -> command sender, the semaphore, the `conversations` table's `status` | `send_prompt`/`get_or_start`, `evict`, watcher task, `shutdown_all`, `is_session_active`, `active_count` | `Supervisor` |
| Worker (`copenai-acp/worker.rs`) | command channel, agent process, session | command loop, idle timeout, loss of the agent | `Supervisor` |
| Prompt turn (`worker.rs`, `execute_prompt`) | the sink shared with the notification handler, the turn's event channel, transcript files | prompt, drain, close | `PromptTurn` |
| Session set-up (`worker.rs`, `setup_session`, `resume.rs`) and prompt plan (`messages.rs`) | ACP session id in the table, model in `session.json`, transcript directory | hot test, plan, new, load, resume, degraded replay, record | `SessionResume` |
| Permissions (`worker.rs`, `copenai-store/permissions.rs`, `routes.rs`) | `permission_requests` rows | insert, webhook, poll, resolve; HTTP list and respond | `Permission` |
| Response store and orchestrator (`copenai-store/responses.rs`, `responses/orchestrator.rs`) | `responses` rows | create (sync, stream), walk along `previous_response_id`, persist, get, delete, list | `Responses` |
| Responses WebSocket (`responses/ws.rs`) | per connection: last response id, in-flight flag, age | read loop | `WsSession` |
| Server tool loop (`tools/tool_loop.rs`) | text, outputs, step counter | webhooks, fallback, step limit | `ResponsesTurn` |
| Event assembly (`tools/orchestrate.rs`, `responses/sse.rs`) | output items and their indices | drain, SSE events, schema retry | `ResponsesTurn` |
| Tool choice, detection, validation (`tools/choice.rs`, `detect.rs`, `validate.rs`) | none | which calls of a reply are accepted | `ToolCalls` |
| Files (`copenai-openai/files.rs`, `routes.rs`) | data file and metadata file per id | upload, paged list, read, delete | `Files` |
| Daemon (`copenai-server/daemon.rs`, `copenai-core/daemon.rs`, `copenai-cli`) | pidfile, port, process | start, run, drain, stop | `Daemon` |
| API keys, configuration, paths, wire types, multimodal mapping, ACP file handlers, deployment | single statements, files with fresh names, or no state | | not modelled |

### How they interact

A route handler builds a prompt (after asking `is_session_active` whether the
agent remembers the conversation) and calls the supervisor. The supervisor finds
or starts a worker and puts a `Prompt` with a reply channel on the worker's
bounded command channel. The worker is one task that executes prompts one after
another; a notification handler, called by the agent connection, forwards chunks
to the sink of the turn under way. A watcher task per worker waits for the command
channel to close and cleans up the map and the table. Permission requests of the
agent and the answers of HTTP clients meet only in a table row. The Responses API
puts a stored row and a chain of earlier rows around one such prompt, and a
WebSocket connection runs a sequence of them. Between the prompt and the answer
stands the turn: the agent's events become output items and SSE events, its calls are
found in its text and given to the client or POSTed to a webhook, whose outputs are
the next prompt. What a conversation remembers outlives its worker in three places
that no transaction ties together: the session's id in the table, its model in
`session.json`, and the transcript. Around all of it, `start`, `stop` and the daemon
share a pidfile and a port. All tasks share one multi-threaded
tokio runtime; every `.await` is a point where others run, and the future of a
handler is dropped at such a point when its client disconnects.

### What is hard

* the map is looked up, given up and written again around many awaits; entries
  are removed by conversation id and not by worker (`supervisor.rs:287`, `:292`);
* commands are sent to bounded channels, twice with the map's write lock held;
* channels are dropped with prompts in them; streams then just end;
* late notifications against a drain with a time limit; failed turns that are not
  drained;
* a permission deadline against a client's answer;
* status columns written by unconditional UPDATEs of concurrent tasks;
* rows left behind by disconnects and restarts;
* cached ids of rows that do not exist;
* one item with three indices: its place in the stream, among the agent's outputs, and
  in the answer;
* webhooks that take effect after they were given up, steps of which one call fails, a
  limit that is tested after the calls were listed;
* a plan made for a hot agent that is cold when the prompt arrives, and records of a
  session that are written one after the other;
* files that are two files, listings that read the directory anew for each page;
* a pidfile that every process reads, writes and removes without a lock.

`PROJECT.json` lists each hazard at its line with the properties that watch it.

### What makes each component correct

* supervisor: a prompt runs only in a worker of its own conversation and model, at
  most once; a caller waits only for a worker that has its prompt; every caller is
  answered; the lock has a live owner; no worker or permit is leaked; a row that
  says `active` will be made dormant; what `/health` counts is what runs; no more
  agents than configured;
* prompt turn: a caller gets the chunks of its turn, all of them and in order, and
  every turn ends;
* permissions: one answer is accepted, the agent is told that answer or a
  cancellation, once, and the row agrees;
* responses: an answered response is served as answered until it is deleted, and
  the agent is given exactly the tool outputs of the responses continued;
* WebSocket: every message is answered, whatever becomes of the one before, and an
  implicit continuation continues what the connection last answered;
* turn: a stream tells what the answer holds; the agent is told an
  output only of a call that took effect; effects come in the order asked for; what is
  left out at the step limit is known; a required schema holds; every turn ends unless
  it waits for a body;
* sessions: what the client sends reaches the agent; a resumed session is of the
  worker's model; what the agent has forgotten, it has forgotten for a known reason;
* files: an answered upload resolves until it is deleted, and the pages of a listing
  hold each file that stays exactly once;
* daemon: the pidfile names who serves, `start` reports that daemon, `stop` leaves none
  on the port, and both end.

## The modules

### `Supervisor` and `PromptDelivery`

One request is one call of `send_prompt`. It starts at most one worker, so
workers are named by the request that spawned them. `rpc[r]` is the program
counter of a request: `Lookup` takes the write lock (`get_or_start` 210-225),
`EvictRemove`/`EvictNotify` are `evict`, `Prepare` the workspace and the SELECT
of `upsert`, `Upsert` its UPDATE or INSERT, `Spawn` `spawn_worker` together with
the watcher's `tokio::spawn` (there is no await between them), `Insert` and `Send`
the rest. `Cancel` drops the future at any of these. `worker[w]` is where the
worker's loop is; `queue` is its command channel, `cur` the prompt in execution.
`DropReceiver` is every way the channel is dropped, and answers the stranded
callers with the empty text they get. `watcher[w]` has one value per step of the
watcher's task. `lock` is only who holds the write lock across an await: critical
sections without one are single actions that need `lock = Nobody`.

Statements fail where the code goes on from there: `Prepare`'s SELECT, `Upsert` before
its write, or after it, when the row cannot be read again (`conversations.rs:69`, `:84`),
so that the row says `active` and no worker was started; `set_dormant`, whose result is
ignored (`supervisor.rs:288`); and `touch`, as `PromptFails`. `orphans` is history: the
conversations whose row nobody will set dormant, because a start ended between its write
and `spawn_worker` or `set_dormant` failed, and nobody has started since.

Abstractions: `last_active` is written and never read; a reader of
the map (`is_session_active`, `active_count`) changes nothing and is not an
action; a reply stream is only whether it ended with Done, Error, or neither.

`PromptDelivery` is what all this promises to a caller: its prompt is handed at most
once, to a running worker of its own conversation and model, which runs its prompts one
at a time; and the caller is told one outcome, `done` only after the prompt ran, and
`empty` only when the worker ended with the prompt in its hands. It knows no map, no
lock, no watcher, no permit, no eviction and no shutdown. `Supervisor` implements it
(`DeliversPrompts`): `fate` is `rpc` with the steps of `get_or_start` taken for one
"asking", `life` is `worker` with all that a live one does taken for "alive", `waiting` is
the prompts in `queue` without their order or the Shutdown among them, and `running` is
`cur`.

### `PromptTurn`

A worker's turns, one after another. Turn 0 is the replay prompt of a degraded
resume, which has no sink. A chunk is the turn it was emitted for and its number.
`wire` holds notifications in order; `answered` may overtake them, which is what
the comment at `worker.rs:470` says of ACP. `timely`, chosen once in the initial
state, tells whether late chunks arrive within the drain's 500/250 ms or need not;
`TimelyChunksAreNotDropped` speaks of the first case only, for a later chunk is lost
and nothing in the code prevents that.

The 250 ms begin before the event is sent to the caller, whose channel holds 64: a send
that waits longer ends the drain at the next test, with chunks still in the channel
(`DrainEvent` with `slow`). `cut` records these turns, and the properties name them.
What follows the drain is one action per await: `ClearSink`, `Touch`,
`AppendTranscript`, which ignores its errors (`writable`, chosen in the initial state,
tells whether the directory takes writes), and `SendDone`, whose receiver may be gone. The
worker may be lost at each of them (`Lost`).

### `Permission` and `PermissionDecision`

`Permission` is the worker's handler, the row, and clients that respond at any
time; the reads and writes of the row are separate actions. `resolve` may fail, which the
handler ignores (`worker.rs:248`, `:258`): it ends `unwritten`, the agent is told Cancelled
and the row stays as it is. An earlier statement that fails ends the handler with an
error (`HandlerLost`). `PermissionDecision` is
what is promised: at most one vote, the agent told once, the vote or a
cancellation. `Permission` implements it with `vote <- accepted` (`KeepsPromise`).

### `Responses` and `WsSession`

A create inserts its row, walks the chain with one SELECT per step, runs its turn
(an uninterpreted success or failure: the supervisor's part), and writes the row
again; DELETE, disconnects and restarts come at any point, also while an UPDATE is under
way, which is then done or not. The last UPDATE may fail: a synchronous create answers the
error, a stream ignores it and says Completed (`orchestrator.rs:224`; `unsaved`). Tool outputs are named
by the create that brought them; the other items of a chain are skipped by
`enrich_from_previous`. `before` is a history variable. `WsSession` extends
`Responses` with connections; each of its steps is a step of `Responses` or leaves
its variables alone.

### `ToolCalls` and `ResponsesTurn`

`ToolCalls` has the pure part: what a `tool_choice` leaves of the tools, whether the
calls of a reply are accepted, and which they are. A reply is what the program can tell
of it: whether it has words, its call objects, whether it satisfies the schema.

`ResponsesTurn` is one turn of `execute_responses_turn`, or of `execute_chat_turn`
(`req.api`). `pc` is where the turn's task is: `drain` is `drain_sync` or
`drain_stream`, with one action per event of the agent (`AgentEvent`) and one for its
Done (`FirstReply`); `tools` is `parse_calls` and what follows from it (`CallsRefused`,
`NoCalls`, `ClientCalls` with its SSE events, `ServerLimit`, `ServerStep`); `webhooks`
is `execute_calls`, with the answer to a POST in two steps, its head and its body;
`continuation` the prompt with the outputs; `schema` and `retry` the validation of the
text. `answer[c]` is a POST, `effects` what the webhook's service
did: a POST takes effect at any time after it was sent, also after its timeout.
`sent` is the stream, each event with its index, its item and what the response it
carries has at that index; `output` is that response, `agentOutputs` what becomes the
answer. `calls_to_output` gives every item it makes a fresh id (`tool_loop.rs:80`), so the
item a call is streamed in (`StreamedItem`) is not the one the answer lists (`CallItem`);
the two are compared by their call. That those are two vectors is the code's (`orchestrate.rs:620`) and what
`EventsPointAtTheirItems` is about. A synchronous turn can be dropped with its client
at any point, a streaming one cannot, for its task is spawned. The supervisor's part of
a prompt is that it is answered or fails (`PromptTurn`).

### `SessionResume`

One conversation. `Arrive` is the handler up to the plan, with `session_hot` read from
the map; `FindWorker`, `ReadMeta` and `Start` are `get_or_start` as far as sessions are
concerned; `Load`, `DegradedSession`, `NewSession` with `RecordSession` are
`setup_session` in each mode, and `SetupFails`/`RecordFails` its errors. `Serve` is a
prompt, `Ends` the end of a worker, `Unmap` its watcher. `Restart` keeps what is on
disk and chooses the resume mode anew. `memory[s]` is what the agent was told in
session `s`; `due` and `missed` are history: what the agent should have known of a
request, and what of this it did not know when it answered. What cannot be read is
forgotten without an error: `session.json` (`MetaAsRead`; the session is then made anew,
`blind`) and any part of the transcript (`LoadTranscript`; the session is then `partial`).
`faults` records what went
wrong with the record (two starts at a time, one cut in two), for the
properties say what may be forgotten when. `Supervisor` has the locks and commands this
module leaves out.

### `Files`

An upload is `WriteData`, `CreateMeta`, `WriteMeta`, since `fs::write` creates a file
before it fills it; a deletion removes the data, then the metadata. A client lists
page by page: `OpenDir` is `read_dir`, `LoadFile` one entry of the loop,
`AnswerPage` the sort, the cursor and the cut. Uploads and deletions of other clients,
failed writes and crashes come between any of them. Times are seconds, so files
uploaded in one second tie. `Sorted` puts each file at its rank; the order is
total, for it goes on to the directory's, which the stable sort keeps.

### `Daemon`

Processes are daemons, runs of `start` and runs of `stop`, each a program counter. A pid
is read from the file in one step and tested in the next, as in the code, and the file may
name another daemon by then: `LookUp`, `Look` and `RemoveStale` are `spawn_daemon`;
`AskHealth`, `HealthAnswered`, `ReadReported`, `Report`, `ReadAgain`, `LookAgain`, `GiveUp`,
`Timeout` the waiting loop of `ensure_daemon_started`; `Bind`, `CreatePidFile`, `WritePid`,
`Interrupt`, `EndDaemon` are `run_daemon` with its SIGINT handler; `ReadPid`, `TestPid` to
`SignalListed` are `stop_daemon` with its fallback to `lsof`, which may be missing or fail
(`ListFails`). A test for existence and the read or the removal that follows it are one
step: a file that vanishes between them makes the command fail, with nothing changed.
A daemon that dies before the start that spawned it ends is a zombie, which signal 0
takes for alive. `Crash` is also what SIGTERM does, for no handler takes it. `raced`
is history: somebody had read the pidfile, and was to test or remove it, when it was
last written.

`immune` is the daemon that is the first process of a container, if there is one, as in
the image the Dockerfile makes: SIGTERM and SIGKILL from inside do nothing to it
(`Terminate`), `stop_process` does not look whether they did, and zombies stay because
nobody waits for them. The image has no `lsof` either, which is a run of `ListFails`.

## The runs

| Run | Question | Bounds | Distinct states |
|---|---|---|---|
| `SupervisorSafety` | do the races of starts, evictions, deaths, disconnects and shutdown keep routing, ownership and rows right? | 3 requests, 1 conversation, 2 models, 1 permit, channel of 1 | 4.0 million |
| `SupervisorLiveness` | is every prompt handed to the right worker once, and its caller told one outcome? is every prompt answered, does every worker end? | 2 requests, 1 conversation, 2 models | 190 thousand |
| `SupervisorHealth` | README:35, active sessions | 2 requests | violation |
| `PromptTurn` | does a turn get its chunks, in order, and whose chunks leak? does it end? | 2 turns after an optional replay, 2 chunks each, timely and late, a transcript that can be written or not | 438 thousand |
| `PermissionVote` | does the handler keep the promise? | 3 requests, one of them automatic, 2 options | 11 thousand |
| `PermissionRace` | is an accepted answer what the agent is told? | the same | violation |
| `ResponsesChain` | are answers served and outputs passed on, with restarts, deletes, failing UPDATEs and continuations of running responses? | 3 creates, 2 outcomes | 4.5 million |
| `WsSession` | does every message get a reply, and does an implicit continuation see what it continues? | 2 creates, 2 connections | 79 thousand |
| `ResponsesTurn` | do stream and answer agree, what of the calls is done, told, listed, and does the turn end? | 3 events of the first reply, 2 ids of the agent's tools, 2 tools, 7 replies, 2 steps of the loop, the 55 requests of `MCResponsesTurn` | 1.1 million |
| `SessionResume` | what does the agent know when it answers, over idle timeouts, model switches, degraded resumes, failing reads and writes and restarts? | 3 requests, 2 models, 4 kinds of requests, 2 of them open at a time, 1 restart | 5.1 million |
| `Daemon` | do pidfile, port and commands agree, and do commands end? | any 3 (`MaxRuns`) of 2 starts with their daemons, 2 daemons by hand or first in a container, 2 stops | 487 thousand |
| `Files` | do answered files resolve, and do pages cover what stays? | 3 files, pages of 1 and 2, 2 seconds, 1 upload or deletion at a time | 2.8 million |

Why the bounds are enough to be interesting: three requests allow a worker to be
started, evicted by a second request and replaced by a third while the watcher of
the first is still to run; two models force evictions; one permit makes watchers
wait; a channel of one fills. One conversation is where requests collide; that
several do not mix is the theorem `PromptsAreRouted`.
That `Supervisor` implements `PromptDelivery` is checked with two requests, which share a
worker, evict one another's or each start one; with three, the check of a refinement takes
longer than the run should, and the theorem `PromptsAreDelivered` is for any number.
The replay and two turns give a turn that was not drained, the turn its chunks leak into,
and one that is itself cut short; any number is in the theorems. Three
creates give a chain with a middle element that is running, failed or deleted; chains
of any length are the theorems of `ResponsesProofs`. Two connections share the table
of responses but not their cached ids.
Three events give a text, a reasoning item and a tool call in any order, or a call,
another and an update of the first; two calls in a reply are enough for one to fail
and the other to succeed, and two steps for a call of the first to take effect in the
second. In `SessionResume` the first request makes a session, the second switches the
model, comes with a history or meets a restart, the third is the one that has
forgotten. In `Daemon`, three of the runs are under way at a time or one after another: two starts
that race while a daemon nobody spawned comes and goes; a daemon that drains while another
binds and a command removes what it takes for stale; two stops of one daemon; in a
container, the daemon that stays and two commands. Four at a time are left to the
theorems, which have no such bound. Three files in pages of one need two cursors,
each of which may be deleted before it is used; several deletions one after
another are possible, only not at the same instant.
Symmetry is used only in runs without liveness properties, over sets whose members no
formula names (`MCSupervisor`, `MCResponses`, `MCSessionResume`). `Daemon` and `Files`
stop when there is nothing left to do, so deadlock is not checked there; every command
of `Daemon` ending is `CommandsEnd`.

Each module has a `TypeOK`, which is the statement its proofs begin with. The runs
spend their time on the other properties. `LockHasOwner` (`Supervisor`),
`SinkBelongsToTurn` (`PromptTurn`) and `SessionsKeepInStep` (`WsSession`) are in no run:
they are theorems, and parts of the invariants of others.

`MemoryLossIsExplained` (`SessionResume`) is an action property: it judges a request by
the state in which it is answered, of which the step is the witness. Whether sessions of
two models were made, or a record was lost, may become true later, and an answer given
before that is not explained by it.

### What the violated properties show

Each is a statement of the repository that the code does not keep; `PROJECT.json`
quotes the line under `findings`.

* `HealthReportsActiveSessions`: what `/health` counts and what runs come apart. A
  worker that dies before its entry is inserted leaves a dead entry, which the
  conversation's prompts fail at until a request with another model evicts it; and a
  watcher removes the entry of its worker's successor, or a second start overwrites
  the first, and an agent runs that is not counted.
* `AcceptedOptionReachesAgent`: an answer accepted with 200 between the last poll
  and `resolve` is not what the agent is told.

Other differences between the code and what is said of it are in the models as the
code has them, where the properties that hold say how far they go:

* `max_concurrent_agents` (README:123) does not bound the agents, for the permit is
  taken by the watcher after `spawn_worker` (`supervisor.rs:285`);
* a prompt queued behind a Shutdown, or at an agent that dies, is answered 200 with an
  empty text (`backend.rs:118`);
* of the first requests of a new conversation that come together, one fails on the primary
  key of the row the other made (`conversations.rs:72`);
* a row may say `active` with no worker: after a start that ended between its write and
  `spawn_worker`, or a `set_dormant` that failed (`supervisor.rs:288`); and `dormant` while
  a second worker runs. `copenai status` counts these rows;
* a drain is cut short by a caller that reads slowly, and drops the chunks it had yet to
  read, against the comment at `worker.rs:470`: `TimelyChunksAreNotDropped` makes this
  exception, and `LeaksOnlyFromUndrainedTurns` the one that follows from it;
* a turn may be told Done and not be in the transcript, whose errors are ignored
  (`worker.rs:655`, `:662`), and be in it though its caller was told nothing, having gone
  away or lost the worker;
* a permission request whose `resolve` fails stays pending after its agent was told
  Cancelled, and a client may still be answered 200 for it (`worker.rs:248`, `:258`);
* a streamed answer whose last UPDATE fails is Completed for the client and in progress,
  for ever, in the store (`orchestrator.rs:224`); the next message that continues it does
  not get its outputs;
* a response answered with `"deleted": true` (`routes.rs:614`) is still served as
  completed, for DELETE writes only the status, which GET does not look at when there is a
  body (`orchestrator.rs:364`) and a later `update_completed` overwrites; `AnsweredIsServed`
  asks nothing of a deleted response;
* the items in which calls are streamed have other ids than those in which the completed
  response lists the same calls (`tool_loop.rs:80`, `orchestrate.rs:194`, `:749`);
* a `session.json` or a transcript file that cannot be read loses memory without an error
  (`multimodal.rs:171`, `worker.rs:629-634`), and `session.json` and the row can come to
  name different sessions (`faults`);
* the WebSocket remembers the id of a response that was not stored (`ws.rs:118`);
* a message that did not satisfy the json_schema stays in the output of an answer whose
  text was corrected by the retry (`orchestrate.rs:285`, README:50); `SchemaHoldsOfText`
  makes this exception and no other;
* `tool_webhook_timeout_secs` limits the wait for the head of an answer and not for its
  body (`tool_loop.rs:102`);
* an event of a tool call that comes after text or reasoning points at another item of
  the response (`orchestrate.rs:620`); `InOrder` says when the indices are right;
* a `stop` without a usable pidfile signals every process `lsof` lists for the port,
  which are its clients as well as the listener (`copenai-core/daemon.rs:52`);
* in the image, where there is no `lsof` and the daemon is the first process, `stop` says
  `stopped pid 1` or, the pidfile gone, `not running`, and the daemon serves on: the comment
  at `copenai-core/daemon.rs:108` promises more. `StopLeavesNothing` excepts the first
  process of a container, and asks nothing of a stop that could not list the port;
* a WebSocket message that is not JSON, or no `response.create`, is skipped without a reply
  (`ws.rs:87-96`).

### Fairness

`Supervisor`: weak fairness for each step of each started request, worker,
watcher and shutdown send. It stands for: tokio runs every task that can run;
the agent answers a prompt or fails it, and initialises or fails; a client reads its
stream or disconnects (the stream's channel is bounded, `worker.rs:487`, so a
client that does neither stops its worker); the lock, the permits and the room in
a channel go to those who wait in turn (tokio's are fair). Waiting for the lock or
for room is what could starve under weak fairness; in the runs every request makes
finitely many sends, so whoever waits is eventually alone. There is no fairness
for `Lookup`, `Cancel`, `WorkerLost` and `ShutdownAll`: nobody has to send,
disconnect, crash or stop anything. `shutdown_all` excuses nothing: as long as the process
lives, prompts settle and workers retire, also those started while or after it runs.

`PromptTurn`: the agent responds, notifications are delivered, the worker runs and its
caller reads or goes away (an assumption: a caller that does neither holds up the turn,
`worker.rs:487`); the agent need not emit, nor be lost. A turn of a lost worker has no end
of its own, and `TurnsEnd` says so. `Permission`: the handler's steps, since the webhook and the
polling have deadlines; clients need not respond. `WsSession`: creates end and
connections' tasks run; nobody has to send a message, and a connection that was replied
to is ready for the next.

`ResponsesTurn`: the agent answers or fails every prompt (`PromptTurn`), a POST
gets the head of an answer within its timeout or fails, the turn's task runs. The body
of that answer need not come, for the timeout does not cover it (`tool_loop.rs:110`) and
the HTTP client has none: `TurnsComplete` says that a turn ends or waits for a body. The
webhook need not take effect, and no client has to disconnect. That a stream's task runs
assumes that its client reads or goes away: its channel holds 64 events
(`responses/orchestrator.rs:166`). `SessionResume` and
`Files` have safety properties only.

`Daemon`: commands run; a daemon that has bound its port writes its pidfile and
serves (it has no await that could block in between), and then answers
`GET /health`. The last is an assumption: the handler runs `cursor-agent status`
without a timeout, and a start whose probe hangs there hangs, too, since the 15 seconds
are tested between probes. The deadline has strong fairness: time passes however often
a start probes the port in between, and a start waiting for a daemon that never binds
can be at its test only in between. Daemons need not start, end or crash.

## The proofs

Every theorem below is proved for all values of the module's constants, from the named
assumptions of the module (`ASSUME`) and nothing else. TLC evaluates the
assumptions in the runs, and has checked every invariant of a proof on the run's
instance before it was proved. An invariant of a run is in general not inductive; what
had to be added to it is named here, because it says why the code is right.

Each proof module begins with the definitions of its invariants, proves for each
invariant that `Init` implies it and that a step keeps it, action by action, and ends
each part with the theorem.

### `SupervisorProofs`

For all sets of requests, conversations and models, every number of permits and every
channel capacity (`SupervisorAssumption`).

* `TypeCorrect`: `TypeOK`, which includes that no command channel is overfilled.
  Inductive by itself; one lemma step per action.
* `LockIsOwned`: `LockHasOwner`. Inductive together with `TypeOK`: every step that
  enters or leaves `notify` sets the lock, `Released` gives it back only to whom it
  belongs, and `draining` becomes empty in the step that frees the lock.
* `PromptsAreRouted`: `PromptReachesItsOwnAgent`. It is not inductive: a prompt
  comes into a queue through `handle`, and `handle` from the map. `Routing` adds
  that every entry of the map, and the handle of every request about to send, name
  a worker of the right conversation and model. A worker has its spawner's conversation
  and model, which no step changes.
* `ActiveRowsAreKept`: `ActiveRowHasKeeper`. `Paced` ties together a worker's
  phase, its watcher's and its request's: a live worker has a watcher that has not
  ended, and a request before its spawn has no worker. Then whoever writes
  `active` is a keeper, and a keeper stops being one only by writing `dormant` to
  the same row (`KeeperStays`), or by ending before its spawn, or by failing to write, which
  makes the row one of `orphans`. A row that a step leaves active outside `orphans` was so
  before, or was written by a start that goes on to its spawn, or by a prompt of a live
  worker (`RowWasActive`).
* `MappedWorkersAreNotDoomed`: `MappedWorkerIsNotDoomed`. `Condemned(w)` collects all the
  ways to stop `w` that are already under way: a Shutdown in its queue, the drain of
  `shutdown_all`, an eviction about to send. `Doom`: no worker in the map, and none about
  to be inserted, is condemned, and nobody is condemned twice. An entry leaves the map in
  the step that condemns it.
* `PromptsAreNotDuplicated`: `PromptIsNotDuplicated`. `Single`: a prompt is in one queue
  or in one worker's hands, once; before its send it is nowhere. `OnlyBusyHasCur`: a worker
  has a current prompt only while busy.
* `AwaitedPromptsAreOwned`: `AwaitedPromptIsOwned`, by `Owned`: the prompt of a request
  that awaits waits in the queue of a live worker or is executed by one. A worker that
  ends takes its queue with it, and with that the awaiting of all who are in it.
* `PromptsAreDelivered`: `DeliversPrompts`, the refinement of `PromptDelivery`. The
  initial states map to initial states (`InitDelivery`), and every step maps to a step or a
  stutter (`NextDelivery`): `Spawn` is `Start`; `Send` is `Hand`, or `Refuse` if the channel is
  closed; a `Prepare` or `Upsert` that fails is `Refuse`; `Cancel` is `Leave`; `Receive` of a
  prompt is `Run`; `PromptDone` and `PromptFails` are `Answer`; `DropReceiver` is `End`; all
  other steps are stutters. `DInv` is what the mapping needs of the states, and most of
  it are the invariants above: the handle a prompt is sent to is right (`Routing`), a prompt
  that is received was in the queue once (`Single`), so that it leaves the set `waiting`
  with it, and a worker at its receive holds none (`OnlyBusyHasCur`); conversely, a busy
  one holds one (`BusyHasCur`).

### `PromptTurnProofs`

For any number of turns and of chunks (`PromptTurnAssumption`).

* `SinksBelongToTurns` and `TypesAreKept`, from `Chunks`: the sink belongs to the turn
  under way or was left by a turn that failed, and no later turn has begun (`Ahead`).
* `TranscriptsAreTrue`: `TranscriptIsWhatWasAnswered`, from `Transcribed`: between the write
  of the transcript and the send of Done the worker holds the turn's place. A turn that was
  told Done is there if the directory takes writes, and what is there was told Done, or
  belongs to a caller that is gone or to a turn whose worker was lost at the last step.
* `ChunksStayInOrder`: `ChunksKeepOrder`. The chunks of a turn pass from the wire through
  the channel into the stream; `Order` says that numbers rise within each of the three
  (`Rising`) and from each to the next (`Before`), and that none is higher than what the
  agent has emitted (`Emitted`). A chunk that is in the wire twice cannot come about.
* `TimelyChunksArrive` and `OnlyUndrainedTurnsLeak`, from `Drained`: if late chunks arrive
  before the drain gives up, nothing of a drained turn is left in the wire or the channel
  when it closes, and nothing of the turn under way is missing. That timing is part of
  `Init` (`timely`), not an assumption; without it the two properties claim nothing. A turn
  whose drain a slow caller cut short (`cut`) is an exception in both, like one that failed
  (`Undrained`); what it leaves in the wire is what a later turn may get.

### `PermissionProofs`

For all sets of requests and options (`PermissionAssumption`).

* `RowsKeepInStep`, `SelectionsAreVoted` and `RowsAgreeWithAgents`: the three
  invariants of the run. `HandlersKeepInStep` is inductive only together with
  `Linked`, which says that a handler that has read its row knows what the row says
  for good, since no response is accepted for a decided row, and that
  an answered handler has left its decision in the row. An `unwritten` one, whose `resolve`
  failed, has told its decision, or Cancelled without one, whatever the row says; that is
  the one exception of `RowSaysWhatAgentWasTold`.
* `PromiseIsKept`: the refinement. A step of a handler that tells, or a response that
  is accepted, is a step of `PermissionDecision`; every other is a stutter.

### `ResponsesProofs`

For every set of creates, so for chains of any length (`ResponsesAssumption`), and for
every set of connections.

* `RowsAreTrue` and `AnswersAreServed`, from `Rows`: what each create has done so far
  determines its row up to the status that DELETE and update_completed race for. A stream
  whose last UPDATE failed (`unsaved`) has answered and left its row as the INSERT made it;
  an UPDATE whose client is gone is done or not.
  `AnsweredIsServed` is about responses that no DELETE has come for.
* `OutputsReach` and `OnlyAncestorsGive`, from `Collected`. `Continues`: nobody
  continues a response that has not come, so the ancestors of a create do not change
  once it has come (`AncestorsStay`). `Inherited`: whatever is collected, given or
  stored belongs to ancestors. `Walked`: what a walk has seen leads nowhere but to
  where the walk stands. So at its end the seen ids are closed under
  `previous_response_id` and, ancestors being the least such set, hold them all
  (`EndCollects`); the completed ones among them have been collected, because a stored
  answer never loses its chain (`BodyStays`).
* `SessionsStayInStep`: `SessionsKeepInStep` of `WsSession`, which is the part of the
  next one that concerns connections.
* `ConnectionsAreClients`: `WsSpec => Spec`. A connection of the WebSocket is a client
  like those of `POST /v1/responses`, so whatever is proved of `Responses` holds beside
  it. This is a refinement with the identity for mapping; what has to be shown is that a
  connection never continues a response that has not come, and never runs two creates.
* `ImplicitContinuationsSee`: `ImplicitSeesItsPrevious`. It rests on the two theorems
  before it and on `OutputsReach`: a connection's remembered response was answered
  (`FindsPrevious`), so that it is complete when the next message comes; or it was not
  stored, and then the walk fails at its first step.

### `ResponsesTurnProofs`

For all requests, all replies an agent may give and any number of tool steps and of
events (`TurnAssumption`, and `UnnamedIsNoTool` of `ToolCalls`).

* `Loop` is what all the other invariants stand on: the types of what the loop works on;
  how replies, steps and calls are numbered in each phase (`Numbers`); how far the POSTs of
  the step under way have got (`Posted`); and that only its calls are still waited for
  (`Settled`).
* `AgentsAreToldWhatIsDone`: `ToldIsDone`. `Telling`: every call that was POSTed has been
  told of, itself or by its step's failure, unless its step is under way.
* `EffectsStayInOrder`: `EffectsKeepOrder`. `OneByOne`: of two calls that were POSTed, the
  earlier one was answered with its output, so that it took effect before the later one was
  sent. A POST that timed out is the last one of a turn without the fallback.
* `LimitsCutOff`: `LimitCutsOff`, from `Listing` (what has become of each call the answer
  lists) and `Required` (a turn that had to call a tool is past the tools only at the
  limit).
* `SchemasHold`: `SchemaHoldsOfText`, from `Texts`: a message enters the answer with the
  last text before the check.
* `StreamsTellTheAnswer`: `StreamTellsTheAnswer`, in three parts. `Streamed`: calls are
  streamed in client mode and in the one step that lists them, call by call and each whole,
  in four events in a row about one item at one index (`StreamedCallsAreWhole`); no other
  event is about a call so streamed (`OtherEventsCallNothing`). That the calls are in order
  after the events of all of them were joined is shown by
  induction over the number of calls (`FlattenKeepsOrder`). `StreamTypes` are the types of
  what is sent. `Agreement`: after each event, both drains know the same ids and have the
  same item at the index of each. What
  `drain_sync` would have is a fold over all events seen (`Synced`); that a fold takes
  the last event last (`SyncStepsLast`) is the second induction.
* `EventsPoint`: `EventsPointAtTheirItems`. `Aligned`: as long as the agent's events come
  in order, text is the first item of the response, and before text and reasoning the
  agent's outputs and the response have the same items. So the index among the former,
  which `drain_stream` sends, is one in the latter.
* `TypesAreKept`: `TypeOK`. `AreCalls`: what was POSTed is a call of a reply the agent gave,
  which no later reply replaces (`RepliesGrow`).

The two inductions are over natural numbers, and go through the well-founded-induction
theorem of the library for a set in place of a predicate (`NatInduct`).

### `SessionResumeProofs`

For any number of requests, models, restarts and requests at a time (`NoneIsNew`,
`AsksAreAsks`).

* `TypesAreKept`: `TypeOK`.
* `ContextReachesAgents`: `ClientContextReachesAgent`, from `ContextIsPlanned`: what the
  client sent is in the plan, in its prefix or in its replay, as long as it is due.
* `ResumedSessionsHaveTheirModel`: `ResumedSessionHasItsModel`. Two starts that overlap
  can resume a session for the wrong model (the runs show it), and so can a lost record;
  the property sets these aside (`Clean`: `faults` is empty). `Serial`: without an overlap, one start at a time
  reads the record and writes it, and no worker sets up meanwhile. `RecordHolds`: then the
  row and `session.json` are of one session, except between the two writes of the worker
  that makes one. A start that could not read `session.json` resumes nothing.
  `Begun` and `Delivered` place workers, sessions and prompts.
* `MemoryLossesAreExplained`: `MemoryLossIsExplained`, an action property. `OneRecorded`:
  a second session is recorded only for another model, or `blind`, for `session.json` could
  not be read. `OneInUse`: the session of the row and of each worker is the only one
  recorded, unless there are two models or a blind one (`Sole`); with `OneRecorded`, whoever
  knows of a turn that the session in use does not know was switched away from or made
  blind. `Transcribed`: a session made from the whole transcript keeps up with it while its
  worker lives; one made from a part of it is `partial`, which is its explanation. `SoundIsKept`
  has these together.

### `DaemonProofs`

For any number of commands and daemons (`NamesAreApart`).

* `TypesAreKept`: `TypeOK`.
* `StartsNameTheServer`: `StartNamesTheServer`, from `Order` and `ReadsWhoAnswered`. `Order`:
  one daemon listens at most (`OneListens`), a start spawns once, and the pidfile of a daemon
  that has begun to write it names no other. So the pid that a start reads after a probe was
  answered is that of the daemon that answered, unless that one has left the port since.
* `LostPidfilesAreExplained`: `LostPidfileIsExplained`, from `PidfileIsKept`: while a
  daemon that wrote its pidfile in no race listens, no command has read another pid and is
  still to test or remove it, and whoever would remove the file is a stop that is about to
  end that daemon (`OnlyStopsRemove`). In a container a stop removes the pidfile of a
  daemon it cannot end, which the property names (`Excused`).
* `StopsLeaveNothing`: `StopLeavesNothing`, an action property, from `StopIsOnItsWay`:
  each daemon that served when a stop began has left the port since, or is the stop's
  target, or on its list, or is the first process of a container. A stop that could not list
  who is on the port ends `blind`, and nothing is claimed of it.

The bound `MaxRuns` may have any value in these theorems, so that they hold for any number
of commands.

### `FilesProofs`

For any number of files, any time and any number of uploads and deletions at once
(`SomeTimePasses`), and page sizes that `list_files` may have after its clamp
(`PagesAreClamped`).

* `AnsweredFilesAreResolved`: `AnsweredFilesResolve`. `Staged`: data is there from the first
  write of an upload to the first removal of a deletion, and next to it is the
  metadata the upload has come to write. Listings change nothing of it (`ListingsOnlyRead`).
* `PagesAreComplete`: `PagesCoverStableFiles`. What a page has is a stretch of what is
  sorted (`PageFollows`), and what is sorted is in order (`SortedIsSorted`): the ranks of
  the files are all the numbers below how many there are (`RanksAreTaken`, by counting),
  and no two files have the same one (`RanksRise`). `Loading`: no file is loaded twice, and
  no stable file is left out. `Known`: the time of a file whose upload was answered never
  changes, even when it is deleted. So the cursor keeps its place among the stable files
  from one listing of the directory to the next, and `Covered` can say that a stable file
  is on the pages, once, if and only if it does not come after the cursor.
* `TypesAreKept`: `TypeOK`, with which `Staged` and `Loading` are inductive.

### Only model-checked

* Every liveness property: `EveryPromptSettles`, `WorkersRetire`, `TurnsEnd`,
  `AgentIsAnswered`, `RepliesCome`, `TurnsComplete`, `CommandsEnd`. They need fairness and
  ENABLED, which the proof system does not reason about. What they say is shown for the
  instances of the runs alone.
* `HealthReportsActiveSessions` and `AcceptedOptionReachesAgent` are violated; one instance
  is enough for that.

Every safety invariant, every action property and both refinements (`KeepsPromise`,
`DeliversPrompts`) of the passing runs are theorems. So is the
`TypeOK` of every module that has one; in `Permission` and `Responses` it is a conjunct of
`HandlersKeepInStep` and `RowsFollowCreates`.

## Plan

The modules of the plan are written: `Supervisor` with `PromptDelivery`,
`PromptTurn`, `Permission` with `PermissionDecision`, `Responses`, `WsSession` (composed with `Responses`),
`ToolCalls` and `ResponsesTurn`, `SessionResume`, `Daemon`, `Files`; and the eight
modules of proofs. None of them declares a RECURSIVE operator.

What may still be worth a theorem: that `PromptTurn` implements the worker of
`PromptDelivery` from its `Run` to its `Answer`, which would join the two modules; and that
two listings at once do not disturb each other, which follows from `ListingsOnlyRead` but
which `Files`, with its one client, does not state.

## Not modelled

* API keys: one SQLite statement per operation on a table that only the command line
  writes.
* Configuration, paths, the command line of cursor-agent, errors: files and environment
  read once, processes spawned; no state.
* Wire types, their JSON encoding and the text of SSE events; multimodal decoding and
  downloads, which write files with fresh names; the ACP file handlers, which read and
  write the workspace on the agent's behalf; deployment; the mock agent and the tests.
* Finding calls in the text of a reply (`detect.rs` takes fenced and bare JSON apart):
  a reply comes with its calls. That a reply may look like a call by accident is so not
  told apart from a reply that asks for one.
* The list of responses with its `created_at` cursor, whose rows of one second may be
  skipped at a page boundary; `Files` has the listing whose cursor is an id.
* `resolve_conv_id`: the conversation a response runs in. A continuation without
  `X-Conversation-Id` runs in a conversation of its own, which `SessionResume` would
  show as a first request.
* `truncate_history`, which shortens a history to a budget before the plan; it would be
  a client that sends less.
* `chat_plain`, the chat completion without tools: it forwards the chunks of
  `PromptTurn`.
* Pids that are used again, a second DELETE of a file while the first is under way,
  and readers that change nothing
  (`status`, `list_pending`, `get_file_meta`, `active_count`).
