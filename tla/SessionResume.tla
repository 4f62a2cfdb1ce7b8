---------------------------- MODULE SessionResume ----------------------------
(***************************************************************************)
(* What the agent remembers of one conversation, over idle timeouts, model *)
(* switches and restarts of the server: the hot test and the prompt plan   *)
(* (routes.rs, orchestrate.rs, messages.rs), the record of the session in  *)
(* session.json and the acp_session_id column, the transcript, and         *)
(* setup_session (worker.rs).                                              *)
(*                                                                         *)
(* Supervisor models the map, the locks and the commands of workers step   *)
(* by step; here a worker is found or started in three steps, and is named *)
(* by the request that started it, as is the ACP session it creates.       *)
(* session/load and session/resume are one to this model, and so are the   *)
(* mode the server probed and, when the probe failed, the mode a worker    *)
(* finds itself, for both ask the same agent.                              *)
(*                                                                         *)
(* What an agent is told are items: <<"turn", r>> for the turn of r,       *)
(* <<"system", r>> for its system prompt, and <<"history", r>> for earlier *)
(* messages that are no turns of this conversation.                        *)
(***************************************************************************)
EXTENDS Integers, Sequences, FiniteSets, SequencesExt

CONSTANTS Requests, Models,
          None,         \* no worker, no session, no model
          Unread,       \* session.json has the model of the request, but could not be read
          Asks,         \* what requests ask for
          MaxOpen,      \* bound: requests under way at a time
          MaxRestarts   \* bound: restarts of the server

ASSUME NoneIsNew == None \notin Requests \cup Models /\ Unread \notin Models \cup {None}

Modes == {"load", "degraded"}
AskType == [model : Models, system : BOOLEAN, history : BOOLEAN]

ASSUME AsksAreAsks == Asks \subseteq AskType
Items == {"turn", "system", "history"} \X Requests

VARIABLES
  model,       \* model of each request
  pc,          \* where each request is
  plan,        \* its PromptPlan: system_prefix and replay_transcript
  due,         \* what an agent should know that answers it
  metaRead,    \* model in session.json as get_or_start read it, if it could
  mapped,      \* the worker in the supervisor's map
  worker,      \* state of each worker
  existing,    \* existing_session_id of each worker
  session,     \* the session a worker uses
  queue,       \* prompts of each worker
  mode,        \* the server's resume_mode
  meta,        \* model in session.json
  row,         \* acp_session_id in the row
  transcript,  \* turns in the transcript directory
  memory,      \* turns each session was told of
  made,        \* how each session was made
  missed,      \* what of this the agent did not know that answered it
  restarts,
  faults       \* history: starts that overlapped, records that were cut in two

reqVars  == <<model, pc, plan, due, metaRead, missed>>
supVars  == <<mapped, queue, mode>>
wrkVars  == <<worker, existing, session>>
diskVars == <<meta, row, transcript>>
agtVars  == <<memory, made>>
vars == <<reqVars, supVars, wrkVars, diskVars, agtVars, restarts, faults>>

Answered == {r \in Requests : pc[r] = "answered"}
Open == {r \in Requests : pc[r] \in {"planned", "starting", "queued"}}
Alive == {w \in Requests : worker[w] \in {"setup", "named", "ready"}}

NoPlan == [prefix |-> {}, replay |-> {}]

Init ==
  /\ model = [r \in Requests |-> None]
  /\ pc = [r \in Requests |-> "new"]
  /\ plan = [r \in Requests |-> NoPlan]
  /\ due = [r \in Requests |-> {}]
  /\ metaRead = [r \in Requests |-> None]
  /\ missed = [r \in Requests |-> {}]
  /\ mapped = None /\ queue = [w \in Requests |-> <<>>]
  /\ mode \in Modes
  /\ worker = [w \in Requests |-> "none"]
  /\ existing = [w \in Requests |-> None]
  /\ session = [w \in Requests |-> None]
  /\ meta = None /\ row = None /\ transcript = {}
  /\ memory = [s \in Requests |-> {}] /\ made = [s \in Requests |-> "not"]
  /\ restarts = 0 /\ faults = {}

(***************************************************************************)
(* A request.                                                              *)
(***************************************************************************)
TurnItems(turns) == {<<"turn", t>> : t \in turns}
TurnsIn(items)   == {t \in Requests : <<"turn", t>> \in items}

\* What a client sends before its last message, and the history is all it knows of.
SystemOf(r, ask)  == IF ask.system THEN {<<"system", r>>} ELSE {}
HistoryOf(r, ask) == IF ask.history THEN {<<"history", r>>} \cup TurnItems(Answered) ELSE {}

\* (mutant: a hot session is never sent the history)
IncrementalIfHot(history, hot) == hot
Incremental(history, hot) == hot /\ history = {}

\* build_prompt_plan
PromptPlan(system, history, hot) ==
  IF Incremental(history, hot) THEN [prefix |-> system, replay |-> {}]
                               ELSE [prefix |-> {}, replay |-> system \cup history]

Arrive(r, ask) ==
  /\ pc[r] = "new" /\ Cardinality(Open) < MaxOpen
  /\ model' = [model EXCEPT ![r] = ask.model]
  /\ plan' = [plan EXCEPT ![r] = PromptPlan(SystemOf(r, ask), HistoryOf(r, ask), mapped # None)]
  /\ due' = [due EXCEPT ![r] =
               SystemOf(r, ask) \cup HistoryOf(r, ask) \cup TurnItems(Answered)]
  /\ pc' = [pc EXCEPT ![r] = "planned"]
  /\ UNCHANGED <<metaRead, missed, restarts, faults>>
  /\ UNCHANGED supVars /\ UNCHANGED wrkVars /\ UNCHANGED diskVars /\ UNCHANGED agtVars

\* What is not needed of requests that are over.
Forget(over) ==
  /\ plan' = [r \in Requests |-> IF r \in over THEN NoPlan ELSE plan[r]]
  /\ due' = [r \in Requests |-> IF r \in over THEN {} ELSE due[r]]

Enqueue(r, w) == queue' = [queue EXCEPT ![w] = Append(@, r)]

\* get_or_start finds the worker, which may be gone already, ...
FindWorker(r) ==
  /\ pc[r] = "planned" /\ mapped # None /\ model[mapped] = model[r]
  /\ IF mapped \in Alive
     THEN pc' = [pc EXCEPT ![r] = "queued"] /\ Enqueue(r, mapped) /\ Forget({})
     ELSE pc' = [pc EXCEPT ![r] = "failed"] /\ UNCHANGED queue /\ Forget({r})
  /\ UNCHANGED <<model, metaRead, missed, mapped, mode, restarts, faults>>
  /\ UNCHANGED wrkVars /\ UNCHANGED diskVars /\ UNCHANGED agtVars

\* Starts that do not see each other's record: another is under way, or a worker
\* for the same model lives that is not mapped.
Overlaps(r) ==
  \/ \E q \in Requests \ {r} : pc[q] = "starting"
  \/ \E w \in Alive : worker[w] # "ready" \/ model[w] = model[r]
NoteOverlap(r) == faults' = IF Overlaps(r) THEN faults \cup {"overlap"} ELSE faults

\* read_session_meta: a file that is missing, cannot be read or is torn has no model,
\* which makes a difference where it has that of the request.
MetaAsRead(r) == {meta} \cup (IF meta = model[r] THEN {Unread} ELSE {})

\* ... or evicts it, or finds none, and reads session.json.
ReadMeta(r) ==
  /\ pc[r] = "planned"
  /\ mapped # None => model[mapped] # model[r]
  /\ mapped' = None
  /\ \E read \in MetaAsRead(r) : metaRead' = [metaRead EXCEPT ![r] = read]
  /\ pc' = [pc EXCEPT ![r] = "starting"]
  /\ NoteOverlap(r)
  /\ UNCHANGED <<model, plan, due, missed, queue, mode, restarts>>
  /\ UNCHANGED wrkVars /\ UNCHANGED diskVars /\ UNCHANGED agtVars

SameModelAlways(r) == TRUE  \* mutant: the recorded model is not compared
SameModel(r) == metaRead[r] = model[r]

\* It reads the row, spawns a worker, inserts it, and its prompt is sent.
Start(r) ==
  /\ pc[r] = "starting"
  /\ existing' = [existing EXCEPT ![r] = IF SameModel(r) THEN row ELSE None]
  /\ worker' = [worker EXCEPT ![r] = "setup"]
  /\ mapped' = r
  /\ Enqueue(r, r)
  /\ pc' = [pc EXCEPT ![r] = "queued"]
  /\ NoteOverlap(r)
  /\ metaRead' = [metaRead EXCEPT ![r] = IF @ = Unread THEN Unread ELSE None]
  /\ UNCHANGED <<model, plan, due, missed, mode, session, restarts>>
  /\ UNCHANGED diskVars /\ UNCHANGED agtVars

\* The workspace or the row fails it.
StartFails(r) ==
  /\ pc[r] = "starting"
  /\ pc' = [pc EXCEPT ![r] = "failed"] /\ Forget({r})
  /\ metaRead' = [metaRead EXCEPT ![r] = None]
  /\ UNCHANGED <<model, missed, restarts, faults>>
  /\ UNCHANGED supVars /\ UNCHANGED wrkVars /\ UNCHANGED diskVars /\ UNCHANGED agtVars

(***************************************************************************)
(* setup_session.                                                          *)
(***************************************************************************)
SessionReady(w, s) ==
  /\ session' = [session EXCEPT ![w] = s]
  /\ worker' = [worker EXCEPT ![w] = "ready"]
  /\ existing' = [existing EXCEPT ![w] = None]

\* Its receiver is dropped with the prompts in it.
WorkerEnds(w) ==
  /\ worker' = [worker EXCEPT ![w] = "gone"]
  /\ existing' = [existing EXCEPT ![w] = None]
  /\ session' = [session EXCEPT ![w] = None]
  /\ pc' = [r \in Requests |-> IF r \in Range(queue[w]) THEN "failed" ELSE pc[r]]
  /\ queue' = [queue EXCEPT ![w] = <<>>]
  /\ Forget(Range(queue[w]))
  /\ metaRead' = [metaRead EXCEPT ![w] = None]
  /\ UNCHANGED <<model, missed, mapped, mode>>

Load(w) ==
  /\ worker[w] = "setup" /\ existing[w] # None /\ mode = "load"
  /\ SessionReady(w, existing[w])
  /\ UNCHANGED <<restarts, faults>>
  /\ UNCHANGED reqVars /\ UNCHANGED supVars /\ UNCHANGED diskVars /\ UNCHANGED agtVars

\* The agent refuses session/load, session/new or even to initialize.
SetupFails(w) ==
  /\ worker[w] = "setup"
  /\ WorkerEnds(w)
  /\ UNCHANGED <<restarts, faults>> /\ UNCHANGED diskVars /\ UNCHANGED agtVars

CreateSession(w, how, told) ==
  /\ made' = [made EXCEPT ![w] = how]
  /\ memory' = [memory EXCEPT ![w] = told]

\* load_transcript_context: a directory that cannot be read is empty, an entry that cannot
\* be had ends the list, and a file that cannot be read is left out.
LoadTranscript == SUBSET transcript

\* The client's replay, or what can be read of the transcript; the prompt that carries it
\* may fail, which nobody looks at.
DegradedContexts(w) ==
  {{}} \cup (IF plan[w].replay # {} THEN {TurnsIn(plan[w].replay)} ELSE LoadTranscript)
HowDegraded(w, told) ==
  CASE plan[w].replay # {} -> "replayed"
    [] told = transcript   -> "transcribed"
    [] OTHER               -> "partial"

DegradedSession(w) ==
  /\ worker[w] = "setup" /\ existing[w] # None /\ mode = "degraded"
  /\ \E told \in DegradedContexts(w) : CreateSession(w, HowDegraded(w, told), told)
  /\ SessionReady(w, w)
  /\ UNCHANGED <<restarts, faults>>
  /\ UNCHANGED reqVars /\ UNCHANGED supVars /\ UNCHANGED diskVars

\* session.json is written if it can be, and a write that fails may leave it empty, ...
NewSession(w) ==
  /\ worker[w] = "setup" /\ existing[w] = None
  /\ CreateSession(w, IF metaRead[w] = Unread THEN "blind" ELSE "new", {})
  /\ \/ meta' = model[w] /\ UNCHANGED faults
     \/ meta' \in {meta, None} /\ faults' = faults \cup {"record"}
  /\ session' = [session EXCEPT ![w] = w]
  /\ worker' = [worker EXCEPT ![w] = "named"]
  /\ metaRead' = [metaRead EXCEPT ![w] = None]
  /\ UNCHANGED <<model, pc, plan, due, missed, existing, row, transcript, restarts>>
  /\ UNCHANGED supVars

RecordSkipped(w) == UNCHANGED row  \* mutant: the row is not written
Record(w) == row' = session[w]

\* ... and then the row, or the worker ends.
RecordSession(w) ==
  /\ worker[w] = "named"
  /\ Record(w)
  /\ SessionReady(w, session[w])
  /\ UNCHANGED <<meta, transcript, restarts, faults>>
  /\ UNCHANGED reqVars /\ UNCHANGED supVars /\ UNCHANGED agtVars

RecordFails(w) ==
  /\ worker[w] = "named"
  /\ WorkerEnds(w)
  /\ faults' = faults \cup {"record"}
  /\ UNCHANGED restarts /\ UNCHANGED diskVars /\ UNCHANGED agtVars

(***************************************************************************)
(* A worker with a session.                                                *)
(***************************************************************************)
\* What the agent knows of the prompt of r in session s.
Known(r, s) == TurnItems(memory[s]) \cup plan[r].prefix \cup plan[r].replay

TranscriptIsKept(t) == transcript' = transcript \cup {t}

Serve(w) ==
  LET r == Head(queue[w])
      s == session[w]
  IN  /\ worker[w] = "ready" /\ queue[w] # <<>>
      /\ queue' = [queue EXCEPT ![w] = Tail(@)]
      /\ \/ /\ pc' = [pc EXCEPT ![r] = "answered"]
            /\ missed' = [missed EXCEPT ![r] = due[r] \ Known(r, s)]
            /\ memory' = [memory EXCEPT ![s] = TurnsIn(Known(r, s)) \cup {r}]
            /\ TranscriptIsKept(r) \/ UNCHANGED transcript
         \/ /\ pc' = [pc EXCEPT ![r] = "failed"]
            /\ UNCHANGED <<memory, transcript, missed>>
      /\ Forget({r})
      /\ UNCHANGED <<model, metaRead, mapped, mode, meta, row, made, restarts, faults>>
      /\ UNCHANGED wrkVars

\* The idle timeout, a Shutdown reached, or the agent's end.
Ends(w) ==
  /\ worker[w] = "ready" /\ queue[w] = <<>>
  /\ WorkerEnds(w)
  /\ UNCHANGED <<restarts, faults>> /\ UNCHANGED diskVars /\ UNCHANGED agtVars

\* The watcher removes the entry of the conversation, whosever it is.
Unmap(w) ==
  /\ worker[w] = "gone"
  /\ worker' = [worker EXCEPT ![w] = "unmapped"]
  /\ mapped' = None
  /\ UNCHANGED <<existing, session, queue, mode, restarts, faults>>
  /\ UNCHANGED reqVars /\ UNCHANGED diskVars /\ UNCHANGED agtVars

Writing(w) == worker[w] = "setup" /\ existing[w] = None /\ meta # None

\* The server ends, by a crash or a stop, and is started again.  It may end before a
\* new session is in its row, or while session.json is written anew and still empty.
Restart ==
  /\ restarts < MaxRestarts
  /\ restarts' = restarts + 1
  /\ mode' \in Modes
  /\ mapped' = None /\ queue' = [w \in Requests |-> <<>>]
  /\ worker' = [w \in Requests |-> IF worker[w] = "none" THEN "none" ELSE "unmapped"]
  /\ pc' = [r \in Requests |-> IF r \in Open THEN "failed" ELSE pc[r]]
  /\ Forget(Open)
  /\ \/ (\A w \in Requests : worker[w] # "named") /\ UNCHANGED <<meta, faults>>
     \/ /\ \/ (\E w \in Requests : worker[w] = "named") /\ UNCHANGED meta
           \/ (\E w \in Requests : Writing(w)) /\ meta' = None
        /\ faults' = faults \cup {"record"}
  /\ existing' = [w \in Requests |-> None] /\ session' = [w \in Requests |-> None]
  /\ metaRead' = [r \in Requests |-> None]
  /\ UNCHANGED <<model, missed, row, transcript>> /\ UNCHANGED agtVars

-----------------------------------------------------------------------------
RequestStep(r) == FindWorker(r) \/ ReadMeta(r) \/ Start(r) \/ StartFails(r)
WorkerStep(w) ==
  \/ Load(w) \/ SetupFails(w) \/ DegradedSession(w) \/ NewSession(w)
  \/ RecordSession(w) \/ RecordFails(w) \/ Serve(w)

Settled == \A r \in Requests : pc[r] \in {"answered", "failed"}

Next ==
  \/ \E r \in Requests :
       \/ \E ask \in Asks : Arrive(r, ask)
       \/ RequestStep(r) \/ WorkerStep(r) \/ Ends(r) \/ Unmap(r)
  \/ Restart
  \/ Settled /\ UNCHANGED vars

Spec == Init /\ [][Next]_vars

-----------------------------------------------------------------------------
\* The variables have their types (fields of ActiveConversation and WorkerConfig).
TypeOK ==
  /\ model \in [Requests -> Models \cup {None}]
  /\ pc \in [Requests -> {"new", "planned", "starting", "queued", "answered", "failed"}]
  /\ plan \in [Requests -> [prefix : SUBSET Items, replay : SUBSET Items]]
  /\ due \in [Requests -> SUBSET Items]
  /\ metaRead \in [Requests -> Models \cup {None, Unread}]
  /\ mapped \in Requests \cup {None}
  /\ worker \in [Requests -> {"none", "setup", "named", "ready", "gone", "unmapped"}]
  /\ existing \in [Requests -> Requests \cup {None}]
  /\ session \in [Requests -> Requests \cup {None}]
  /\ row \in Requests \cup {None}
  /\ mode \in Modes
  /\ queue \in [Requests -> Seq(Requests)]
  /\ meta \in Models \cup {None} /\ transcript \subseteq Requests
  /\ memory \in [Requests -> SUBSET Requests] /\ missed \in [Requests -> SUBSET Items]
  /\ made \in [Requests -> {"not", "new", "blind", "replayed", "transcribed", "partial"}]
  /\ restarts \in Nat
  /\ faults \subseteq {"overlap", "record"}

\* A client that sends its earlier messages or a system prompt is answered by an
\* agent that was given them, however stale the hot test was (messages.rs:133-174).
ClientContextReachesAgent ==
  \A r \in Answered : missed[r] \cap ({"system", "history"} \X Requests) = {}

\* The session a worker resumes was made for the worker's model, unless the record
\* of a session was cut in two by a failed write or a restart between session.json
\* and the row, or by two starts at a time (supervisor.rs:242-249, worker.rs:607).
ResumedSessionHasItsModel ==
  faults = {} => \A w \in Requests : existing[w] # None => model[existing[w]] = model[w]

\* At the time a request that sends no history is answered without knowledge of an earlier
\* turn t of the conversation only if
\*   - a start overlapped another or the record of a session was cut in two,
\*   - a session of another model has been made, or t is not in the transcript,
\*   - its session was made new although there was one, for session.json could not be
\*     read (multimodal.rs:171-172, supervisor.rs:243-246),
\*   - it is a degraded one and what it was told is not all of the transcript, for some of
\*     it could not be read or the prompt failed (worker.rs:567, 629-634), or the client
\*     had sent anything, even a system prompt alone (worker.rs:557),
\*   - only degraded sessions were told of t by then and this is a recorded one, for
\*     degraded sessions are not recorded (worker.rs:574-575).
SessionsOf(t) == {s \in Requests : t \in memory[s]}
Recorded(s)   == made[s] \in {"new", "blind"}
Explained(r, t) ==
  \/ \E s \in Requests : made[s] # "not" /\ model[s] # model[r]
  \/ t \notin transcript
  \/ \E s \in SessionsOf(r) : made[s] \in {"blind", "replayed", "partial"}
  \/ (\A s \in SessionsOf(t) : ~Recorded(s)) /\ (\E s \in SessionsOf(r) : Recorded(s))
MemoryLossIsExplained ==
  [][faults' = {} =>
       \A r \in Answered' \ Answered : \A t \in TurnsIn(missed'[r]) : Explained(r, t)']_vars
==============================================================================
