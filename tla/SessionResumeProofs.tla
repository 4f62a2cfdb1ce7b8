------------------------ MODULE SessionResumeProofs -------------------------
(***************************************************************************)
(* Proofs about what the agent of a conversation remembers, for any number *)
(* of requests, models, restarts and requests at a time.                   *)
(***************************************************************************)
EXTENDS SessionResume, TLAPS

ClientItems == {"system", "history"} \X Requests

\* What the client sent is in the plan, as long as the plan is needed; nobody is due to
\* be told of a turn that is yet to come.
ContextIsPlanned ==
  \A r \in Requests : /\ due[r] \cap ClientItems \subseteq plan[r].prefix \cup plan[r].replay
                      /\ missed[r] \cap ClientItems = {}
                      /\ <<"turn", r>> \notin due[r]

\* Workers, sessions and records come of requests that have come to that point.
SettingUp(w) == worker[w] \in {"setup", "named"}
Spawning == {"queued", "answered", "failed"}

Begun ==
  /\ \A r \in Requests : pc[r] # "new" => model[r] \in Models
  /\ \A w \in Requests : worker[w] # "none" => pc[w] \in Spawning
  /\ \A s \in Requests : made[s] # "not" => worker[s] \notin {"none", "setup"}
  /\ row # None => Recorded(row)
  /\ mapped # None => worker[mapped] # "none"
  /\ \A w \in Requests :
       /\ existing[w] # None => Recorded(existing[w]) /\ worker[w] = "setup"
       /\ worker[w] = "named" => session[w] = w /\ Recorded(w)
       /\ worker[w] = "ready" => /\ session[w] \in Requests /\ made[session[w]] # "not"
                                 /\ session[w] = w \/ Recorded(session[w])

\* A prompt waits for a worker of the model it asks for.
Delivered == \A w \in Requests : \A r \in Range(queue[w]) :
  pc[r] \in Spawning /\ model[r] = model[w] /\ worker[w] # "none"

\* No start overlapped another and no record was lost.
Clean == faults = {}

\* While it stays clean, one start at a time reads the record and writes it.
Serial == Clean =>
  /\ \A q \in Requests : pc[q] = "starting" =>
       /\ metaRead[q] \in {meta, Unread}
       /\ \A p \in Requests : pc[p] = "starting" => p = q
       /\ \A w \in Requests : ~SettingUp(w)
  /\ \A v, w \in Requests : SettingUp(v) /\ SettingUp(w) => v = w
  /\ \A v, w \in Alive : model[v] = model[w] => v = w

\* ... so that the record is of one session, and sessions are resumed by their model.
RecordHolds == Clean =>
  /\ row # None => model[row] = meta \/ \E w \in Requests : worker[w] = "named"
  /\ \A w \in Requests :
       /\ worker[w] = "named" => meta = model[w]
       /\ existing[w] # None => model[existing[w]] = model[w]
       /\ worker[w] = "ready" => model[session[w]] = model[w]

\* Sessions of two models were made.
Mixed == \E s, t \in Requests : made[s] # "not" /\ made[t] # "not" /\ model[s] # model[t]

\* ... and a second session is recorded for another model only, or for session.json could
\* not be read.
Sole(s) == \A x \in Requests : Recorded(x) /\ x # s => Mixed \/ made[s] = "blind"

OneRecorded == Clean =>
  /\ \A s \in Requests : Recorded(s) =>
       meta # None /\ (row # None \/ \E w \in Requests : worker[w] = "named")
  /\ meta # None => \E s \in Requests : Recorded(s) /\ model[s] = meta
  /\ \A w \in Requests : worker[w] = "setup" /\ existing[w] = None =>
       \A s \in Requests : Recorded(s) => Mixed \/ model[s] # model[w] \/ metaRead[w] = Unread

OneInUse == Clean =>
  /\ row # None => Sole(row) \/ \E w \in Requests : worker[w] = "named"
  /\ \A w \in Requests :
       /\ existing[w] # None => Sole(existing[w])
       /\ worker[w] = "named" => Sole(w)
       /\ worker[w] = "ready" /\ Recorded(session[w]) => Sole(session[w])

\* A session made from the whole transcript keeps up with it while its worker lives.
Transcribed == Clean =>
  \A w \in Requests : worker[w] = "ready" /\ made[session[w]] = "transcribed" =>
    transcript \subseteq memory[session[w]] \/ Mixed

-----------------------------------------------------------------------------
(* The prompts of a worker. *)

LEMMA RangeOfQueue ==
  ASSUME NEW S, NEW q \in Seq(S)
  PROVE  /\ Range(q) \subseteq S
         /\ \A x : Range(Append(q, x)) = Range(q) \cup {x}
         /\ q # <<>> => /\ Head(q) \in Range(q) /\ Range(Tail(q)) \subseteq Range(q)
                        /\ Tail(q) \in Seq(S)
<1>1. Range(q) \subseteq S
  BY DEF Range
<1>2. ASSUME NEW x PROVE Range(Append(q, x)) = Range(q) \cup {x}
  <2>1. /\ Len(q) \in Nat /\ DOMAIN q = 1..Len(q)
        /\ DOMAIN Append(q, x) = 1..(Len(q) + 1)
        /\ \A i \in 1..Len(q) : Append(q, x)[i] = q[i]
        /\ Append(q, x)[Len(q) + 1] = x
    OBVIOUS
  <2>2. 1..(Len(q) + 1) = 1..Len(q) \cup {Len(q) + 1}
    BY <2>1
  <2> QED BY <2>1, <2>2 DEF Range
<1>3. ASSUME q # <<>>
      PROVE  Head(q) \in Range(q) /\ Range(Tail(q)) \subseteq Range(q) /\ Tail(q) \in Seq(S)
  <2>1. /\ Len(q) \in Nat /\ DOMAIN q = 1..Len(q) /\ 1 \in 1..Len(q) /\ Head(q) = q[1]
        /\ DOMAIN Tail(q) = 1..(Len(q) - 1)
        /\ \A i \in 1..(Len(q) - 1) : Tail(q)[i] = q[i + 1]
        /\ Tail(q) \in Seq(S)
    BY <1>3
  <2>2. \A i \in 1..(Len(q) - 1) : i + 1 \in 1..Len(q)
    BY <2>1
  <2> QED BY <2>1, <2>2 DEF Range
<1> QED BY <1>1, <1>2, <1>3

LEMMA RangeOfNothing == Range(<<>>) = {}
BY DEF Range

-----------------------------------------------------------------------------
(* Types. *)

LEMMA InitTypeOK == Init => TypeOK
BY NoneIsNew DEF Init, TypeOK, NoPlan, Modes

\* The client's items are items.
LEMMA SentAreItems ==
  ASSUME TypeOK, NEW r \in Requests, NEW ask \in Asks
  PROVE  /\ SystemOf(r, ask) \subseteq Items /\ HistoryOf(r, ask) \subseteq Items
         /\ TurnItems(Answered) \subseteq Items /\ ask.model \in Models
<1>1. TurnItems(Answered) \subseteq Items
  BY DEF TurnItems, Answered, Items
<1> QED BY <1>1, AsksAreAsks DEF AskType, SystemOf, HistoryOf, Items

LEMMA ArriveType ==
  ASSUME TypeOK, NEW r \in Requests, NEW ask \in Asks, Arrive(r, ask)
  PROVE  TypeOK'
<1>1. PromptPlan(SystemOf(r, ask), HistoryOf(r, ask), mapped # None)
        \in [prefix : SUBSET Items, replay : SUBSET Items]
  BY SentAreItems DEF PromptPlan
<1>2. SystemOf(r, ask) \cup HistoryOf(r, ask) \cup TurnItems(Answered) \subseteq Items
  BY SentAreItems
<1> QED BY <1>1, <1>2, SentAreItems
        DEF Arrive, TypeOK, supVars, wrkVars, diskVars, agtVars

LEMMA ForgetType ==
  ASSUME TypeOK, NEW S, Forget(S)
  PROVE  /\ plan' \in [Requests -> [prefix : SUBSET Items, replay : SUBSET Items]]
         /\ due' \in [Requests -> SUBSET Items]
BY DEF Forget, TypeOK, NoPlan

LEMMA RequestStepType ==
  ASSUME TypeOK, NEW r \in Requests, RequestStep(r)
  PROVE  TypeOK'
<1>1. CASE FindWorker(r)
  <2>1. queue' \in [Requests -> Seq(Requests)]
    <3>1. mapped \in Requests /\ queue[mapped] \in Seq(Requests)
      BY <1>1 DEF FindWorker, TypeOK
    <3>2. Append(queue[mapped], r) \in Seq(Requests)
      BY <3>1
    <3>3. queue' = queue \/ queue' = [queue EXCEPT ![mapped] = Append(queue[mapped], r)]
      BY <1>1, <3>1 DEF FindWorker, Enqueue, TypeOK
    <3>4. queue \in [Requests -> Seq(Requests)]
      BY DEF TypeOK
    <3>5. [queue EXCEPT ![mapped] = Append(queue[mapped], r)] \in [Requests -> Seq(Requests)]
      BY <3>1, <3>2, <3>4
    <3> QED BY <3>3, <3>4, <3>5
  <2> QED BY <1>1, <2>1, ForgetType DEF FindWorker, TypeOK, wrkVars, diskVars, agtVars
<1>2. CASE ReadMeta(r)
  <2>1. metaRead' \in [Requests -> Models \cup {None, Unread}]
    BY <1>2 DEF ReadMeta, MetaAsRead, TypeOK
  <2> QED BY <1>2, <2>1 DEF ReadMeta, NoteOverlap, TypeOK, wrkVars, diskVars, agtVars
<1>3. CASE Start(r)
  <2>1. queue' \in [Requests -> Seq(Requests)]
    BY <1>3 DEF Start, Enqueue, TypeOK
  <2> QED BY <1>3, <2>1 DEF Start, NoteOverlap, TypeOK, diskVars, agtVars
<1>4. CASE StartFails(r)
  BY <1>4, ForgetType DEF StartFails, TypeOK, supVars, wrkVars, diskVars, agtVars
<1> QED BY <1>1, <1>2, <1>3, <1>4 DEF RequestStep

LEMMA WorkerEndsType ==
  ASSUME TypeOK, NEW w \in Requests, WorkerEnds(w), UNCHANGED <<restarts, diskVars, agtVars>>,
         faults' \subseteq {"overlap", "record"}
  PROVE  TypeOK'
<1>1. queue' \in [Requests -> Seq(Requests)]
  BY DEF WorkerEnds, TypeOK
<1> QED BY <1>1, ForgetType DEF WorkerEnds, TypeOK, diskVars, agtVars

LEMMA ToldAreRequests ==
  ASSUME TypeOK, NEW w \in Requests
  PROVE  \A told \in DegradedContexts(w) : told \subseteq Requests
BY DEF DegradedContexts, TurnsIn, LoadTranscript, TypeOK

LEMMA ServeType ==
  ASSUME TypeOK, NEW w \in Requests, Serve(w)
  PROVE  TypeOK'
<1>1. PICK r \in Requests : r = Head(queue[w])
  BY RangeOfQueue DEF Serve, TypeOK
<1>2. queue' \in [Requests -> Seq(Requests)]
  BY RangeOfQueue DEF Serve, TypeOK
<1>3. TurnsIn(Known(r, session[w])) \cup {r} \subseteq Requests
  BY DEF TurnsIn
<1>4. /\ memory' \in [Requests -> SUBSET Requests] /\ missed' \in [Requests -> SUBSET Items]
      /\ transcript' \subseteq Requests
  <2>1. memory' = memory \/ memory' = [memory EXCEPT ![session[w]] =
                                         TurnsIn(Known(r, session[w])) \cup {r}]
    BY <1>1 DEF Serve
  <2>2. missed' = missed \/ missed' = [missed EXCEPT ![r] = due[r] \ Known(r, session[w])]
    BY <1>1 DEF Serve
  <2>3. transcript' \subseteq Requests
    BY <1>1 DEF Serve, TypeOK, TranscriptIsKept
  <2>4. [memory EXCEPT ![session[w]] = TurnsIn(Known(r, session[w])) \cup {r}]
          \in [Requests -> SUBSET Requests]
    BY <1>3 DEF TypeOK
  <2>5. [missed EXCEPT ![r] = due[r] \ Known(r, session[w])] \in [Requests -> SUBSET Items]
    BY DEF TypeOK
  <2> QED BY <2>1, <2>2, <2>3, <2>4, <2>5 DEF TypeOK
<1> QED BY <1>1, <1>2, <1>4, ForgetType DEF Serve, TypeOK, wrkVars

LEMMA WorkerStepType ==
  ASSUME TypeOK, NEW w \in Requests, WorkerStep(w) \/ Ends(w) \/ Unmap(w)
  PROVE  TypeOK'
<1> USE DEF reqVars, supVars, wrkVars, diskVars, agtVars
<1>1. CASE Load(w)
  BY <1>1 DEF Load, SessionReady, TypeOK
<1>2. CASE SetupFails(w) \/ Ends(w)
  BY <1>2, WorkerEndsType DEF SetupFails, Ends, TypeOK
<1>3. CASE DegradedSession(w)
  <2>1. PICK told \in SUBSET Requests, how \in {"replayed", "transcribed", "partial"} :
          CreateSession(w, how, told)
    BY <1>3, ToldAreRequests DEF DegradedSession, HowDegraded
  <2>2. /\ made' \in [Requests -> {"not", "new", "blind", "replayed", "transcribed", "partial"}]
        /\ memory' \in [Requests -> SUBSET Requests]
    BY <2>1 DEF CreateSession, TypeOK
  <2> QED BY <1>3, <2>2 DEF DegradedSession, SessionReady, TypeOK
<1>4. CASE NewSession(w)
  <2>1. PICK how \in {"new", "blind"} : CreateSession(w, how, {})
    BY <1>4 DEF NewSession
  <2>2. /\ made' \in [Requests -> {"not", "new", "blind", "replayed", "transcribed", "partial"}]
        /\ memory' \in [Requests -> SUBSET Requests]
    BY <2>1 DEF CreateSession, TypeOK
  <2>3. meta' \in Models \cup {None} /\ faults' \subseteq {"overlap", "record"}
    <3>1. meta' = model[w] \/ meta' = meta \/ meta' = None
      BY <1>4 DEF NewSession
    <3>2. faults' = faults \/ faults' = faults \cup {"record"}
      BY <1>4 DEF NewSession
    <3>3. meta' \in Models \cup {None}
      BY <3>1 DEF TypeOK
    <3>4. faults' \subseteq {"overlap", "record"}
      BY <3>2 DEF TypeOK
    <3> QED BY <3>3, <3>4
  <2>4. metaRead' \in [Requests -> Models \cup {None, Unread}]
    BY <1>4 DEF NewSession, TypeOK
  <2> QED BY <1>4, <2>2, <2>3, <2>4 DEF NewSession, TypeOK
<1>5. CASE RecordSession(w)
  BY <1>5 DEF RecordSession, Record, SessionReady, TypeOK
<1>6. CASE RecordFails(w)
  BY <1>6, WorkerEndsType DEF RecordFails, TypeOK
<1>7. CASE Unmap(w)
  BY <1>7 DEF Unmap, TypeOK
<1> QED BY <1>1, <1>2, <1>3, <1>4, <1>5, <1>6, <1>7, ServeType DEF WorkerStep

LEMMA RestartType == TypeOK /\ Restart => TypeOK'
<1> SUFFICES ASSUME TypeOK, Restart PROVE TypeOK'
  OBVIOUS
<1>1. pc' \in [Requests -> {"new", "planned", "starting", "queued", "answered", "failed"}]
  BY DEF Restart, TypeOK
<1>2. /\ plan' \in [Requests -> [prefix : SUBSET Items, replay : SUBSET Items]]
      /\ due' \in [Requests -> SUBSET Items]
  BY ForgetType DEF Restart
<1>3. /\ worker' \in [Requests -> {"none", "setup", "named", "ready", "gone", "unmapped"}]
      /\ queue' \in [Requests -> Seq(Requests)]
  BY DEF Restart, TypeOK
<1>4. /\ existing' \in [Requests -> Requests \cup {None}]
      /\ session' \in [Requests -> Requests \cup {None}]
      /\ metaRead' \in [Requests -> Models \cup {None, Unread}]
  BY DEF Restart
<1>5. meta' \in Models \cup {None} /\ faults' \subseteq {"overlap", "record"}
  <2>1. meta' = meta \/ meta' = None
    BY DEF Restart
  <2>2. faults' = faults \/ faults' = faults \cup {"record"}
    BY DEF Restart
  <2> QED BY <2>1, <2>2 DEF TypeOK
<1>6. mode' \in Modes /\ restarts' \in Nat /\ mapped' = None
  BY DEF Restart, TypeOK
<1>7. UNCHANGED <<model, missed, row, transcript, memory, made>>
  BY DEF Restart, agtVars
<1> QED BY <1>1, <1>2, <1>3, <1>4, <1>5, <1>6, <1>7 DEF TypeOK

LEMMA NextTypeOK == TypeOK /\ [Next]_vars => TypeOK'
<1>1. TypeOK /\ UNCHANGED vars => TypeOK'
  BY DEF vars, reqVars, supVars, wrkVars, diskVars, agtVars, TypeOK
<1> QED BY <1>1, ArriveType, RequestStepType, WorkerStepType, RestartType DEF Next

\* The variables have their types in every behaviour.
THEOREM TypesAreKept == Spec => []TypeOK
BY InitTypeOK, NextTypeOK, PTL DEF Spec
-----------------------------------------------------------------------------
(* What the client sent. *)

LEMMA InitContext == Init => ContextIsPlanned
BY DEF Init, ContextIsPlanned, NoPlan

\* A plan that is forgotten is not needed any more.
LEMMA ForgetContext ==
  ASSUME TypeOK, ContextIsPlanned, NEW S, Forget(S), UNCHANGED missed
  PROVE  ContextIsPlanned'
BY DEF ContextIsPlanned, Forget, NoPlan

\* An incremental prompt leaves no history out, for there is none, and any other prompt
\* has both the system prompt and the history.
LEMMA PlanHasAll ==
  ASSUME NEW system, NEW history, NEW hot \in BOOLEAN
  PROVE  LET p == PromptPlan(system, history, hot)
         IN  system \cup history \subseteq p.prefix \cup p.replay
BY DEF PromptPlan, Incremental

LEMMA ArriveContext ==
  ASSUME TypeOK, ContextIsPlanned, NEW r \in Requests, NEW ask \in Asks, Arrive(r, ask)
  PROVE  ContextIsPlanned'
<1> DEFINE p == PromptPlan(SystemOf(r, ask), HistoryOf(r, ask), mapped # None)
<1>1. SystemOf(r, ask) \cup HistoryOf(r, ask) \subseteq p.prefix \cup p.replay
  BY PlanHasAll
<1>2. TurnItems(Answered) \cap ClientItems = {}
  BY DEF TurnItems, ClientItems
<1>3. /\ due' = [due EXCEPT ![r] = SystemOf(r, ask) \cup HistoryOf(r, ask) \cup TurnItems(Answered)]
      /\ plan' = [plan EXCEPT ![r] = p]
      /\ missed' = missed
  BY DEF Arrive
<1>4. <<"turn", r>> \notin due'[r]
  BY DEF Arrive, SystemOf, HistoryOf, TurnItems, Answered, TypeOK
<1> HIDE DEF p
<1> QED BY <1>1, <1>2, <1>3, <1>4 DEF ContextIsPlanned, TypeOK

LEMMA ServeContext ==
  ASSUME TypeOK, ContextIsPlanned, NEW w \in Requests, Serve(w)
  PROVE  ContextIsPlanned'
<1>1. PICK r \in Requests : r = Head(queue[w])
  BY RangeOfQueue DEF Serve, TypeOK
<1>2. Forget({r})
  BY <1>1 DEF Serve
<1>3. \/ missed' = missed
      \/ missed' = [missed EXCEPT ![r] = due[r] \ Known(r, session[w])]
  BY <1>1 DEF Serve
<1>4. (due[r] \ Known(r, session[w])) \cap ClientItems = {}
  BY DEF ContextIsPlanned, Known
<1>5. \A q \in Requests : missed'[q] \cap ClientItems = {}
  <2>1. /\ missed \in [Requests -> SUBSET Items]
        /\ \A q \in Requests : missed[q] \cap ClientItems = {}
    BY DEF ContextIsPlanned, TypeOK
  <2> QED BY <1>3, <1>4, <2>1
<1> QED BY <1>2, <1>5 DEF ContextIsPlanned, Forget, NoPlan

LEMMA NextContext == TypeOK /\ ContextIsPlanned /\ [Next]_vars => ContextIsPlanned'
<1> SUFFICES ASSUME TypeOK, ContextIsPlanned, [Next]_vars PROVE ContextIsPlanned'
  OBVIOUS
<1>1. ASSUME UNCHANGED <<plan, due, missed>> PROVE ContextIsPlanned'
  BY <1>1 DEF ContextIsPlanned
<1>2. ASSUME NEW r \in Requests, RequestStep(r) PROVE ContextIsPlanned'
  <2>1. CASE FindWorker(r)
    BY <2>1, ForgetContext DEF FindWorker
  <2>2. CASE ReadMeta(r) \/ Start(r)
    BY <1>1, <2>2 DEF ReadMeta, Start
  <2>3. CASE StartFails(r)
    BY <2>3, ForgetContext DEF StartFails
  <2> QED BY <1>2, <2>1, <2>2, <2>3 DEF RequestStep
<1>3. ASSUME NEW w \in Requests, WorkerStep(w) \/ Ends(w) \/ Unmap(w) PROVE ContextIsPlanned'
  <2>1. CASE SetupFails(w) \/ RecordFails(w) \/ Ends(w)
    BY <2>1, ForgetContext DEF SetupFails, RecordFails, Ends, WorkerEnds
  <2>2. CASE Load(w) \/ DegradedSession(w) \/ NewSession(w) \/ RecordSession(w) \/ Unmap(w)
    BY <1>1, <2>2 DEF Load, DegradedSession, NewSession, RecordSession, Unmap, reqVars
  <2> QED BY <1>3, <2>1, <2>2, ServeContext DEF WorkerStep
<1>4. CASE Restart
  BY <1>4, ForgetContext DEF Restart
<1>5. CASE UNCHANGED vars
  BY <1>1, <1>5 DEF vars, reqVars
<1> QED BY <1>2, <1>3, <1>4, <1>5, ArriveContext DEF Next

\* A client that sends its earlier messages or a system prompt is answered by an agent
\* that was given them: the test whether the session is hot, made before a worker is
\* found or started, decides how they are sent, and never whether (messages.rs).
THEOREM ContextReachesAgents == Spec => []ClientContextReachesAgent
<1>1. ContextIsPlanned => ClientContextReachesAgent
  BY DEF ContextIsPlanned, ClientContextReachesAgent, Answered, ClientItems
<1> QED BY <1>1, InitContext, NextContext, TypesAreKept, PTL DEF Spec

-----------------------------------------------------------------------------
(* Workers, sessions and records. *)

LEMMA InitBegun == Init => Begun /\ Delivered
BY NoneIsNew, RangeOfNothing DEF Init, Begun, Delivered, Recorded

LEMMA ArriveBegun ==
  ASSUME TypeOK, Begun, Delivered, NEW r \in Requests, NEW ask \in Asks, Arrive(r, ask)
  PROVE  Begun' /\ Delivered'
<1>1. ask.model \in Models
  BY SentAreItems
<1>2. /\ pc[r] = "new" /\ worker[r] = "none"
      /\ \A w \in Requests : r \notin Range(queue[w])
  BY DEF Arrive, Begun, Delivered, Spawning
<1>3. Begun'
  BY <1>1, <1>2 DEF Arrive, Begun, TypeOK, Spawning, Recorded, supVars, wrkVars, diskVars, agtVars
<1>4. Delivered'
  BY <1>2, RangeOfQueue DEF Arrive, Delivered, TypeOK, Spawning, supVars, wrkVars
<1> QED BY <1>3, <1>4

LEMMA RequestStepBegun ==
  ASSUME TypeOK, Begun, Delivered, NEW r \in Requests, RequestStep(r)
  PROVE  Begun' /\ Delivered'
<1> USE DEF Spawning
<1>1. CASE FindWorker(r)
  <2>1. Begun'
    <3>1. /\ pc[r] = "planned"
          /\ pc' = [pc EXCEPT ![r] = "queued"] \/ pc' = [pc EXCEPT ![r] = "failed"]
          /\ UNCHANGED <<model, mapped, worker, existing, session, row, made>>
      BY <1>1 DEF FindWorker, wrkVars, diskVars, agtVars
    <3>2. \A q \in Requests : /\ pc[q] \in Spawning => pc'[q] \in Spawning
                              /\ pc'[q] # "new" => pc[q] # "new"
      BY <3>1 DEF TypeOK
    <3> QED BY <3>1, <3>2 DEF Begun, Recorded
  <2>2. PICK m \in Requests : m = mapped /\ worker[m] # "none"
    BY <1>1 DEF FindWorker, Begun, TypeOK
  <2>3. \A w \in Requests : Range(queue'[w]) \subseteq Range(queue[w]) \cup {r}
                            /\ (w # m => queue'[w] = queue[w])
    <3>1. queue' = queue \/ queue' = [queue EXCEPT ![m] = Append(queue[m], r)]
      BY <1>1, <2>2 DEF FindWorker, Enqueue, TypeOK
    <3>2. Range(Append(queue[m], r)) = Range(queue[m]) \cup {r}
      BY RangeOfQueue DEF TypeOK
    <3> QED BY <3>1, <3>2 DEF TypeOK
  <2>4. pc'[r] \in Spawning /\ model[r] = model[m]
        /\ \A q \in Requests : pc[q] \in Spawning => pc'[q] \in Spawning
    BY <1>1, <2>2 DEF FindWorker, TypeOK
  <2>5. \A w \in Requests : Range(queue[w]) \subseteq Requests
    BY RangeOfQueue DEF TypeOK
  <2>6. UNCHANGED <<model, worker>>
    BY <1>1 DEF FindWorker, wrkVars
  <2>7. Delivered'
    BY <2>2, <2>3, <2>4, <2>5, <2>6 DEF Delivered
  <2> QED BY <2>1, <2>7
<1>2. CASE ReadMeta(r)
  <2>1. Begun'
    BY <1>2 DEF ReadMeta, Begun, TypeOK, Recorded, wrkVars, diskVars, agtVars
  <2>2. \A w \in Requests : r \notin Range(queue[w])
    BY <1>2 DEF ReadMeta, Delivered
  <2>3. Delivered'
    BY <1>2, <2>2, RangeOfQueue DEF ReadMeta, Delivered, TypeOK, wrkVars
  <2> QED BY <2>1, <2>3
<1>3. CASE Start(r)
  <2>1. Begun'
    <3>1. /\ pc[r] = "starting" /\ pc' = [pc EXCEPT ![r] = "queued"]
          /\ worker' = [worker EXCEPT ![r] = "setup"] /\ mapped' = r
          /\ existing' = [existing EXCEPT ![r] = row] \/ existing' = [existing EXCEPT ![r] = None]
          /\ UNCHANGED <<model, session, row, made>>
      BY <1>3 DEF Start, diskVars, agtVars
    <3>2. worker[r] = "none" /\ made[r] = "not"
      BY <3>1 DEF Begun, TypeOK
    <3>3. \A w \in Requests : existing'[w] # None => Recorded(existing'[w]) /\ worker'[w] = "setup"
      <4>1. \A w \in Requests : existing'[w] = existing[w] \/ (w = r /\ existing'[w] \in {row, None})
        BY <3>1 DEF TypeOK
      <4>2. /\ row # None => Recorded(row)
            /\ \A w \in Requests : existing[w] # None => Recorded(existing[w]) /\ worker[w] = "setup"
        BY DEF Begun
      <4> QED BY <3>1, <4>1, <4>2 DEF Recorded, TypeOK
    <3> QED BY <3>1, <3>2, <3>3, NoneIsNew DEF Begun, TypeOK, Recorded
  <2>2. \A w \in Requests : /\ Range(queue'[w]) \subseteq Range(queue[w]) \cup {r}
                            /\ w # r => queue'[w] = queue[w]
                            /\ Range(queue[w]) \subseteq Requests
    BY <1>3, RangeOfQueue DEF Start, Enqueue, TypeOK
  <2>3. /\ pc'[r] \in Spawning /\ worker'[r] # "none" /\ UNCHANGED model
        /\ \A q \in Requests : /\ pc[q] \in Spawning => pc'[q] \in Spawning
                               /\ worker[q] # "none" => worker'[q] # "none"
    BY <1>3 DEF Start, TypeOK
  <2>4. Delivered'
    BY <2>2, <2>3 DEF Delivered
  <2> QED BY <2>1, <2>4
<1>4. CASE StartFails(r)
  <2>1. Begun'
    BY <1>4 DEF StartFails, Begun, TypeOK, Recorded, supVars, wrkVars, diskVars, agtVars
  <2>2. \A q \in Requests : pc[q] \in Spawning => pc'[q] = pc[q]
    BY <1>4 DEF StartFails, TypeOK
  <2>3. Delivered'
    BY <1>4, <2>2, RangeOfQueue DEF StartFails, Delivered, TypeOK, supVars, wrkVars
  <2> QED BY <2>1, <2>3
<1> QED BY <1>1, <1>2, <1>3, <1>4 DEF RequestStep

LEMMA WorkerEndsBegun ==
  ASSUME TypeOK, Begun, Delivered, NEW w \in Requests, WorkerEnds(w), worker[w] \notin {"none", "gone"},
         made[w] # "not" => worker[w] # "setup", UNCHANGED <<diskVars, agtVars>>
  PROVE  Begun' /\ Delivered'
<1> USE DEF Spawning
<1>1. /\ \A q \in Requests : /\ pc'[q] \in {pc[q], "failed"}
                             /\ pc[q] = "new" => pc'[q] = "new"
      /\ UNCHANGED <<model, mapped>>
      /\ worker' = [worker EXCEPT ![w] = "gone"]
      /\ session' = [session EXCEPT ![w] = None]
      /\ existing' = [existing EXCEPT ![w] = None]
  BY DEF WorkerEnds, Delivered, TypeOK
<1>2. Begun'
  BY <1>1 DEF Begun, TypeOK, Recorded, diskVars, agtVars
<1>3. \A v \in Requests : Range(queue'[v]) \subseteq Range(queue[v])
                          /\ Range(queue[v]) \subseteq Requests
  BY RangeOfQueue, RangeOfNothing DEF WorkerEnds, TypeOK
<1>4. ASSUME NEW v \in Requests, NEW q \in Range(queue'[v])
      PROVE  pc'[q] \in Spawning /\ model'[q] = model'[v] /\ worker'[v] # "none"
  <2>1. q \in Requests /\ q \in Range(queue[v])
    BY <1>3, <1>4
  <2>2. pc[q] \in Spawning /\ model[q] = model[v] /\ worker[v] # "none"
    BY <2>1 DEF Delivered
  <2>3. worker'[v] # "none"
    BY <1>1, <2>2 DEF TypeOK
  <2> QED BY <1>1, <2>1, <2>2, <2>3
<1>5. Delivered'
  BY <1>4 DEF Delivered
<1> QED BY <1>2, <1>5

LEMMA ServeBegun ==
  ASSUME TypeOK, Begun, Delivered, NEW w \in Requests, Serve(w)
  PROVE  Begun' /\ Delivered'
<1> USE DEF Spawning
<1>1. PICK r \in Requests : r = Head(queue[w]) /\ r \in Range(queue[w])
  BY RangeOfQueue DEF Serve, TypeOK
<1>2. pc[r] \in Spawning
  BY <1>1 DEF Delivered
<1>3. /\ pc' = [pc EXCEPT ![r] = "answered"] \/ pc' = [pc EXCEPT ![r] = "failed"]
      /\ UNCHANGED <<model, mapped, row, made, worker, existing, session>>
  BY <1>1 DEF Serve, wrkVars
<1>4. Begun'
  <2>1. \A q \in Requests : /\ pc[q] \in Spawning => pc'[q] \in Spawning
                            /\ pc'[q] # "new" => pc[q] # "new"
    BY <1>2, <1>3 DEF TypeOK
  <2> QED BY <1>3, <2>1 DEF Begun, Recorded
<1>5. \A v \in Requests : Range(queue'[v]) \subseteq Range(queue[v])
                          /\ Range(queue[v]) \subseteq Requests
  BY RangeOfQueue DEF Serve, TypeOK
<1>6. ASSUME NEW v \in Requests, NEW q \in Range(queue'[v])
      PROVE  pc'[q] \in Spawning /\ model'[q] = model'[v] /\ worker'[v] # "none"
  <2>1. q \in Requests /\ q \in Range(queue[v])
    BY <1>5, <1>6
  <2>2. pc[q] \in Spawning /\ model[q] = model[v] /\ worker[v] # "none"
    BY <2>1 DEF Delivered
  <2>3. pc'[q] \in Spawning
    BY <1>3, <2>1, <2>2 DEF TypeOK
  <2> QED BY <1>3, <2>2, <2>3
<1>7. Delivered'
  BY <1>6 DEF Delivered
<1> QED BY <1>4, <1>7

LEMMA WorkerStepBegun ==
  ASSUME TypeOK, Begun, Delivered, NEW w \in Requests, WorkerStep(w) \/ Ends(w) \/ Unmap(w)
  PROVE  Begun' /\ Delivered'
<1> USE DEF Spawning, reqVars, supVars, diskVars, agtVars
<1>1. CASE Load(w)
  <2>1. Begun'
    BY <1>1, NoneIsNew DEF Load, SessionReady, Begun, Recorded, TypeOK
  <2>2. Delivered'
    BY <1>1 DEF Load, SessionReady, Delivered, TypeOK
  <2> QED BY <2>1, <2>2
<1>2. CASE SetupFails(w) \/ Ends(w)
  BY <1>2, WorkerEndsBegun DEF SetupFails, Ends, Begun
<1>3. CASE DegradedSession(w)
  <2>1. PICK how \in {"replayed", "transcribed", "partial"} : made' = [made EXCEPT ![w] = how]
    BY <1>3 DEF DegradedSession, HowDegraded, CreateSession
  <2>2. made[w] = "not"
    BY <1>3 DEF DegradedSession, Begun
  <2>3. Begun'
    BY <1>3, <2>1, <2>2, NoneIsNew DEF DegradedSession, SessionReady, Begun, Recorded, TypeOK
  <2>4. Delivered'
    BY <1>3 DEF DegradedSession, SessionReady, Delivered, TypeOK
  <2> QED BY <2>3, <2>4
<1>4. CASE NewSession(w)
  <2>1. made[w] = "not"
    BY <1>4 DEF NewSession, Begun
  <2>2. Begun'
    BY <1>4, <2>1, NoneIsNew DEF NewSession, CreateSession, Begun, Recorded, TypeOK
  <2>3. Delivered'
    BY <1>4 DEF NewSession, Delivered, TypeOK
  <2> QED BY <2>2, <2>3
<1>5. CASE RecordSession(w)
  <2>1. /\ worker[w] = "named" /\ session[w] = w /\ Recorded(w)
        /\ row' = w /\ session' = session /\ UNCHANGED <<model, pc, made, mapped>>
        /\ worker' = [worker EXCEPT ![w] = "ready"]
        /\ existing' = [existing EXCEPT ![w] = None]
    BY <1>5 DEF RecordSession, Record, SessionReady, Begun, TypeOK
  <2>2. Begun'
    BY <2>1 DEF Begun, Recorded, TypeOK
  <2>3. Delivered'
    BY <1>5 DEF RecordSession, SessionReady, Delivered, TypeOK
  <2> QED BY <2>2, <2>3
<1>6. CASE RecordFails(w)
  BY <1>6, WorkerEndsBegun DEF RecordFails
<1>7. CASE Unmap(w)
  <2>1. Begun'
    BY <1>7 DEF Unmap, Begun, Recorded, TypeOK
  <2>2. Delivered'
    BY <1>7 DEF Unmap, Delivered, TypeOK
  <2> QED BY <2>1, <2>2
<1> QED BY <1>1, <1>2, <1>3, <1>4, <1>5, <1>6, <1>7, ServeBegun DEF WorkerStep

LEMMA RestartBegun == TypeOK /\ Begun /\ Delivered /\ Restart => Begun' /\ Delivered'
<1> SUFFICES ASSUME TypeOK, Begun, Restart PROVE Begun' /\ Delivered'
  OBVIOUS
<1>1. Delivered'
  BY RangeOfNothing DEF Restart, Delivered
<1>2. \A r \in Requests : /\ pc[r] = "new" <=> pc'[r] = "new"
                          /\ pc[r] \in Spawning => pc'[r] \in Spawning
                          /\ worker[r] = "none" <=> worker'[r] = "none"
                          /\ worker'[r] \in {"none", "unmapped"}
                          /\ existing'[r] = None
  BY DEF Restart, Open, Spawning, TypeOK
<1>3. UNCHANGED <<model, row, made>> /\ mapped' = None
  BY DEF Restart, diskVars, agtVars
<1> QED BY <1>1, <1>2, <1>3 DEF Begun, Recorded

LEMMA NextBegun == TypeOK /\ Begun /\ Delivered /\ [Next]_vars => Begun' /\ Delivered'
<1>1. Begun /\ Delivered /\ UNCHANGED vars => Begun' /\ Delivered'
  BY DEF vars, reqVars, supVars, wrkVars, diskVars, agtVars, Begun, Delivered, Recorded
<1> QED BY <1>1, ArriveBegun, RequestStepBegun, WorkerStepBegun, RestartBegun DEF Next

-----------------------------------------------------------------------------
(* One start at a time. *)

\* What went wrong stays on record.
LEMMA FaultsStay == [Next]_vars => (Clean' => Clean)
<1> SUFFICES ASSUME [Next]_vars PROVE faults \subseteq faults'
  BY DEF Clean
<1>1. ASSUME NEW r \in Requests, NEW ask \in Asks, Arrive(r, ask) PROVE faults \subseteq faults'
  BY <1>1 DEF Arrive
<1>2. ASSUME NEW r \in Requests, RequestStep(r) PROVE faults \subseteq faults'
  BY <1>2 DEF RequestStep, FindWorker, ReadMeta, Start, StartFails, NoteOverlap
<1>3. ASSUME NEW w \in Requests, WorkerStep(w) \/ Ends(w) \/ Unmap(w) PROVE faults \subseteq faults'
  BY <1>3 DEF WorkerStep, Load, SetupFails, DegradedSession, NewSession, RecordSession, RecordFails,
              Serve, Ends, Unmap
<1>4. Restart => faults \subseteq faults'
  BY DEF Restart
<1>5. UNCHANGED vars => faults \subseteq faults'
  BY DEF vars
<1> QED BY <1>1, <1>2, <1>3, <1>4, <1>5 DEF Next

LEMMA InitSerial == Init => Serial
BY DEF Init, Serial, Alive, SettingUp

\* A step that begins no start and sets no worker up leaves it so.
LEMMA SerialShrinks ==
  ASSUME Serial, Clean' => Clean, UNCHANGED meta,
         \A q \in Requests : pc'[q] = "starting" => pc[q] = "starting" /\ metaRead'[q] = metaRead[q],
         \A w \in Requests : SettingUp(w)' => SettingUp(w),
         \A w \in Alive' : w \in Alive /\ model'[w] = model[w]
  PROVE  Serial'
BY DEF Serial, Alive

LEMMA RequestStepSerial ==
  ASSUME TypeOK, Begun, Serial, NEW r \in Requests, RequestStep(r), Clean' => Clean
  PROVE  Serial'
<1>1. CASE FindWorker(r)
  <2>1. \A q \in Requests : pc'[q] = "starting" => pc[q] = "starting"
    BY <1>1 DEF FindWorker, TypeOK
  <2>2. UNCHANGED <<meta, metaRead, worker, model>>
    BY <1>1 DEF FindWorker, wrkVars, diskVars
  <2> QED BY <2>1, <2>2, SerialShrinks DEF SettingUp, Alive
<1>2. CASE ReadMeta(r)
  <2>1. Clean' => ~Overlaps(r)
    BY <1>2 DEF ReadMeta, NoteOverlap, Clean
  <2>2. /\ pc' = [pc EXCEPT ![r] = "starting"] /\ metaRead'[r] \in {meta, Unread}
        /\ UNCHANGED <<meta, worker, model>>
    BY <1>2 DEF ReadMeta, MetaAsRead, TypeOK, wrkVars, diskVars
  <2>3. ~Overlaps(r) => /\ \A q \in Requests : pc[q] = "starting" => q = r
                        /\ \A w \in Requests : ~SettingUp(w)
    BY DEF Overlaps, SettingUp, Alive
  <2> QED BY <2>1, <2>2, <2>3 DEF Serial, SettingUp, Alive, TypeOK
<1>3. CASE Start(r)
  <2>1. Clean' => ~Overlaps(r)
    BY <1>3 DEF Start, NoteOverlap, Clean
  <2>2. /\ pc[r] = "starting" /\ pc' = [pc EXCEPT ![r] = "queued"]
        /\ worker' = [worker EXCEPT ![r] = "setup"]
        /\ UNCHANGED <<meta, model>>
    BY <1>3 DEF Start, diskVars
  <2>3. ~Overlaps(r) => /\ \A q \in Requests : pc[q] = "starting" => q = r
                        /\ \A w \in Requests : ~SettingUp(w)
                        /\ \A w \in Alive : model[w] # model[r]
    BY DEF Overlaps, SettingUp, Alive
  <2> QED BY <2>1, <2>2, <2>3 DEF Serial, SettingUp, Alive, TypeOK
<1>4. CASE StartFails(r)
  <2>1. /\ \A q \in Requests : pc'[q] = "starting" => pc[q] = "starting" /\ metaRead'[q] = metaRead[q]
        /\ UNCHANGED <<meta, worker, model>>
    BY <1>4 DEF StartFails, TypeOK, wrkVars, diskVars
  <2> QED BY <2>1, SerialShrinks DEF SettingUp, Alive
<1> QED BY <1>1, <1>2, <1>3, <1>4 DEF RequestStep

LEMMA WorkerStepSerial ==
  ASSUME TypeOK, Begun, Delivered, Serial, NEW w \in Requests, WorkerStep(w) \/ Ends(w) \/ Unmap(w),
         Clean' => Clean
  PROVE  Serial'
<1> USE DEF reqVars, supVars, diskVars, agtVars
<1>1. CASE Load(w) \/ DegradedSession(w) \/ RecordSession(w)
  <2>1. worker[w] \in {"setup", "named"} /\ worker' = [worker EXCEPT ![w] = "ready"]
        /\ UNCHANGED <<pc, meta, metaRead, model>>
    BY <1>1 DEF Load, DegradedSession, RecordSession, SessionReady
  <2> QED BY <2>1, SerialShrinks DEF SettingUp, Alive, TypeOK
<1>2. CASE NewSession(w)
  <2>1. worker[w] = "setup" /\ worker' = [worker EXCEPT ![w] = "named"]
        /\ UNCHANGED <<pc, model>>
    BY <1>2 DEF NewSession
  <2>2. Clean => \A q \in Requests : pc[q] # "starting"
    BY <2>1 DEF Serial, SettingUp
  <2> QED BY <2>1, <2>2 DEF Serial, SettingUp, Alive, TypeOK
<1>3. CASE SetupFails(w) \/ RecordFails(w) \/ Ends(w)
  <2>1. /\ worker' = [worker EXCEPT ![w] = "gone"] /\ UNCHANGED <<meta, model>>
        /\ \A q \in Requests : pc'[q] = "starting" => pc[q] = "starting"
        /\ metaRead' = [metaRead EXCEPT ![w] = None]
    BY <1>3 DEF SetupFails, RecordFails, Ends, WorkerEnds
  <2>2. pc[w] # "starting"
    BY <1>3 DEF SetupFails, RecordFails, Ends, Begun, Spawning
  <2>3. \A q \in Requests : pc'[q] = "starting" => metaRead'[q] = metaRead[q]
    BY <2>1, <2>2 DEF TypeOK
  <2> QED BY <2>1, <2>3, SerialShrinks DEF SettingUp, Alive, TypeOK
<1>4. CASE Serve(w)
  <2>1. UNCHANGED <<worker, meta, metaRead, model>>
        /\ \A q \in Requests : pc'[q] = "starting" => pc[q] = "starting"
    BY <1>4 DEF Serve, wrkVars, TypeOK
  <2> QED BY <2>1, SerialShrinks DEF SettingUp, Alive
<1>5. CASE Unmap(w)
  <2>1. worker' = [worker EXCEPT ![w] = "unmapped"] /\ UNCHANGED <<pc, meta, metaRead, model>>
    BY <1>5 DEF Unmap
  <2> QED BY <2>1, SerialShrinks DEF SettingUp, Alive, TypeOK
<1> QED BY <1>1, <1>2, <1>3, <1>4, <1>5 DEF WorkerStep

LEMMA NextSerial ==
  TypeOK /\ Begun /\ Delivered /\ Serial /\ [Next]_vars => Serial'
<1> SUFFICES ASSUME TypeOK, Begun, Delivered, Serial, [Next]_vars PROVE Serial'
  OBVIOUS
<1>1. Clean' => Clean
  BY FaultsStay
<1>2. ASSUME NEW r \in Requests, NEW ask \in Asks, Arrive(r, ask) PROVE Serial'
  <2>1. /\ pc[r] = "new" /\ pc' = [pc EXCEPT ![r] = "planned"]
        /\ \A w \in Requests : w # r => model'[w] = model[w]
        /\ UNCHANGED <<meta, metaRead, worker>>
    BY <1>2 DEF Arrive, TypeOK, wrkVars, diskVars
  <2>2. worker[r] = "none"
    BY <2>1 DEF Begun, Spawning
  <2> QED BY <1>1, <2>1, <2>2, SerialShrinks DEF SettingUp, Alive, TypeOK
<1>3. CASE Restart
  <2>1. \A w \in Requests : worker'[w] \in {"none", "unmapped"} /\ pc'[w] # "starting"
    BY <1>3 DEF Restart, Open, TypeOK
  <2> QED BY <2>1 DEF Serial, SettingUp, Alive
<1>4. CASE UNCHANGED vars
  BY <1>1, <1>4, SerialShrinks DEF vars, reqVars, wrkVars, diskVars, SettingUp, Alive
<1> QED BY <1>1, <1>2, <1>3, <1>4, RequestStepSerial, WorkerStepSerial DEF Next

-----------------------------------------------------------------------------
(* The record. *)

\* The sessions that were made, and the models of the workers there are, do not change.
LEMMA SessionsStay ==
  ASSUME TypeOK, Begun, Delivered, [Next]_vars, NEW s \in Requests
  PROVE  /\ worker[s] # "none" => model'[s] = model[s]
         /\ made[s] # "not" => /\ made'[s] = made[s] /\ model'[s] = model[s]
                               /\ memory[s] \subseteq memory'[s]
<1> DEFINE Same == made' = made /\ memory' = memory /\ model' = model
<1>1. ASSUME NEW r \in Requests, NEW ask \in Asks, Arrive(r, ask)
      PROVE  UNCHANGED <<made, memory>> /\ (worker[s] # "none" => model'[s] = model[s])
  <2>1. worker[r] = "none"
    BY <1>1 DEF Arrive, Begun, Spawning
  <2> QED BY <1>1, <2>1 DEF Arrive, agtVars, TypeOK
<1>2. ASSUME NEW r \in Requests, RequestStep(r) PROVE Same
  BY <1>2 DEF RequestStep, FindWorker, ReadMeta, Start, StartFails, agtVars
<1>3. ASSUME NEW w \in Requests, DegradedSession(w) \/ NewSession(w)
      PROVE  UNCHANGED model /\ (s # w => made'[s] = made[s] /\ memory'[s] = memory[s])
  <2>1. PICK how, told : CreateSession(w, how, told)
    BY <1>3 DEF DegradedSession, NewSession
  <2> QED BY <1>3, <2>1 DEF DegradedSession, NewSession, CreateSession, reqVars, TypeOK
<1>4. ASSUME NEW w \in Requests, DegradedSession(w) \/ NewSession(w) PROVE made[w] = "not"
  BY <1>4 DEF DegradedSession, NewSession, Begun
<1>5. ASSUME NEW w \in Requests, Serve(w)
      PROVE  UNCHANGED <<made, model>> /\ memory[s] \subseteq memory'[s]
  <2>1. PICK r : r = Head(queue[w])
    OBVIOUS
  <2>2. \/ memory' = memory
        \/ memory' = [memory EXCEPT ![session[w]] = TurnsIn(Known(r, session[w])) \cup {r}]
    BY <1>5, <2>1 DEF Serve
  <2>3. memory[s] \subseteq TurnsIn(Known(r, s))
    BY DEF TurnsIn, Known, TurnItems, TypeOK
  <2>4. CASE s = session[w]
    <3>1. memory'[s] = memory[s] \/ memory'[s] = TurnsIn(Known(r, s)) \cup {r}
      BY <2>2, <2>4 DEF TypeOK
    <3> QED BY <1>5, <2>3, <3>1 DEF Serve
  <2>5. CASE s # session[w]
    BY <1>5, <2>2, <2>5 DEF Serve, TypeOK
  <2> QED BY <2>4, <2>5
<1>6. ASSUME NEW w \in Requests, WorkerStep(w) \/ Ends(w) \/ Unmap(w),
             ~DegradedSession(w), ~NewSession(w), ~Serve(w)
      PROVE  Same
  BY <1>6 DEF WorkerStep, Load, SetupFails, RecordSession, RecordFails, Ends, Unmap, WorkerEnds,
              reqVars, agtVars
<1>7. CASE Restart
  BY <1>7 DEF Restart, agtVars
<1>8. CASE UNCHANGED vars
  BY <1>8 DEF vars, reqVars, agtVars
<1>9. made[s] # "not" => worker[s] # "none"
  BY DEF Begun
<1>10. ASSUME NEW w \in Requests, WorkerStep(w) \/ Ends(w) \/ Unmap(w)
       PROVE  /\ model' = model
              /\ made[s] # "not" => made'[s] = made[s] /\ memory[s] \subseteq memory'[s]
  BY <1>3, <1>4, <1>5, <1>6, <1>10
<1> QED BY <1>1, <1>2, <1>7, <1>8, <1>9, <1>10 DEF Next

LEMMA MixedStays ==
  TypeOK /\ Begun /\ Delivered /\ [Next]_vars => (Mixed => Mixed')
BY SessionsStay DEF Mixed

LEMMA InitRecord == Init => RecordHolds /\ OneRecorded /\ OneInUse /\ Transcribed
BY NoneIsNew DEF Init, RecordHolds, OneRecorded, OneInUse, Transcribed, Recorded

\* A step that neither sets a worker up nor writes the record.
LEMMA RecordStays ==
  ASSUME TypeOK, Begun, Delivered, RecordHolds, [Next]_vars, UNCHANGED row, Clean' => UNCHANGED meta,
         Clean' => \A w \in Requests : worker[w] = "named" => worker'[w] = "named",
         \A w \in Requests :
           /\ worker'[w] = "named" => worker[w] = "named"
           /\ existing'[w] \in {existing[w], None}
           /\ worker'[w] = "ready" => /\ worker[w] = "ready" /\ session'[w] = session[w]
  PROVE  RecordHolds'
<1> SUFFICES ASSUME Clean'
             PROVE  /\ row' # None => model'[row'] = meta' \/ \E w \in Requests : worker'[w] = "named"
                    /\ \A w \in Requests :
                         /\ worker'[w] = "named" => meta' = model'[w]
                         /\ existing'[w] # None => model'[existing'[w]] = model'[w]
                         /\ worker'[w] = "ready" => model'[session'[w]] = model'[w]
  BY DEF RecordHolds
<1>1. Clean
  BY FaultsStay
<1>2. \A s \in Requests : /\ worker[s] # "none" => model'[s] = model[s]
                          /\ made[s] # "not" => model'[s] = model[s]
  BY SessionsStay
<1>3. row # None => model'[row] = model[row]
  BY <1>2 DEF Begun, Recorded, TypeOK
<1>4. ASSUME NEW w \in Requests
      PROVE  /\ existing[w] # None => model'[existing[w]] = model[existing[w]]
             /\ worker[w] = "ready" => model'[session[w]] = model[session[w]]
  BY <1>2 DEF Begun, Recorded, TypeOK
<1>5. ASSUME NEW w \in Requests, existing'[w] # None
      PROVE  existing'[w] = existing[w] /\ model'[w] = model[w]
  BY <1>2, <1>5 DEF Begun
<1>6. ASSUME NEW w \in Requests, worker'[w] \in {"named", "ready"}
      PROVE  model'[w] = model[w]
  BY <1>2, <1>6
<1> QED BY <1>1, <1>3, <1>4, <1>5, <1>6 DEF RecordHolds

LEMMA NextRecordHolds ==
  TypeOK /\ Begun /\ Delivered /\ Serial /\ RecordHolds /\ [Next]_vars => RecordHolds'
<1> SUFFICES ASSUME TypeOK, Begun, Delivered, Serial, RecordHolds, [Next]_vars PROVE RecordHolds'
  OBVIOUS
<1>1. Clean' => Clean
  BY FaultsStay
<1>2. ASSUME NEW r \in Requests, NEW ask \in Asks, Arrive(r, ask) PROVE RecordHolds'
  BY <1>2, RecordStays DEF Arrive, wrkVars, diskVars
<1>3. ASSUME NEW r \in Requests, FindWorker(r) \/ ReadMeta(r) \/ StartFails(r) PROVE RecordHolds'
  BY <1>3, RecordStays DEF FindWorker, ReadMeta, StartFails, wrkVars, diskVars
<1>4. ASSUME NEW r \in Requests, Start(r) PROVE RecordHolds'
  <2>1. /\ pc[r] = "starting"
        /\ existing' = [existing EXCEPT ![r] = IF metaRead[r] = model[r] THEN row ELSE None]
        /\ worker' = [worker EXCEPT ![r] = "setup"]
        /\ UNCHANGED <<meta, row, session, model>>
    BY <1>4 DEF Start, SameModel, diskVars
  <2>2. worker[r] = "none"
    BY <2>1 DEF Begun, Spawning
  <2>3. Clean => metaRead[r] \in {meta, Unread} /\ \A w \in Requests : ~SettingUp(w)
    BY <2>1 DEF Serial
  <2>4. model[r] # Unread
    BY NoneIsNew DEF TypeOK
  <2>5. Clean /\ existing'[r] # None => model[existing'[r]] = model[r]
    BY <2>1, <2>3, <2>4 DEF RecordHolds, SettingUp, TypeOK
  <2> QED BY <1>1, <2>1, <2>2, <2>5 DEF RecordHolds, TypeOK
<1>5. ASSUME NEW w \in Requests, Load(w) \/ DegradedSession(w) PROVE RecordHolds'
  <2>1. /\ worker[w] = "setup" /\ worker' = [worker EXCEPT ![w] = "ready"]
        /\ existing[w] # None /\ existing' = [existing EXCEPT ![w] = None]
        /\ session' = [session EXCEPT ![w] = existing[w]] \/ session' = [session EXCEPT ![w] = w]
        /\ UNCHANGED <<meta, row, model>>
    BY <1>5 DEF Load, DegradedSession, SessionReady, reqVars, diskVars
  <2> QED BY <1>1, <2>1 DEF RecordHolds, TypeOK
<1>6. ASSUME NEW w \in Requests, NewSession(w) PROVE RecordHolds'
  <2>1. /\ worker[w] = "setup" /\ worker' = [worker EXCEPT ![w] = "named"]
        /\ Clean' => meta' = model[w]
        /\ UNCHANGED <<row, model, existing>>
        /\ \A v \in Requests : v # w => session'[v] = session[v]
    BY <1>6 DEF NewSession, Clean, TypeOK
  <2>2. Clean => \A v \in Requests : SettingUp(v) => v = w
    BY <2>1 DEF Serial, SettingUp
  <2> QED BY <1>1, <2>1, <2>2 DEF RecordHolds, SettingUp, TypeOK
<1>7. ASSUME NEW w \in Requests, RecordSession(w) PROVE RecordHolds'
  <2>1. /\ worker[w] = "named" /\ worker' = [worker EXCEPT ![w] = "ready"]
        /\ row' = session[w] /\ session[w] = w /\ session' = session
        /\ existing' = [existing EXCEPT ![w] = None]
        /\ UNCHANGED <<meta, model>>
    BY <1>7 DEF RecordSession, Record, SessionReady, reqVars, Begun, TypeOK
  <2>2. Clean => \A v \in Requests : SettingUp(v) => v = w
    BY <2>1 DEF Serial, SettingUp
  <2> QED BY <1>1, <2>1, <2>2 DEF RecordHolds, SettingUp, TypeOK
<1>8. ASSUME NEW w \in Requests, SetupFails(w) \/ RecordFails(w) \/ Ends(w) \/ Unmap(w)
       PROVE  RecordHolds'
  <2>1. UNCHANGED <<meta, row>>
    BY <1>8 DEF SetupFails, RecordFails, Ends, Unmap, diskVars
  <2>2. /\ worker' = [worker EXCEPT ![w] = "gone"] \/ worker' = [worker EXCEPT ![w] = "unmapped"]
        /\ existing' = [existing EXCEPT ![w] = None] \/ existing' = existing
        /\ \A v \in Requests : v # w => session'[v] = session[v]
    BY <1>8 DEF SetupFails, RecordFails, Ends, Unmap, WorkerEnds, TypeOK
  <2>3. Clean' => worker[w] # "named"
    BY <1>8 DEF SetupFails, RecordFails, Ends, Unmap, Clean
  <2> QED BY <2>1, <2>2, <2>3, RecordStays DEF TypeOK
<1>9. ASSUME NEW w \in Requests, Serve(w) PROVE RecordHolds'
  BY <1>9, RecordStays DEF Serve, wrkVars
<1>10. CASE Restart
  <2>1. /\ UNCHANGED row /\ (Clean' => UNCHANGED meta)
        /\ \A w \in Requests : worker'[w] \in {"none", "unmapped"} /\ existing'[w] = None
        /\ Clean' => \A w \in Requests : worker[w] # "named"
    BY <1>10 DEF Restart, Clean
  <2> QED BY <2>1, RecordStays
<1>11. CASE UNCHANGED vars
  BY <1>11, RecordStays DEF vars, wrkVars, diskVars
<1> QED BY <1>2, <1>3, <1>4, <1>5, <1>6, <1>7, <1>8, <1>9, <1>10, <1>11
        DEF Next, RequestStep, WorkerStep

Sound == Begun /\ Delivered /\ Serial /\ RecordHolds

LEMMA SoundIsKept == Spec => [](TypeOK /\ Sound)
<1>1. TypeOK /\ Sound /\ [Next]_vars => Sound'
  BY NextBegun, NextSerial, NextRecordHolds DEF Sound
<1>2. Init => Sound
  BY InitBegun, InitSerial, InitRecord DEF Sound
<1> QED BY <1>1, <1>2, InitTypeOK, NextTypeOK, PTL DEF Spec

\* The session a worker resumes was made for the worker's model, as long as no two starts
\* overlapped and no record was lost between session.json and the row: a start that is
\* alone compares the model of the very session whose id it then reads (get_or_start).
THEOREM ResumedSessionsHaveTheirModel == Spec => []ResumedSessionHasItsModel
<1>1. Sound => ResumedSessionHasItsModel
  BY DEF Sound, RecordHolds, Clean, ResumedSessionHasItsModel
<1> QED BY <1>1, SoundIsKept, PTL

-----------------------------------------------------------------------------
(* How many sessions are recorded, and what those are told that are not. *)

\* A step that makes no session, writes no record and starts no worker.
LEMMA OneRecordedStays ==
  ASSUME TypeOK, Sound, OneRecorded, [Next]_vars, UNCHANGED <<row, made>>,
         Clean' => UNCHANGED meta,
         Clean' => \A w \in Requests : worker[w] = "named" => worker'[w] = "named",
         \A w \in Requests : worker'[w] = "setup" =>
           worker[w] = "setup" /\ existing'[w] = existing[w] /\ metaRead'[w] = metaRead[w]
  PROVE  OneRecorded'
<1>1. \A s \in Requests : /\ worker[s] # "none" => model'[s] = model[s]
                          /\ made[s] # "not" => model'[s] = model[s]
  BY SessionsStay DEF Sound
<1>2. Mixed => Mixed'
  BY MixedStays DEF Sound
<1>3. Clean' => Clean
  BY FaultsStay
<1> QED BY <1>1, <1>2, <1>3 DEF OneRecorded, Recorded

LEMMA StartOneRecorded ==
  ASSUME TypeOK, Sound, OneRecorded, NEW r \in Requests, Start(r), Clean' => Clean
  PROVE  OneRecorded'
<1>1. /\ pc[r] = "starting"
      /\ existing' = [existing EXCEPT ![r] = IF metaRead[r] = model[r] THEN row ELSE None]
      /\ worker' = [worker EXCEPT ![r] = "setup"]
      /\ metaRead' = [metaRead EXCEPT ![r] = IF metaRead[r] = Unread THEN Unread ELSE None]
      /\ UNCHANGED <<meta, row, made, model>>
  BY DEF Start, SameModel, diskVars, agtVars
<1>2. worker[r] = "none"
  BY <1>1 DEF Sound, Begun, Spawning
<1>3. Clean => metaRead[r] \in {meta, Unread} /\ \A w \in Requests : ~SettingUp(w)
  BY <1>1 DEF Sound, Serial
<1>4. ASSUME Clean, existing'[r] = None, metaRead'[r] # Unread, NEW s \in Requests, Recorded(s)
      PROVE  Mixed \/ model[s] # model[r]
  <2>1. meta # None /\ row # None
    BY <1>3, <1>4 DEF OneRecorded, SettingUp
  <2>2. metaRead[r] = meta
    BY <1>1, <1>3, <1>4 DEF TypeOK
  <2>3. meta # model[r]
    BY <1>1, <1>4, <2>1, <2>2 DEF TypeOK
  <2>4. PICK t \in Requests : Recorded(t) /\ model[t] = meta
    BY <1>4, <2>1 DEF OneRecorded
  <2> QED BY <1>4, <2>3, <2>4 DEF Mixed, Recorded
<1>5. ASSUME Clean, NEW w \in Requests, worker'[w] = "setup", existing'[w] = None,
             metaRead'[w] # Unread, NEW s \in Requests, Recorded(s)
      PROVE  Mixed \/ model[s] # model[w]
  <2>1. CASE w = r
    BY <1>4, <1>5, <2>1
  <2>2. CASE w # r
    BY <1>1, <1>3, <1>5, <2>2 DEF SettingUp, TypeOK
  <2> QED BY <2>1, <2>2
<1>6. \A w \in Requests : worker[w] = "named" => worker'[w] = "named"
  BY <1>1, <1>2 DEF TypeOK
<1>7. (Mixed => Mixed') /\ \A s \in Requests : Recorded(s)' <=> Recorded(s)
  BY <1>1 DEF Mixed, Recorded
<1> QED BY <1>1, <1>5, <1>6, <1>7 DEF OneRecorded

\* What session/new leaves: no other session of the model was there, unless session.json
\* could not be read.
LEMMA SessionIsNew ==
  ASSUME TypeOK, Sound, OneRecorded, NEW w \in Requests, NewSession(w), Clean' => Clean
  PROVE  /\ worker[w] = "setup" /\ existing[w] = None
         /\ worker' = [worker EXCEPT ![w] = "named"]
         /\ UNCHANGED <<row, model, existing>>
         /\ Clean' => meta' = model[w] /\ model[w] # None
         /\ made[w] = "not" /\ made' = [made EXCEPT ![w] = made'[w]]
         /\ \A s \in Requests : Recorded(s)' <=> Recorded(s) \/ s = w
         /\ Mixed => Mixed'
         /\ Clean /\ made'[w] # "blind" => \A s \in Requests : Recorded(s) => Mixed'
<1>1. /\ worker[w] = "setup" /\ existing[w] = None
      /\ worker' = [worker EXCEPT ![w] = "named"]
      /\ made' = [made EXCEPT ![w] = IF metaRead[w] = Unread THEN "blind" ELSE "new"]
      /\ Clean' => meta' = model[w]
      /\ UNCHANGED <<row, model, existing>>
  BY DEF NewSession, CreateSession, Clean
<1>2. made[w] = "not" /\ model[w] \in Models
  BY <1>1 DEF Sound, Begun, Spawning
<1>3. /\ made'[w] \in {"new", "blind"} /\ (made'[w] # "blind" => metaRead[w] # Unread)
      /\ \A s \in Requests : s # w => made'[s] = made[s]
  BY <1>1 DEF TypeOK
<1>4. \A s \in Requests : Recorded(s)' <=> Recorded(s) \/ s = w
  BY <1>2, <1>3 DEF Recorded
<1>5. Mixed => Mixed'
  BY <1>1, <1>2, <1>3 DEF Mixed
<1>6. ASSUME Clean, made'[w] # "blind", NEW s \in Requests, Recorded(s) PROVE Mixed'
  <2>1. Mixed \/ model[s] # model[w]
    BY <1>1, <1>3, <1>6 DEF OneRecorded
  <2>2. made'[s] # "not" /\ made'[w] # "not"
    BY <1>3, <1>4, <1>6 DEF Recorded
  <2> QED BY <1>1, <1>5, <2>1, <2>2 DEF Mixed
<1>7. made' = [made EXCEPT ![w] = made'[w]]
  BY <1>1 DEF TypeOK
<1>8. model[w] # None
  BY <1>2, NoneIsNew
<1> QED BY <1>1, <1>2, <1>4, <1>5, <1>6, <1>7, <1>8

LEMMA NewSessionOneRecorded ==
  ASSUME TypeOK, Sound, OneRecorded, NEW w \in Requests, NewSession(w), Clean' => Clean
  PROVE  OneRecorded'
<1>1. /\ worker[w] = "setup" /\ worker' = [worker EXCEPT ![w] = "named"] /\ UNCHANGED model
      /\ Clean' => meta' = model[w] /\ model[w] # None
      /\ Recorded(w)'
  BY SessionIsNew
<1>2. Clean => \A v \in Requests : SettingUp(v) => v = w
  BY <1>1 DEF Sound, Serial, SettingUp
<1>3. ASSUME Clean' PROVE \A v \in Requests : worker'[v] # "setup"
  BY <1>1, <1>2, <1>3 DEF SettingUp, TypeOK
<1>4. worker'[w] = "named"
  BY <1>1 DEF TypeOK
<1> QED BY <1>1, <1>3, <1>4 DEF OneRecorded

\* A degraded session is not recorded.
LEMMA DegradedRecordsNone ==
  ASSUME TypeOK, Sound, NEW w \in Requests, DegradedSession(w)
  PROVE  /\ Mixed => Mixed'
         /\ \A s \in Requests : Recorded(s)' <=> Recorded(s)
         /\ ~Recorded(w)
<1>1. PICK how \in {"replayed", "transcribed", "partial"} : made' = [made EXCEPT ![w] = how]
  BY DEF DegradedSession, HowDegraded, CreateSession
<1>2. made[w] = "not" /\ UNCHANGED model
  BY DEF DegradedSession, reqVars, Sound, Begun
<1> QED BY <1>1, <1>2 DEF Mixed, Recorded, TypeOK

LEMMA NextOneRecorded ==
  TypeOK /\ Sound /\ OneRecorded /\ [Next]_vars => OneRecorded'
<1> SUFFICES ASSUME TypeOK, Sound, OneRecorded, [Next]_vars PROVE OneRecorded'
  OBVIOUS
<1>1. Clean' => Clean
  BY FaultsStay
<1>2. ASSUME NEW r \in Requests, NEW ask \in Asks, Arrive(r, ask) PROVE OneRecorded'
  BY <1>2, OneRecordedStays DEF Arrive, wrkVars, diskVars, agtVars
<1>3. ASSUME NEW r \in Requests, FindWorker(r) \/ ReadMeta(r) \/ StartFails(r) PROVE OneRecorded'
  <2>1. UNCHANGED <<meta, row, made, worker, existing>>
    BY <1>3 DEF FindWorker, ReadMeta, StartFails, wrkVars, diskVars, agtVars
  <2>2. worker[r] = "none"
    BY <1>3 DEF FindWorker, ReadMeta, StartFails, Sound, Begun, Spawning
  <2>3. \A w \in Requests : w # r => metaRead'[w] = metaRead[w]
    BY <1>3 DEF FindWorker, ReadMeta, StartFails, TypeOK
  <2> QED BY <2>1, <2>2, <2>3, OneRecordedStays
<1>4. ASSUME NEW w \in Requests, Load(w) PROVE OneRecorded'
  BY <1>4, OneRecordedStays DEF Load, SessionReady, reqVars, diskVars, agtVars, TypeOK
<1>5. ASSUME NEW w \in Requests, DegradedSession(w) PROVE OneRecorded'
  <2>1. /\ worker[w] = "setup" /\ worker' = [worker EXCEPT ![w] = "ready"]
        /\ existing' = [existing EXCEPT ![w] = None]
        /\ UNCHANGED <<meta, row, model, metaRead>>
    BY <1>5 DEF DegradedSession, SessionReady, reqVars, diskVars
  <2>2. (Mixed => Mixed') /\ \A s \in Requests : Recorded(s)' <=> Recorded(s)
    BY <1>5, DegradedRecordsNone
  <2>3. \A v \in Requests : /\ worker[v] = "named" => worker'[v] = "named"
                            /\ worker'[v] = "setup" => worker[v] = "setup"
                                                       /\ existing'[v] = existing[v]
    BY <2>1 DEF TypeOK
  <2> QED BY <1>1, <2>1, <2>2, <2>3 DEF OneRecorded
<1>6. ASSUME NEW w \in Requests, RecordSession(w) PROVE OneRecorded'
  <2>1. /\ worker[w] = "named" /\ worker' = [worker EXCEPT ![w] = "ready"]
        /\ row' = session[w] /\ session[w] = w
        /\ existing' = [existing EXCEPT ![w] = None]
        /\ UNCHANGED <<meta, made, model, metaRead>>
    BY <1>6 DEF RecordSession, Record, SessionReady, reqVars, agtVars, Sound, Begun, TypeOK
  <2>2. (Mixed => Mixed') /\ \A s \in Requests : Recorded(s)' <=> Recorded(s)
    BY <2>1 DEF Mixed, Recorded
  <2>3. row' # None
    BY <2>1, NoneIsNew
  <2>4. \A v \in Requests : worker'[v] = "setup" => /\ worker[v] = "setup"
                                                    /\ existing'[v] = existing[v]
    BY <2>1 DEF TypeOK
  <2> QED BY <1>1, <2>1, <2>2, <2>3, <2>4 DEF OneRecorded
<1>7. ASSUME NEW w \in Requests, SetupFails(w) \/ RecordFails(w) \/ Ends(w) \/ Unmap(w)
      PROVE  OneRecorded'
  <2>1. UNCHANGED <<meta, row, made>>
    BY <1>7 DEF SetupFails, RecordFails, Ends, Unmap, diskVars, agtVars
  <2>2. /\ worker' = [worker EXCEPT ![w] = "gone"] \/ worker' = [worker EXCEPT ![w] = "unmapped"]
        /\ existing' = [existing EXCEPT ![w] = None] \/ existing' = existing
        /\ metaRead' = [metaRead EXCEPT ![w] = None] \/ metaRead' = metaRead
    BY <1>7 DEF SetupFails, RecordFails, Ends, Unmap, WorkerEnds, reqVars
  <2>3. Clean' => worker[w] # "named"
    BY <1>7 DEF SetupFails, RecordFails, Ends, Unmap, Clean
  <2> QED BY <2>1, <2>2, <2>3, OneRecordedStays DEF TypeOK
<1>8. ASSUME NEW w \in Requests, Serve(w) PROVE OneRecorded'
  BY <1>8, OneRecordedStays DEF Serve, wrkVars
<1>9. CASE Restart
  <2>1. /\ UNCHANGED <<row, made>> /\ (Clean' => UNCHANGED meta)
        /\ \A w \in Requests : worker'[w] \in {"none", "unmapped"}
        /\ Clean' => \A w \in Requests : worker[w] # "named"
    BY <1>9 DEF Restart, agtVars, Clean
  <2> QED BY <2>1, OneRecordedStays
<1>10. CASE UNCHANGED vars
  BY <1>10, OneRecordedStays DEF vars, reqVars, wrkVars, diskVars, agtVars
<1> QED BY <1>1, <1>2, <1>3, <1>4, <1>5, <1>6, <1>7, <1>8, <1>9, <1>10,
           StartOneRecorded, NewSessionOneRecorded
        DEF Next, RequestStep, WorkerStep

\* A session stays the only one of its kind while no session is recorded.
LEMMA SoleStays ==
  ASSUME TypeOK, Sound, [Next]_vars, \A x \in Requests : Recorded(x)' => Recorded(x),
         NEW s \in Requests, Recorded(s)
  PROVE  Sole(s) => Sole(s)'
<1>1. Mixed => Mixed'
  BY MixedStays DEF Sound
<1>2. made'[s] = made[s]
  BY SessionsStay DEF Sound, Recorded
<1> QED BY <1>1, <1>2 DEF Sole

\* A step that records no session and whose workers get none but their own or the row's.
LEMMA OneInUseStays ==
  ASSUME TypeOK, Sound, OneInUse, [Next]_vars, UNCHANGED row,
         \A x \in Requests : Recorded(x)' => Recorded(x),
         Clean' => \A w \in Requests : worker[w] = "named" => worker'[w] = "named",
         \A w \in Requests :
           /\ existing'[w] \in {existing[w], None}
           /\ worker'[w] = "named" => worker[w] = "named"
           /\ worker'[w] = "ready" /\ Recorded(session[w])' =>
                \/ worker[w] = "ready" /\ session'[w] = session[w]
                \/ existing[w] # None /\ session'[w] = existing[w]
  PROVE  OneInUse'
<1> SUFFICES ASSUME Clean'
             PROVE  /\ row' # None => Sole(row)' \/ \E w \in Requests : worker'[w] = "named"
                    /\ \A w \in Requests :
                         /\ existing'[w] # None => Sole(existing[w])'
                         /\ worker'[w] = "named" => Sole(w)'
                         /\ worker'[w] = "ready" /\ Recorded(session[w])' => Sole(session[w])'
  BY DEF OneInUse
<1>1. Clean
  BY FaultsStay
<1>2. row' # None => Sole(row)' \/ \E w \in Requests : worker'[w] = "named"
  <2>1. ASSUME row # None, Sole(row) PROVE Sole(row)'
    <3>1. PICK s \in Requests : s = row /\ Recorded(s)
      BY <2>1 DEF Sound, Begun, TypeOK
    <3>2. Sole(s)'
      BY <2>1, <3>1, SoleStays
    <3> QED BY <3>1, <3>2 DEF Sole
  <2> QED BY <1>1, <2>1 DEF OneInUse
<1>3. ASSUME NEW w \in Requests, existing'[w] # None PROVE Sole(existing[w])'
  <2>1. PICK s \in Requests : s = existing[w] /\ s = existing'[w] /\ Recorded(s) /\ Sole(s)
    BY <1>1, <1>3 DEF OneInUse, Sound, Begun, TypeOK
  <2>2. Sole(s)'
    BY <2>1, SoleStays
  <2> QED BY <2>1, <2>2 DEF Sole
<1>4. ASSUME NEW w \in Requests, worker'[w] = "named" PROVE Sole(w)'
  BY <1>1, <1>4, SoleStays DEF OneInUse, Sound, Begun
<1>5. ASSUME NEW w \in Requests, worker'[w] = "ready", Recorded(session[w])' PROVE Sole(session[w])'
  <2>1. PICK s \in Requests : s = session'[w] /\ Recorded(s) /\ Sole(s)
    <3>1. CASE worker[w] = "ready" /\ session'[w] = session[w]
      <4>1. session[w] \in Requests
        BY <3>1 DEF Sound, Begun
      <4>2. Recorded(session[w])
        BY <1>5, <3>1, <4>1 DEF Recorded
      <4> QED BY <1>1, <3>1, <4>1, <4>2 DEF OneInUse
    <3>2. CASE existing[w] # None /\ session'[w] = existing[w]
      <4>1. existing[w] \in Requests /\ Recorded(existing[w])
        BY <3>2 DEF Sound, Begun, TypeOK
      <4> QED BY <1>1, <3>2, <4>1 DEF OneInUse
    <3> QED BY <1>5, <3>1, <3>2
  <2>2. Sole(s)'
    BY <2>1, SoleStays
  <2> QED BY <2>1, <2>2 DEF Sole
<1> QED BY <1>2, <1>3, <1>4, <1>5

LEMMA StartOneInUse ==
  ASSUME TypeOK, Sound, OneInUse, NEW r \in Requests, Start(r), Clean' => Clean
  PROVE  OneInUse'
<1>1. /\ pc[r] = "starting"
      /\ \A w \in Requests : existing'[w] = existing[w] \/ existing'[w] \in {row, None}
      /\ worker' = [worker EXCEPT ![r] = "setup"]
      /\ UNCHANGED <<row, made, model, session>>
  BY DEF Start, TypeOK, diskVars, agtVars
<1>2. Clean => \A w \in Requests : worker[w] # "named"
  BY <1>1 DEF Sound, Serial, SettingUp
<1>3. \A w \in Requests : worker'[w] \in {"named", "ready"} => worker'[w] = worker[w]
  BY <1>1 DEF TypeOK
<1>4. \A s : Sole(s)' <=> Sole(s)
  BY <1>1 DEF Sole, Mixed, Recorded
<1>5. \A s : Recorded(s)' <=> Recorded(s)
  BY <1>1 DEF Recorded
<1>6. row # None /\ Clean => Sole(row)
  BY <1>2 DEF OneInUse
<1>7. ASSUME Clean', NEW w \in Requests, existing'[w] # None PROVE Sole(existing'[w])
  BY <1>1, <1>6, <1>7 DEF OneInUse
<1>8. ASSUME Clean', NEW w \in Requests
      PROVE  /\ existing'[w] # None => Sole(existing[w])'
             /\ worker'[w] = "named" => Sole(w)'
             /\ worker'[w] = "ready" /\ Recorded(session[w])' => Sole(session[w])'
  <2>1. existing'[w] # None => Sole(existing[w])'
    BY <1>1, <1>7, <1>8 DEF Sole, Mixed, Recorded
  <2>2. worker'[w] = "named" => Sole(w)'
    BY <1>2, <1>3, <1>8
  <2>3. ASSUME worker'[w] = "ready", Recorded(session[w])' PROVE Sole(session[w])'
    <3>1. worker[w] = "ready" /\ Recorded(session[w])
      BY <1>1, <1>3, <2>3 DEF Recorded
    <3>2. Sole(session[w])
      BY <1>8, <3>1 DEF OneInUse
    <3> QED BY <1>1, <3>2 DEF Sole, Mixed, Recorded
  <2> QED BY <2>1, <2>2, <2>3
<1>9. Clean' /\ row' # None => Sole(row)'
  BY <1>1, <1>6 DEF Sole, Mixed, Recorded
<1> QED BY <1>8, <1>9 DEF OneInUse

LEMMA NewSessionOneInUse ==
  ASSUME TypeOK, Sound, OneRecorded, OneInUse, NEW w \in Requests, NewSession(w), Clean' => Clean
  PROVE  OneInUse'
<1>1. /\ worker[w] = "setup" /\ existing[w] = None
      /\ worker' = [worker EXCEPT ![w] = "named"]
      /\ UNCHANGED <<row, model, existing>>
      /\ made[w] = "not" /\ made' = [made EXCEPT ![w] = made'[w]]
      /\ \A s \in Requests : Recorded(s)' <=> Recorded(s) \/ s = w
      /\ Mixed => Mixed'
      /\ Clean /\ made'[w] # "blind" => \A s \in Requests : Recorded(s) => Mixed'
  BY SessionIsNew
<1>2. \A v \in Requests : v # w => session'[v] = session[v] /\ worker'[v] = worker[v]
  BY <1>1 DEF NewSession, TypeOK
<1>3. worker'[w] = "named"
  BY <1>1 DEF TypeOK
<1>4. Clean => \A v \in Requests : SettingUp(v) => v = w
  BY <1>1 DEF Sound, Serial, SettingUp
<1>5. Clean => Sole(w)'
  BY <1>1 DEF Sole
<1>6. ASSUME Clean', NEW v \in Requests PROVE existing'[v] = None
  BY <1>1, <1>4, <1>6 DEF Sound, Begun, SettingUp
<1>7. ASSUME Clean', NEW v \in Requests, worker'[v] = "ready", Recorded(session[v])'
      PROVE  Sole(session[v])'
  <2>1. v # w /\ worker[v] = "ready" /\ session'[v] = session[v]
    BY <1>2, <1>3, <1>7
  <2>2. PICK s \in Requests : s = session[v] /\ made[s] # "not" /\ model[s] = model[v]
    BY <1>7, <2>1 DEF Sound, Begun, RecordHolds
  <2>3. model[v] # model[w]
    BY <1>1, <1>7, <2>1 DEF Sound, Serial, Alive
  <2>4. made'[s] # "not" /\ made'[w] # "not"
    BY <1>1, <2>2 DEF Recorded, TypeOK
  <2>5. Mixed'
    BY <1>1, <2>2, <2>3, <2>4 DEF Mixed
  <2> QED BY <2>1, <2>5 DEF Sole
<1>8. ASSUME Clean', NEW v \in Requests, worker'[v] = "named" PROVE v = w
  BY <1>2, <1>4, <1>8 DEF SettingUp
<1> QED BY <1>3, <1>5, <1>6, <1>7, <1>8 DEF OneInUse

LEMMA RecordSessionOneInUse ==
  ASSUME TypeOK, Sound, OneInUse, NEW w \in Requests, RecordSession(w), Clean' => Clean
  PROVE  OneInUse'
<1>1. /\ worker[w] = "named" /\ worker' = [worker EXCEPT ![w] = "ready"]
      /\ row' = w /\ session[w] = w /\ session' = session
      /\ existing' = [existing EXCEPT ![w] = None]
      /\ UNCHANGED <<made, model>>
  BY DEF RecordSession, Record, SessionReady, reqVars, agtVars, Sound, Begun, TypeOK
<1>2. \A s : (Sole(s)' <=> Sole(s)) /\ (Recorded(s)' <=> Recorded(s))
  BY <1>1 DEF Sole, Mixed, Recorded
<1>3. Clean => Sole(w)
  BY <1>1 DEF OneInUse
<1>4. ASSUME Clean', NEW v \in Requests
      PROVE  /\ existing'[v] # None => Sole(existing'[v])
             /\ worker'[v] = "named" => Sole(v)
             /\ worker'[v] = "ready" /\ Recorded(session[v]) => Sole(session[v])
  BY <1>1, <1>3, <1>4 DEF OneInUse, TypeOK
<1>5. ASSUME Clean', NEW v \in Requests
      PROVE  /\ existing'[v] # None => Sole(existing[v])'
             /\ worker'[v] = "named" => Sole(v)'
             /\ worker'[v] = "ready" /\ Recorded(session[v])' => Sole(session[v])'
  BY <1>1, <1>4, <1>5 DEF Sole, Mixed, Recorded
<1>6. Clean' => Sole(row)'
  BY <1>1, <1>3 DEF Sole, Mixed, Recorded
<1> QED BY <1>5, <1>6 DEF OneInUse

LEMMA NextOneInUse ==
  TypeOK /\ Sound /\ OneRecorded /\ OneInUse /\ [Next]_vars => OneInUse'
<1> SUFFICES ASSUME TypeOK, Sound, OneRecorded, OneInUse, [Next]_vars PROVE OneInUse'
  OBVIOUS
<1>1. Clean' => Clean
  BY FaultsStay
<1>2. ASSUME UNCHANGED <<worker, existing, session, row, made>> PROVE OneInUse'
  BY <1>2, OneInUseStays DEF Recorded
<1>3. ASSUME NEW r \in Requests, NEW ask \in Asks, Arrive(r, ask) PROVE OneInUse'
  BY <1>2, <1>3 DEF Arrive, wrkVars, diskVars, agtVars
<1>4. ASSUME NEW r \in Requests, FindWorker(r) \/ ReadMeta(r) \/ StartFails(r) PROVE OneInUse'
  BY <1>2, <1>4 DEF FindWorker, ReadMeta, StartFails, wrkVars, diskVars, agtVars
<1>5. ASSUME NEW w \in Requests, Load(w) PROVE OneInUse'
  <2>1. /\ existing[w] # None /\ existing' = [existing EXCEPT ![w] = None]
        /\ worker[w] = "setup" /\ worker' = [worker EXCEPT ![w] = "ready"]
        /\ session' = [session EXCEPT ![w] = existing[w]]
        /\ UNCHANGED <<row, made>>
    BY <1>5 DEF Load, SessionReady, diskVars, agtVars
  <2>2. \A v \in Requests :
          /\ existing'[v] \in {existing[v], None}
          /\ worker'[v] = "named" => worker[v] = "named"
          /\ worker[v] = "named" => worker'[v] = "named"
          /\ worker'[v] = "ready" => \/ worker[v] = "ready" /\ session'[v] = session[v]
                                     \/ existing[v] # None /\ session'[v] = existing[v]
    BY <2>1 DEF TypeOK
  <2>3. \A x \in Requests : Recorded(x)' => Recorded(x)
    BY <2>1 DEF Recorded
  <2> QED BY <2>1, <2>2, <2>3, OneInUseStays
<1>6. ASSUME NEW w \in Requests, DegradedSession(w) PROVE OneInUse'
  <2>1. /\ existing' = [existing EXCEPT ![w] = None]
        /\ worker[w] = "setup" /\ worker' = [worker EXCEPT ![w] = "ready"]
        /\ session' = [session EXCEPT ![w] = w]
        /\ UNCHANGED row
    BY <1>6 DEF DegradedSession, SessionReady, diskVars
  <2>2. (\A s \in Requests : Recorded(s)' <=> Recorded(s)) /\ ~Recorded(w)
    BY <1>6, DegradedRecordsNone
  <2>3. ~Recorded(session[w])'
    BY <2>1, <2>2 DEF Recorded, TypeOK
  <2>4. \A v \in Requests :
          /\ existing'[v] \in {existing[v], None}
          /\ worker'[v] = "named" => worker[v] = "named"
          /\ worker[v] = "named" => worker'[v] = "named"
          /\ worker'[v] = "ready" /\ v # w => worker[v] = "ready" /\ session'[v] = session[v]
    BY <2>1 DEF TypeOK
  <2> QED BY <2>1, <2>2, <2>3, <2>4, OneInUseStays
<1>7. ASSUME NEW w \in Requests, SetupFails(w) \/ RecordFails(w) \/ Ends(w) \/ Unmap(w)
      PROVE  OneInUse'
  <2>1. UNCHANGED <<row, made>>
    BY <1>7 DEF SetupFails, RecordFails, Ends, Unmap, diskVars, agtVars
  <2>2. /\ worker' = [worker EXCEPT ![w] = "gone"] \/ worker' = [worker EXCEPT ![w] = "unmapped"]
        /\ existing' = [existing EXCEPT ![w] = None] \/ existing' = existing
        /\ session' = [session EXCEPT ![w] = None] \/ session' = session
    BY <1>7 DEF SetupFails, RecordFails, Ends, Unmap, WorkerEnds
  <2>3. Clean' => worker[w] # "named"
    BY <1>7 DEF SetupFails, RecordFails, Ends, Unmap, Clean
  <2>4. \A v \in Requests :
          /\ existing'[v] \in {existing[v], None}
          /\ worker'[v] = "named" => worker[v] = "named"
          /\ worker[v] = "named" /\ v # w => worker'[v] = "named"
          /\ worker'[v] = "ready" => worker[v] = "ready" /\ session'[v] = session[v]
    BY <2>2 DEF TypeOK
  <2>5. \A x \in Requests : Recorded(x)' => Recorded(x)
    BY <2>1 DEF Recorded
  <2> QED BY <2>1, <2>3, <2>4, <2>5, OneInUseStays
<1>8. ASSUME NEW w \in Requests, Serve(w) PROVE OneInUse'
  BY <1>2, <1>8 DEF Serve, wrkVars
<1>9. CASE Restart
  <2>1. /\ UNCHANGED <<row, made>>
        /\ \A w \in Requests : worker'[w] \in {"none", "unmapped"} /\ existing'[w] = None
        /\ Clean' => \A w \in Requests : worker[w] # "named"
    BY <1>9 DEF Restart, agtVars, Clean
  <2>2. \A x \in Requests : Recorded(x)' => Recorded(x)
    BY <2>1 DEF Recorded
  <2> QED BY <2>1, <2>2, OneInUseStays
<1>10. CASE UNCHANGED vars
  BY <1>2, <1>10 DEF vars, wrkVars, diskVars, agtVars
<1> QED BY <1>1, <1>3, <1>4, <1>5, <1>6, <1>7, <1>8, <1>9, <1>10,
           StartOneInUse, NewSessionOneInUse, RecordSessionOneInUse
        DEF Next, RequestStep, WorkerStep

\* A step that adds nothing to the transcript and gives no worker a session.
LEMMA TranscribedStays ==
  ASSUME TypeOK, Sound, Transcribed, [Next]_vars, UNCHANGED transcript,
         \A w \in Requests :
           worker'[w] = "ready" => worker[w] = "ready" /\ session'[w] = session[w]
  PROVE  Transcribed'
<1> SUFFICES ASSUME Clean', NEW w \in Requests,
                    worker'[w] = "ready", made'[session'[w]] = "transcribed"
             PROVE  transcript' \subseteq memory'[session'[w]] \/ Mixed'
  BY DEF Transcribed
<1>1. Clean
  BY FaultsStay
<1>2. PICK s \in Requests : s = session[w] /\ made[s] # "not"
  BY DEF Sound, Begun
<1>3. made'[s] = made[s] /\ memory[s] \subseteq memory'[s]
  BY <1>2, SessionsStay DEF Sound
<1>4. transcript \subseteq memory[s] \/ Mixed
  BY <1>1, <1>2, <1>3 DEF Transcribed
<1>5. Mixed => Mixed'
  BY MixedStays DEF Sound
<1> QED BY <1>2, <1>3, <1>4, <1>5

\* While no session of another model was made, the one worker that is alive tells its
\* session of every turn that comes into the transcript.
LEMMA ServeTranscribed ==
  ASSUME TypeOK, Sound, Transcribed, NEW v \in Requests, Serve(v)
  PROVE  Transcribed'
<1> SUFFICES ASSUME Clean', NEW w \in Requests,
                    worker'[w] = "ready", made'[session'[w]] = "transcribed", ~Mixed'
             PROVE  transcript' \subseteq memory'[session'[w]]
  BY DEF Transcribed
<1>1. /\ worker[v] = "ready" /\ UNCHANGED <<worker, session, made, model, faults>>
  BY DEF Serve, wrkVars
<1>2. PICK s \in Requests : s = session[w] /\ made[s] # "not"
  BY <1>1 DEF Sound, Begun
<1>3. PICK u \in Requests : u = session[v] /\ made[u] # "not"
  BY <1>1 DEF Sound, Begun
<1>4. model[s] = model[w] /\ model[u] = model[v] /\ model[s] = model[u]
  BY <1>1, <1>2, <1>3 DEF Sound, RecordHolds, Clean, Mixed
<1>5. v = w
  BY <1>1, <1>4 DEF Sound, Serial, Clean, Alive
<1>6. transcript \subseteq memory[s]
  BY <1>1, <1>2 DEF Transcribed, Clean, Mixed
<1>7. PICK r \in Requests : r = Head(queue[v])
  BY RangeOfQueue DEF Serve, TypeOK
<1>8. memory[s] \subseteq TurnsIn(Known(r, s))
  BY DEF TurnsIn, Known, TurnItems, TypeOK
<1>9. \/ memory' = memory /\ transcript' = transcript
      \/ /\ memory' = [memory EXCEPT ![s] = TurnsIn(Known(r, s)) \cup {r}]
         /\ transcript' \subseteq transcript \cup {r}
  BY <1>2, <1>5, <1>7 DEF Serve, TranscriptIsKept
<1>10. transcript' \subseteq memory'[s]
  BY <1>6, <1>8, <1>9 DEF TypeOK
<1> QED BY <1>1, <1>2, <1>10

LEMMA DegradedTranscribed ==
  ASSUME TypeOK, Sound, Transcribed, NEW v \in Requests, DegradedSession(v), [Next]_vars
  PROVE  Transcribed'
<1> SUFFICES ASSUME Clean', NEW w \in Requests,
                    worker'[w] = "ready", made'[session'[w]] = "transcribed"
             PROVE  transcript' \subseteq memory'[session'[w]] \/ Mixed'
  BY DEF Transcribed
<1>1. /\ worker[v] = "setup" /\ worker' = [worker EXCEPT ![v] = "ready"]
      /\ session' = [session EXCEPT ![v] = v]
      /\ UNCHANGED <<transcript, model>>
  BY DEF DegradedSession, SessionReady, reqVars, diskVars
<1>2. CASE w = v
  <2>1. PICK told : CreateSession(v, HowDegraded(v, told), told)
    BY DEF DegradedSession
  <2>2. HowDegraded(v, told) = "transcribed" => told = transcript
    BY DEF HowDegraded
  <2>3. made'[v] = "transcribed" => memory'[v] = transcript
    BY <2>1, <2>2 DEF CreateSession, TypeOK
  <2> QED BY <1>1, <1>2, <2>3 DEF TypeOK
<1>3. CASE w # v
  <2>1. Clean
    BY FaultsStay
  <2>2. worker[w] = "ready" /\ session'[w] = session[w]
    BY <1>1, <1>3 DEF TypeOK
  <2>3. PICK s \in Requests : s = session[w] /\ made[s] # "not"
    BY <2>2 DEF Sound, Begun
  <2>4. made'[s] = made[s] /\ memory[s] \subseteq memory'[s]
    BY <2>3, SessionsStay DEF Sound
  <2>5. transcript \subseteq memory[s] \/ Mixed
    BY <2>1, <2>2, <2>3, <2>4 DEF Transcribed
  <2>6. Mixed => Mixed'
    BY MixedStays DEF Sound
  <2> QED BY <1>1, <2>2, <2>3, <2>4, <2>5, <2>6
<1> QED BY <1>2, <1>3

\* A worker that loads a session, or comes to be ready after it has recorded one, has a
\* recorded session, and no other worker's changes.
LEMMA RecordedTranscribed ==
  ASSUME TypeOK, Sound, Transcribed, NEW v \in Requests, Load(v) \/ RecordSession(v), [Next]_vars
  PROVE  Transcribed'
<1>1. /\ worker' = [worker EXCEPT ![v] = "ready"]
      /\ \/ /\ session' = [session EXCEPT ![v] = existing[v]]
            /\ existing[v] # None /\ worker[v] = "setup"
         \/ session' = session /\ worker[v] = "named"
      /\ UNCHANGED <<transcript, made, memory, model, faults>>
  <2>1. CASE Load(v)
    BY <2>1 DEF Load, SessionReady, reqVars, diskVars, agtVars
  <2>2. CASE RecordSession(v)
    <3>1. [session EXCEPT ![v] = session[v]] = session
      BY DEF TypeOK
    <3> QED BY <2>2, <3>1 DEF RecordSession, SessionReady, reqVars, agtVars
  <2> QED BY <2>1, <2>2
<1>2. made[session'[v]] \in {"new", "blind"}
  BY <1>1 DEF Sound, Begun, Recorded, TypeOK
<1>3. \A w \in Requests : w # v => worker'[w] = worker[w] /\ session'[w] = session[w]
  BY <1>1 DEF TypeOK
<1>4. Mixed => Mixed'
  BY <1>1 DEF Mixed
<1> QED BY <1>1, <1>2, <1>3, <1>4 DEF Transcribed, Clean

LEMMA NextTranscribed ==
  TypeOK /\ Sound /\ Transcribed /\ [Next]_vars => Transcribed'
<1> SUFFICES ASSUME TypeOK, Sound, Transcribed, [Next]_vars PROVE Transcribed'
  OBVIOUS
<1>1. ASSUME NEW r \in Requests, NEW ask \in Asks, Arrive(r, ask) PROVE Transcribed'
  BY <1>1, TranscribedStays DEF Arrive, wrkVars, diskVars
<1>2. ASSUME NEW r \in Requests, RequestStep(r) PROVE Transcribed'
  BY <1>2, TranscribedStays
  DEF RequestStep, FindWorker, ReadMeta, Start, StartFails, wrkVars, diskVars, TypeOK
<1>3. ASSUME NEW w \in Requests, NewSession(w) PROVE Transcribed'
  BY <1>3, TranscribedStays DEF NewSession, TypeOK
<1>4. ASSUME NEW w \in Requests, SetupFails(w) \/ RecordFails(w) \/ Ends(w) \/ Unmap(w)
      PROVE  Transcribed'
  <2>1. UNCHANGED transcript
    BY <1>4 DEF SetupFails, RecordFails, Ends, Unmap, diskVars
  <2>2. /\ worker' = [worker EXCEPT ![w] = "gone"] \/ worker' = [worker EXCEPT ![w] = "unmapped"]
        /\ session' = [session EXCEPT ![w] = None] \/ session' = session
    BY <1>4 DEF SetupFails, RecordFails, Ends, Unmap, WorkerEnds
  <2> QED BY <2>1, <2>2, TranscribedStays DEF TypeOK
<1>5. CASE Restart
  <2>1. UNCHANGED transcript /\ \A w \in Requests : worker'[w] # "ready"
    BY <1>5 DEF Restart
  <2> QED BY <2>1, TranscribedStays
<1>6. CASE UNCHANGED vars
  BY <1>6, TranscribedStays DEF vars, wrkVars, diskVars
<1> QED BY <1>1, <1>2, <1>3, <1>4, <1>5, <1>6,
           ServeTranscribed, DegradedTranscribed, RecordedTranscribed
        DEF Next, WorkerStep

\* What a request misses that is answered in the session of w.
LEMMA LossIsExplained ==
  ASSUME TypeOK, ContextIsPlanned, Sound, OneInUse, Transcribed,
         NEW w \in Requests, Serve(w), Clean,
         NEW r \in Requests, r \in Answered' \ Answered,
         NEW t \in Requests, t \in TurnsIn(missed'[r])
  PROVE  Explained(r, t)'
<1>1. PICK q \in Requests : q = Head(queue[w]) /\ q \in Range(queue[w])
  BY RangeOfQueue DEF Serve, TypeOK
<1>2. /\ worker[w] = "ready"
      /\ UNCHANGED <<model, made, faults>>
      /\ r = q
  BY <1>1 DEF Serve, Answered, TypeOK
<1>3. PICK s \in Requests : s = session[w] /\ made[s] # "not" /\ (s = w \/ Recorded(s))
  BY <1>2 DEF Sound, Begun
<1>4. model[r] = model[w] /\ model[s] = model[w]
  BY <1>1, <1>2, <1>3 DEF Sound, Delivered, RecordHolds
<1>5. /\ missed' = [missed EXCEPT ![r] = due[r] \ Known(r, s)]
      /\ memory' = [memory EXCEPT ![s] = TurnsIn(Known(r, s)) \cup {r}]
      /\ transcript' = transcript \cup {r} \/ transcript' = transcript
  BY <1>1, <1>2, <1>3 DEF Serve, Answered, TypeOK, TranscriptIsKept
<1>6. t \notin TurnsIn(Known(r, s))
  BY <1>5 DEF TurnsIn, TypeOK
<1>7. memory[s] \subseteq TurnsIn(Known(r, s))
  BY DEF TurnsIn, Known, TurnItems, TypeOK
<1>8. r \in memory'[s] /\ memory'[s] = TurnsIn(Known(r, s)) \cup {r}
  BY <1>5 DEF TypeOK
<1> SUFFICES ASSUME \A x \in Requests : made[x] # "not" => model[x] = model[r],
                    t \in transcript', made[s] \notin {"blind", "replayed", "partial"}
             PROVE  (\A x \in SessionsOf(t) : ~Recorded(x))' /\ (\E x \in SessionsOf(r) : Recorded(x))'
  BY <1>2, <1>8 DEF Explained, SessionsOf
<1>9. ~Mixed
  BY DEF Mixed
<1>10. t # r
  BY <1>5 DEF ContextIsPlanned, TurnsIn, TypeOK
<1>11. made[s] # "transcribed"
  BY <1>2, <1>3, <1>5, <1>6, <1>7, <1>9, <1>10 DEF Transcribed
<1>12. Recorded(s)
  BY <1>3, <1>11 DEF Recorded, TypeOK
<1>13. ASSUME NEW x \in Requests, t \in memory'[x], Recorded(x) PROVE FALSE
  <2>1. x = s
    BY <1>2, <1>3, <1>9, <1>12, <1>13 DEF OneInUse, Sole
  <2> QED BY <1>6, <1>8, <1>10, <1>13, <2>1
<1> QED BY <1>2, <1>8, <1>12, <1>13 DEF SessionsOf, Recorded

\* At the time a request is answered without knowledge of an earlier turn, one of the
\* reasons holds that MemoryLossIsExplained lists: there is one recorded session in use
\* as long as all ask for one model and session.json is read, a session made from all of
\* the transcript keeps up with it, and a
\* worker is alone while it lives (setup_session, build_prompt_plan, get_or_start).
THEOREM MemoryLossesAreExplained == Spec => MemoryLossIsExplained
<1>1. ASSUME TypeOK, ContextIsPlanned, Sound, OneInUse, Transcribed, [Next]_vars
      PROVE  [faults' = {} =>
                \A r \in Answered' \ Answered : \A t \in TurnsIn(missed'[r]) : Explained(r, t)']_vars
  <2> SUFFICES ASSUME Next, Clean', NEW r \in Answered' \ Answered, NEW t \in TurnsIn(missed'[r])
               PROVE  Explained(r, t)'
    BY <1>1 DEF Clean
  <2>1. r \in Requests /\ t \in Requests /\ Clean
    BY FaultsStay DEF Answered, TurnsIn
  <2>2. PICK w \in Requests : Serve(w)
    <3>1. ASSUME NEW q \in Requests, NEW ask \in Asks, Arrive(q, ask) PROVE FALSE
      BY <1>1, <3>1 DEF Arrive, Answered, TypeOK
    <3>2. ASSUME NEW q \in Requests, RequestStep(q) PROVE FALSE
      BY <1>1, <3>2 DEF RequestStep, FindWorker, ReadMeta, Start, StartFails, Answered, TypeOK
    <3>3. ASSUME NEW q \in Requests, WorkerStep(q) \/ Ends(q) \/ Unmap(q), ~Serve(q) PROVE FALSE
      BY <1>1, <3>3 DEF WorkerStep, Load, SetupFails, DegradedSession, NewSession, RecordSession,
                        RecordFails, Ends, Unmap, WorkerEnds, reqVars, Answered, TypeOK
    <3>4. ~Restart
      BY <1>1 DEF Restart, Answered, TypeOK
    <3>5. ~UNCHANGED vars
      BY DEF vars, reqVars, Answered
    <3> QED BY <3>1, <3>2, <3>3, <3>4, <3>5 DEF Next
  <2> QED BY <1>1, <2>1, <2>2, LossIsExplained
<1>2. TypeOK /\ Sound /\ OneRecorded /\ OneInUse /\ Transcribed /\ [Next]_vars
        => (OneRecorded /\ OneInUse /\ Transcribed)'
  BY NextOneRecorded, NextOneInUse, NextTranscribed
<1>3. Init => ContextIsPlanned /\ OneRecorded /\ OneInUse /\ Transcribed
  BY InitContext, InitRecord
<1>4. TypeOK /\ ContextIsPlanned /\ [Next]_vars => ContextIsPlanned'
  BY NextContext
<1> QED BY <1>1, <1>2, <1>3, <1>4, SoundIsKept, PTL DEF Spec, MemoryLossIsExplained
=============================================================================
