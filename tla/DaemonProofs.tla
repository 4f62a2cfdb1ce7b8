---------------------------- MODULE DaemonProofs ----------------------------
(***************************************************************************)
(* Proofs about the daemon, its pidfile and the commands that run beside   *)
(* it, for any number of commands and daemons. The port is the only thing  *)
(* that excludes: what the pidfile may say of a daemon, and who may take   *)
(* it away from it, follows from there being one listener at most.         *)
(***************************************************************************)
EXTENDS Daemon, TLAPS

Listens(d) == daemon[d] \in {"bound", "writing", "serving"}

\* The port is bound by one daemon at most.
OneListens == \A d, e \in Daemons : Listens(d) /\ Listens(e) => d = e

\* The pidfile of a daemon that has begun to write it names no other.
PidfileIsItsOwn ==
  \A d \in Daemons : /\ daemon[d] = "writing" => pidfile \in {Torn, None}
                     /\ daemon[d] = "serving" => pidfile \in {d, None}

\* A start spawns its daemon once.
SpawnsOnce == \A s \in Starts : start[s] \in {"new", "looking", "stale"} => daemon[s] = "none"

\* Commands that read the pidfile while d holds it read d. Who would remove it then is a
\* stop that is about to end d, or, if nothing ends d, to say so.
StartRemovesNothing(s, d) ==
  /\ start[s] \notin {"stale", "removing"}
  /\ start[s] \in {"looking", "relooking"} => seen[s] = d
StopRemovesOf(t, d) ==
  /\ stop[t] # "stale"
  /\ stop[t] \in {"read", "alive"} => target[t] = d
  /\ stop[t] = "signalled" => target[t] = d /\ d \in immune
OnlyStopsRemove(d) ==
  /\ Draining = {}
  /\ \A s \in Starts : StartRemovesNothing(s, d)
  /\ \A t \in Stops : StopRemovesOf(t, d)

\* A stop has removed the pidfile of d, and d does not end.
Excused(d) == d \in immune /\ SaidToBeStopped(d)

\* A daemon that wrote the pidfile in no race still has it.
Writes(d) == daemon[d] \in {"writing", "serving"}
Has(d) == /\ daemon[d] = "writing" => pidfile = Torn
          /\ daemon[d] = "serving" => pidfile = d
          /\ OnlyStopsRemove(d)
PidfileIsKept == \A d \in Daemons : ~raced /\ ~Excused(d) /\ Writes(d) => Has(d)

\* A daemon that served when a stop began has served since, or is gone from the port;
\* the stop has its pid, or has it on its list, or has ended it, or cannot.
OnItsWay(t) ==
  /\ stop[t] \in {"new", "done", "blind"} => before[t] = {}
  /\ \A d \in before[t] :
       /\ daemon[d] \in {"serving", "draining", "dead"}
       /\ daemon[d] = "serving" =>
            /\ stop[t] \in {"read", "alive"} => target[t] = d
            /\ stop[t] = "signalled" => d \in immune
            /\ stop[t] = "killing" => d \in todo[t] \cup immune

StopIsOnItsWay == \A t \in Stops : OnItsWay(t)

\* The daemon that answered a start has served, and while it serves it is the one that
\* the start reads in the pidfile.
ReadsWhoAnswered ==
  \A s \in Starts :
    /\ start[s] \in {"healthy", "reporting"} =>
         daemon[asks[s]] \in {"serving", "draining", "dead"}
    /\ start[s] = "reporting" /\ daemon[asks[s]] = "serving" => seen[s] = asks[s]

-----------------------------------------------------------------------------
(* Types. *)

LEMMA InitTypeOK == Init => TypeOK
<1> SUFFICES ASSUME Init PROVE TypeOK
  OBVIOUS
<1>1. /\ \A s \in Starts : start[s] = "new" /\ asks[s] = None /\ seen[s] = None
      /\ \A t \in Stops : stop[t] = "new" /\ todo[t] = {}
  BY DEF Init
<1>2. /\ start \in [Starts -> StartStates] /\ asks \in [Starts -> Daemons \cup {None}]
      /\ seen \in [Starts -> Daemons \cup {None}]
      /\ stop \in [Stops -> StopStates] /\ target \in [Stops -> Daemons \cup {None}]
  BY DEF Init, StartStates, StopStates
<1>3. /\ todo \in [Stops -> SUBSET Daemons] /\ before \in [Stops -> SUBSET Daemons]
      /\ raced \in BOOLEAN /\ misnamed \subseteq Starts
  BY DEF Init
<1>4. immune \subseteq Foreground /\ pidfile \in Daemons \cup {None, Torn}
  BY DEF Init, Daemons
<1>5. daemon \in [Daemons -> {"none", "starting", "bound", "writing", "serving",
                              "draining", "dead"}]
  BY DEF Init
<1>6. /\ \A s \in Starts : /\ (asks[s] # None) = (start[s] \in {"asking", "healthy", "reporting"})
                           /\ (seen[s] # None) = (start[s] \in {"looking", "reporting", "relooking"})
      /\ \A t \in Stops : /\ stop[t] \in {"read", "alive", "signalled"} => target[t] # None
                          /\ (todo[t] # {}) = (stop[t] = "killing")
  BY <1>1
<1> QED BY <1>2, <1>3, <1>4, <1>5, <1>6 DEF TypeOK

LEMMA DaemonTypeOK ==
  ASSUME TypeOK, NEW d \in Daemons, DaemonStep(d)
  PROVE  TypeOK'
<1> USE DEF startVars, stopVars, TypeOK, DaemonGoes
<1>1. CASE RunInForeground(d) \/ Bind(d) \/ Interrupt(d) \/ Crash(d)
  BY <1>1 DEF RunInForeground, Bind, Interrupt, Crash
<1>2. CASE CreatePidFile(d)
  BY <1>2 DEF CreatePidFile
<1>3. CASE WritePid(d)
  BY <1>3 DEF WritePid
<1>4. CASE EndDaemon(d)
  BY <1>4 DEF EndDaemon
<1> QED BY <1>1, <1>2, <1>3, <1>4 DEF DaemonStep

LEMMA StartTypeOK ==
  ASSUME TypeOK, NEW s \in Starts, StartStep(s) \/ Timeout(s)
  PROVE  TypeOK'
<1> USE DEF stopVars, TypeOK, StartGoes, StartStates, Spawned
<1>1. s \in Daemons
  BY DEF Daemons
<1>2. CASE LookUp(s) \/ ReadReported(s) \/ ReadAgain(s)
  <2> USE NamesAreApart
  <2>1. CASE LookUp(s)
    BY <1>1, <2>1 DEF LookUp
  <2>2. CASE ReadReported(s)
    BY <2>2 DEF ReadReported
  <2>3. CASE ReadAgain(s)
    BY <2>3 DEF ReadAgain
  <2> QED BY <1>2, <2>1, <2>2, <2>3
<1>3. CASE RemoveStale(s) \/ GiveUp(s) \/ Timeout(s)
  BY <1>1, <1>3 DEF RemoveStale, GiveUp, Timeout
<1>4. CASE Look(s) \/ LookAgain(s)
  BY <1>4 DEF Look, LookAgain
<1>5. CASE AskHealth(s)
  BY <1>5, NamesAreApart DEF AskHealth, Listening
<1>6. CASE HealthAnswered(s)
  BY <1>6 DEF HealthAnswered
<1>7. CASE Report(s)
  <2>1. misnamed' \subseteq Starts
    BY <1>7 DEF Report
  <2>2. start' = [start EXCEPT ![s] = "ok"] \/ start' = [start EXCEPT ![s] = "failed"]
    BY <1>7 DEF Report
  <2>3. /\ asks' = [asks EXCEPT ![s] = None] /\ seen' = [seen EXCEPT ![s] = None]
        /\ UNCHANGED <<daemon, pidfile, raced, immune, stop, target, todo, before>>
    BY <1>7 DEF Report
  <2>4. /\ start' \in [Starts -> StartStates]
        /\ asks' \in [Starts -> Daemons \cup {None}] /\ seen' \in [Starts -> Daemons \cup {None}]
    BY <2>2, <2>3
  <2>5. \A r \in Starts :
          /\ (asks'[r] # None) = (start'[r] \in {"asking", "healthy", "reporting"})
          /\ (seen'[r] # None) = (start'[r] \in {"looking", "reporting", "relooking"})
    BY <2>2, <2>3
  <2> QED BY <2>1, <2>3, <2>4, <2>5
<1> QED BY <1>2, <1>3, <1>4, <1>5, <1>6, <1>7 DEF StartStep

LEMMA StopTypeOK ==
  ASSUME TypeOK, NEW t \in Stops, StopStep(t)
  PROVE  TypeOK'
<1> USE DEF startVars, TypeOK, StopGoes, StopStates, StopEnds
<1>1. CASE ReadPid(t)
  BY <1>1, NamesAreApart DEF ReadPid, Serving
<1>2. CASE TestPid(t)
  BY <1>2 DEF TestPid
<1>3. CASE Signal(t)
  BY <1>3 DEF Signal, Terminate
<1>4. CASE RemoveSignalled(t) \/ RemoveDead(t) \/ ListFails(t)
  BY <1>4 DEF RemoveSignalled, RemoveDead, ListFails
<1>5. CASE ListPort(t)
  BY <1>5 DEF ListPort
<1>6. CASE SignalListed(t)
  BY <1>6 DEF SignalListed, Terminate
<1> QED BY <1>1, <1>2, <1>3, <1>4, <1>5, <1>6 DEF StopStep

LEMMA NextTypeOK == TypeOK /\ [Next]_vars => TypeOK'
<1> SUFFICES ASSUME TypeOK, [Next]_vars PROVE TypeOK'
  OBVIOUS
<1>1. CASE Next
  BY <1>1, DaemonTypeOK, StartTypeOK, StopTypeOK DEF Next
<1>2. CASE UNCHANGED vars
  BY <1>2 DEF vars, startVars, stopVars, TypeOK
<1> QED BY <1>1, <1>2

\* The variables have their types in every behaviour, a start asks a daemon exactly while
\* it needs its answer and has a pid exactly while it tests it, and a stop has processes to
\* signal exactly while it signals them.
THEOREM TypesAreKept == Spec => []TypeOK
BY InitTypeOK, NextTypeOK, PTL DEF Spec
-----------------------------------------------------------------------------
(* One listener, and what it may find in the pidfile. *)

\* What becomes of a daemon in a step.
Stays(d) == daemon'[d] = daemon[d]
Moves(d, from, to) == daemon[d] = from /\ daemon'[d] = to
Ends(d)  == daemon[d] # "none" /\ daemon'[d] = "dead"

\* A stop command ends daemons that were spawned, and does nothing else to them or to starts.
LEMMA StopEndsDaemons ==
  ASSUME NEW t \in Stops, StopStep(t)
  PROVE  /\ \A d \in Daemons : Stays(d) \/ Ends(d)
         /\ UNCHANGED startVars
<1> USE DEF Stays, Ends
<1>1. CASE \/ ReadPid(t) \/ TestPid(t) \/ RemoveSignalled(t) \/ RemoveDead(t)
           \/ ListPort(t) \/ ListFails(t)
  BY <1>1 DEF ReadPid, TestPid, RemoveSignalled, RemoveDead, ListPort, ListFails
<1>2. CASE Signal(t)
  BY <1>2 DEF Signal, Terminate
<1>3. CASE SignalListed(t)
  BY <1>3 DEF SignalListed, Terminate
<1> QED BY <1>1, <1>2, <1>3 DEF StopStep

\* What a step may do to a daemon: it follows run_daemon, is ended, or is spawned by the
\* start command it is named by.
LEMMA DaemonFollows ==
  ASSUME TypeOK, SpawnsOnce, Next, NEW d \in Daemons
  PROVE  \/ Stays(d) \/ Ends(d)
         \/ Moves(d, "none", "starting")
         \/ /\ Moves(d, "starting", "bound") /\ Listening = {}
            /\ daemon' = [daemon EXCEPT ![d] = "bound"]
         \/ Moves(d, "bound", "writing") /\ CreatePidFile(d)
         \/ Moves(d, "writing", "serving") /\ WritePid(d)
         \/ Moves(d, "serving", "draining") /\ Interrupt(d)
<1> USE DEF Stays, Moves, Ends, TypeOK
<1>1. ASSUME NEW e \in Daemons, DaemonStep(e)
      PROVE  \/ Stays(d) \/ Ends(d) \/ Moves(d, "none", "starting")
             \/ /\ Moves(d, "starting", "bound") /\ Listening = {}
                /\ daemon' = [daemon EXCEPT ![d] = "bound"]
             \/ Moves(d, "bound", "writing") /\ CreatePidFile(d)
             \/ Moves(d, "writing", "serving") /\ WritePid(d)
             \/ Moves(d, "serving", "draining") /\ Interrupt(d)
  <2>1. CASE e # d
    BY <1>1, <2>1 DEF DaemonStep, DaemonGoes, RunInForeground, Bind, CreatePidFile, WritePid,
                      Interrupt, EndDaemon, Crash
  <2>2. CASE RunInForeground(d) \/ Bind(d)
    BY <2>2 DEF RunInForeground, Bind, DaemonGoes
  <2>3. CASE CreatePidFile(d)
    BY <2>3 DEF CreatePidFile, DaemonGoes
  <2>4. CASE WritePid(d)
    BY <2>4 DEF WritePid, DaemonGoes
  <2>5. CASE Interrupt(d)
    BY <2>5 DEF Interrupt, DaemonGoes
  <2>6. CASE EndDaemon(d) \/ Crash(d)
    BY <2>6 DEF EndDaemon, Crash, DaemonGoes
  <2> QED BY <1>1, <2>1, <2>2, <2>3, <2>4, <2>5, <2>6 DEF DaemonStep
<1>2. ASSUME NEW s \in Starts, StartStep(s) \/ Timeout(s)
      PROVE  Stays(d) \/ Moves(d, "none", "starting")
  <2>1. CASE LookUp(s) \/ RemoveStale(s)
    BY <2>1 DEF LookUp, RemoveStale, Spawned, SpawnsOnce, StartGoes
  <2>2. CASE ~(LookUp(s) \/ RemoveStale(s))
    BY <1>2, <2>2 DEF StartStep, Look, AskHealth, HealthAnswered, ReadReported, Report, ReadAgain,
                      LookAgain, GiveUp, Timeout
  <2> QED BY <2>1, <2>2
<1>3. ASSUME NEW t \in Stops, StopStep(t)
      PROVE  Stays(d) \/ Ends(d)
  BY <1>3, StopEndsDaemons
<1> QED BY <1>1, <1>2, <1>3 DEF Next

LEMMA NextOneListens ==
  TypeOK /\ SpawnsOnce /\ OneListens /\ [Next]_vars => OneListens'
<1> SUFFICES ASSUME TypeOK, SpawnsOnce, OneListens, [Next]_vars,
                    NEW d \in Daemons, NEW e \in Daemons, Listens(d)', Listens(e)'
             PROVE  d = e
  BY DEF OneListens
<1>1. CASE Next
  <2>1. ASSUME NEW f \in Daemons, Listens(f)'
        PROVE  Listens(f) \/ (Listening = {} /\ daemon' = [daemon EXCEPT ![f] = "bound"])
    BY <1>1, <2>1, DaemonFollows DEF Stays, Moves, Ends, Listens
  <2> QED BY <2>1 DEF OneListens, Listens, Listening, TypeOK
<1>2. CASE UNCHANGED vars
  BY <1>2 DEF vars, Listens, OneListens
<1> QED BY <1>1, <1>2

LEMMA NextSpawnsOnce == TypeOK /\ SpawnsOnce /\ [Next]_vars => SpawnsOnce'
<1> SUFFICES ASSUME TypeOK, SpawnsOnce, [Next]_vars, NEW s \in Starts,
                    start'[s] \in {"new", "looking", "stale"}
             PROVE  daemon'[s] = "none"
  BY DEF SpawnsOnce
<1>1. s \in Daemons
  BY DEF Daemons
<1>2. ASSUME NEW d \in Daemons, DaemonStep(d)
      PROVE  daemon'[s] = "none"
  <2>1. daemon[s] = "none" /\ (d = s => ~RunInForeground(d))
    BY <1>2, NamesAreApart
    DEF SpawnsOnce, DaemonStep, RunInForeground, Bind, CreatePidFile, WritePid, Interrupt,
        EndDaemon, Crash, startVars
  <2> QED BY <1>1, <1>2, <2>1
          DEF DaemonStep, RunInForeground, Bind, CreatePidFile, WritePid, Interrupt, EndDaemon,
              Crash, DaemonGoes, TypeOK
<1>3. ASSUME NEW r \in Starts, StartStep(r) \/ Timeout(r)
      PROVE  daemon'[s] = "none"
  <2>1. CASE LookUp(r)
    <3>1. daemon'[s] = daemon[s] \/ (s = r /\ pidfile = None)
      BY <1>1, <2>1 DEF LookUp, Spawned, TypeOK
    <3>2. pidfile = None => start'[r] = "waiting"
      BY <2>1, NamesAreApart DEF LookUp, StartGoes, TypeOK
    <3>3. start[s] \in {"new", "looking", "stale"}
      BY <2>1 DEF LookUp, StartGoes, TypeOK
    <3> QED BY <3>1, <3>2, <3>3 DEF SpawnsOnce
  <2>2. CASE RemoveStale(r)
    <3>1. daemon'[s] = daemon[s] \/ s = r
      BY <1>1, <2>2 DEF RemoveStale, Spawned, TypeOK
    <3>2. start'[r] = "waiting" /\ start[s] \in {"new", "looking", "stale"}
      BY <2>2 DEF RemoveStale, StartGoes, TypeOK
    <3> QED BY <3>1, <3>2 DEF SpawnsOnce
  <2>3. CASE ~(LookUp(r) \/ RemoveStale(r))
    <3>1. UNCHANGED daemon
      BY <1>3, <2>3
      DEF StartStep, Look, AskHealth, HealthAnswered, ReadReported, Report, ReadAgain, LookAgain,
          GiveUp, Timeout
    <3>2. start[s] \in {"new", "looking", "stale"}
      <4>1. CASE Look(r)
        BY <4>1 DEF Look, StartGoes, TypeOK
      <4>2. CASE AskHealth(r) \/ HealthAnswered(r) \/ ReadReported(r) \/ Report(r)
        BY <4>2 DEF AskHealth, HealthAnswered, ReadReported, Report, StartGoes, TypeOK
      <4>3. CASE ReadAgain(r) \/ LookAgain(r) \/ GiveUp(r) \/ Timeout(r)
        BY <4>3 DEF ReadAgain, LookAgain, GiveUp, Timeout, StartGoes, TypeOK
      <4> QED BY <1>3, <2>3, <4>1, <4>2, <4>3 DEF StartStep
    <3> QED BY <3>1, <3>2 DEF SpawnsOnce
  <2> QED BY <2>1, <2>2, <2>3
<1>4. ASSUME NEW t \in Stops, StopStep(t)
      PROVE  daemon'[s] = "none"
  <2>1. daemon[s] = "none"
    BY <1>4, StopEndsDaemons DEF SpawnsOnce, startVars
  <2> QED BY <1>1, <1>4, <2>1, StopEndsDaemons DEF Stays, Ends
<1>5. CASE UNCHANGED vars
  BY <1>5 DEF vars, startVars, SpawnsOnce
<1> QED BY <1>2, <1>3, <1>4, <1>5 DEF Next

\* What a step may do to the pidfile: it is begun, written or removed.
LEMMA PidfileFollows ==
  ASSUME TypeOK, Next
  PROVE  \/ pidfile' = pidfile
         \/ pidfile' = None
         \/ \E d \in Daemons : CreatePidFile(d) /\ pidfile' = Torn
         \/ \E d \in Daemons : WritePid(d) /\ pidfile = Torn /\ pidfile' = d
<1>1. ASSUME NEW d \in Daemons, DaemonStep(d), pidfile' \notin {pidfile, None}
      PROVE  \/ CreatePidFile(d) /\ pidfile' = Torn
             \/ WritePid(d) /\ pidfile = Torn /\ pidfile' = d
  <2>1. CreatePidFile(d) \/ WritePid(d)
    BY <1>1 DEF DaemonStep, RunInForeground, Bind, Interrupt, EndDaemon, Crash
  <2>2. CreatePidFile(d) => pidfile' = Torn
    BY DEF CreatePidFile
  <2>3. WritePid(d) => pidfile = Torn /\ pidfile' = d
    BY <1>1 DEF WritePid
  <2> QED BY <2>1, <2>2, <2>3
<1>2. ASSUME NEW s \in Starts, StartStep(s) \/ Timeout(s)
      PROVE  pidfile' \in {pidfile, None}
  BY <1>2 DEF StartStep, LookUp, Look, RemoveStale, AskHealth, HealthAnswered, ReadReported,
              Report, ReadAgain, LookAgain, GiveUp, Timeout
<1>3. ASSUME NEW t \in Stops, StopStep(t)
      PROVE  pidfile' \in {pidfile, None}
  BY <1>3 DEF StopStep, ReadPid, TestPid, Signal, RemoveSignalled, RemoveDead, ListPort,
              ListFails, SignalListed
<1> QED BY <1>1, <1>2, <1>3 DEF Next

LEMMA NextPidfileIsItsOwn ==
  TypeOK /\ SpawnsOnce /\ OneListens /\ PidfileIsItsOwn /\ [Next]_vars => PidfileIsItsOwn'
<1> SUFFICES ASSUME TypeOK, SpawnsOnce, OneListens, PidfileIsItsOwn, [Next]_vars, NEW d \in Daemons
             PROVE  /\ daemon'[d] = "writing" => pidfile' \in {Torn, None}
                    /\ daemon'[d] = "serving" => pidfile' \in {d, None}
  BY DEF PidfileIsItsOwn
<1>1. CASE Next
  <2>1. CASE Stays(d) /\ Listens(d)
    <3>1. ASSUME NEW e \in Daemons, CreatePidFile(e) \/ WritePid(e) PROVE FALSE
      BY <2>1, <3>1 DEF Stays, CreatePidFile, WritePid, DaemonGoes, OneListens, Listens, TypeOK
    <3>2. pidfile' \in {pidfile, None}
      BY <1>1, <3>1, PidfileFollows
    <3> QED BY <2>1, <3>2 DEF Stays, PidfileIsItsOwn
  <2>2. CASE CreatePidFile(d) /\ Moves(d, "bound", "writing")
    BY <2>2 DEF CreatePidFile, Moves
  <2>3. CASE WritePid(d) /\ Moves(d, "writing", "serving")
    BY <2>3 DEF WritePid, Moves, PidfileIsItsOwn
  <2> QED BY <1>1, <2>1, <2>2, <2>3, DaemonFollows DEF Stays, Ends, Moves, Listens
<1>2. CASE UNCHANGED vars
  BY <1>2 DEF vars, PidfileIsItsOwn
<1> QED BY <1>1, <1>2

Order == OneListens /\ SpawnsOnce /\ PidfileIsItsOwn

LEMMA InitOrder == Init => Order
<1>1. Init => \A d \in Daemons : daemon[d] = IF d \in immune THEN "starting" ELSE "none"
  BY DEF Init
<1>2. Init => \A s \in Starts : s \in Daemons /\ s \notin immune
  BY NamesAreApart DEF Init, Daemons
<1> QED BY <1>1, <1>2 DEF Order, OneListens, SpawnsOnce, PidfileIsItsOwn, Listens

LEMMA OrderIsKept == Spec => [](TypeOK /\ Order)
<1>1. TypeOK /\ Order /\ [Next]_vars => Order'
  BY NextOneListens, NextSpawnsOnce, NextPidfileIsItsOwn DEF Order
<1> QED BY <1>1, InitTypeOK, NextTypeOK, InitOrder, PTL DEF Spec
-----------------------------------------------------------------------------
(* Whom a start reports. *)

\* Who has served does not come back to the port.
LEMMA ServedDoNotReturn ==
  ASSUME TypeOK, Order, Next, NEW d \in Daemons, daemon[d] \in {"serving", "draining", "dead"}
  PROVE  /\ daemon'[d] \in {"serving", "draining", "dead"}
         /\ daemon'[d] = "serving" => daemon[d] = "serving"
BY DaemonFollows DEF Order, Stays, Ends, Moves

LEMMA InitReadsWhoAnswered == Init => ReadsWhoAnswered
BY DEF Init, ReadsWhoAnswered

LEMMA NextReadsWhoAnswered ==
  TypeOK /\ Order /\ ReadsWhoAnswered /\ [Next]_vars => ReadsWhoAnswered'
<1> SUFFICES ASSUME TypeOK, Order, ReadsWhoAnswered, [Next]_vars, NEW s \in Starts
             PROVE  /\ start'[s] \in {"healthy", "reporting"} =>
                         daemon'[asks'[s]] \in {"serving", "draining", "dead"}
                    /\ start'[s] = "reporting" /\ daemon'[asks'[s]] = "serving" =>
                         seen'[s] = asks'[s]
  BY DEF ReadsWhoAnswered
<1>1. start[s] \in {"asking", "healthy", "reporting"} => asks[s] \in Daemons
  BY DEF TypeOK
<1>2. CASE Next /\ start'[s] = start[s] /\ asks'[s] = asks[s] /\ seen'[s] = seen[s]
  BY <1>1, <1>2, ServedDoNotReturn DEF ReadsWhoAnswered
<1>3. ASSUME StartStep(s) \/ Timeout(s), start'[s] \in {"healthy", "reporting"}
      PROVE  HealthAnswered(s) \/ ReadReported(s)
  <2>1. ~LookUp(s) /\ ~Look(s) /\ ~RemoveStale(s) /\ ~AskHealth(s)
    BY <1>3 DEF LookUp, Look, RemoveStale, AskHealth, StartGoes, TypeOK
  <2>2. ~Report(s) /\ ~ReadAgain(s) /\ ~LookAgain(s) /\ ~GiveUp(s) /\ ~Timeout(s)
    BY <1>3 DEF Report, ReadAgain, LookAgain, GiveUp, Timeout, StartGoes, TypeOK
  <2> QED BY <1>3, <2>1, <2>2 DEF StartStep
<1>4. CASE HealthAnswered(s)
  BY <1>1, <1>4 DEF HealthAnswered, StartGoes, TypeOK
<1>5. CASE ReadReported(s)
  <2>1. CASE start'[s] = "reporting"
    <3>1. /\ pidfile \in Daemons /\ seen'[s] = pidfile /\ asks'[s] = asks[s]
          /\ start[s] = "healthy" /\ daemon' = daemon
      BY <1>5, <2>1 DEF ReadReported, StartGoes, TypeOK
    <3>2. daemon[asks[s]] = "serving" => pidfile = asks[s]
      BY <1>1, <3>1, NamesAreApart DEF Order, PidfileIsItsOwn
    <3> QED BY <3>1, <3>2 DEF ReadsWhoAnswered
  <2>2. CASE start'[s] = "failed"
    BY <2>2
  <2> QED BY <1>5, <2>1, <2>2 DEF ReadReported, StartGoes, TypeOK
<1>6. ASSUME NEW r \in Starts, r # s, StartStep(r) \/ Timeout(r)
      PROVE  start'[s] = start[s] /\ asks'[s] = asks[s] /\ seen'[s] = seen[s]
  <2>1. CASE LookUp(r) \/ Look(r) \/ RemoveStale(r) \/ AskHealth(r) \/ HealthAnswered(r)
    BY <1>6, <2>1 DEF LookUp, Look, RemoveStale, AskHealth, HealthAnswered, StartGoes, TypeOK
  <2>2. CASE ReadReported(r) \/ Report(r) \/ ReadAgain(r) \/ LookAgain(r) \/ GiveUp(r) \/ Timeout(r)
    BY <1>6, <2>2 DEF ReadReported, Report, ReadAgain, LookAgain, GiveUp, Timeout, StartGoes, TypeOK
  <2> QED BY <1>6, <2>1, <2>2 DEF StartStep
<1>7. ASSUME NEW d \in Daemons, DaemonStep(d)
      PROVE  UNCHANGED startVars
  BY <1>7 DEF DaemonStep, RunInForeground, Bind, CreatePidFile, WritePid, Interrupt, EndDaemon,
              Crash
<1>8. ASSUME NEW t \in Stops, StopStep(t)
      PROVE  UNCHANGED startVars
  BY <1>8, StopEndsDaemons
<1>9. CASE UNCHANGED vars
  BY <1>9 DEF vars, startVars, ReadsWhoAnswered
<1>10. CASE Next
  <2>1. CASE \E r \in Starts : r # s /\ (StartStep(r) \/ Timeout(r))
    BY <1>2, <1>6, <1>10, <2>1
  <2>2. CASE StartStep(s) \/ Timeout(s)
    BY <1>3, <1>4, <1>5, <2>2
  <2>3. CASE UNCHANGED startVars
    BY <1>2, <1>10, <2>3 DEF startVars
  <2> QED BY <1>7, <1>8, <1>10, <2>1, <2>2, <2>3 DEF Next
<1> QED BY <1>9, <1>10

\* The pid that start reports is that of the daemon which answered it, if that daemon
\* still serves: while one serves, the pidfile names it or is gone, although commands
\* and daemons read, write and remove it with no lock, and the pid is read in one step and
\* tested in another (ensure_daemon_started).
THEOREM StartsNameTheServer == Spec => []StartNamesTheServer
<1>1. Init => StartNamesTheServer
  BY DEF Init, StartNamesTheServer
<1>2. TypeOK /\ ReadsWhoAnswered /\ StartNamesTheServer /\ [Next]_vars => StartNamesTheServer'
  <2> SUFFICES ASSUME TypeOK, ReadsWhoAnswered, StartNamesTheServer, [Next]_vars
               PROVE  misnamed' = misnamed
    BY DEF StartNamesTheServer
  <2>1. ASSUME NEW s \in Starts, StartStep(s) \/ Timeout(s)
        PROVE  misnamed' = misnamed
    <3>1. CASE Report(s)
      <4>1. start[s] = "reporting"
        BY <3>1 DEF Report, StartGoes
      <4>2. ~(asks[s] \in Serving /\ asks[s] # seen[s])
        BY <4>1 DEF Serving, ReadsWhoAnswered
      <4> QED BY <3>1, <4>2 DEF Report
    <3>2. CASE ~Report(s)
      BY <2>1, <3>2 DEF StartStep, LookUp, Look, RemoveStale, AskHealth, HealthAnswered,
                        ReadReported, ReadAgain, LookAgain, GiveUp, Timeout
    <3> QED BY <3>1, <3>2
  <2>2. ASSUME NEW d \in Daemons, DaemonStep(d)
        PROVE  misnamed' = misnamed
    BY <2>2 DEF DaemonStep, RunInForeground, Bind, CreatePidFile, WritePid, Interrupt, EndDaemon,
                Crash, startVars
  <2>3. ASSUME NEW t \in Stops, StopStep(t)
        PROVE  misnamed' = misnamed
    BY <2>3, StopEndsDaemons DEF startVars
  <2>4. CASE UNCHANGED vars
    BY <2>4 DEF vars, startVars
  <2> QED BY <2>1, <2>2, <2>3, <2>4 DEF Next
<1> QED BY <1>1, <1>2, InitReadsWhoAnswered, NextReadsWhoAnswered, OrderIsKept, PTL DEF Spec

-----------------------------------------------------------------------------
(* Who may take the pidfile away. *)

LEMMA InitPidfileIsKept == Init => PidfileIsKept
BY DEF Init, PidfileIsKept, Writes

\* What no daemon and no start touches.
LEMMA OthersLeaveStops ==
  /\ \A d \in Daemons : DaemonStep(d) => UNCHANGED stopVars
  /\ \A s \in Starts : StartStep(s) \/ Timeout(s) => UNCHANGED stopVars
BY DEF DaemonStep, RunInForeground, Bind, CreatePidFile, WritePid, Interrupt, EndDaemon, Crash,
       StartStep, LookUp, Look, RemoveStale, AskHealth, HealthAnswered, ReadReported, Report,
       ReadAgain, LookAgain, GiveUp, Timeout

LEMMA ImmuneStays == [Next]_vars => immune' = immune
<1>1. \A d \in Daemons : DaemonStep(d) => immune' = immune
  BY DEF DaemonStep, RunInForeground, Bind, CreatePidFile, WritePid, Interrupt, EndDaemon, Crash
<1>2. \A s \in Starts : StartStep(s) \/ Timeout(s) => immune' = immune
  BY DEF StartStep, LookUp, Look, RemoveStale, AskHealth, HealthAnswered, ReadReported, Report,
         ReadAgain, LookAgain, GiveUp, Timeout
<1>3. \A t \in Stops : StopStep(t) => immune' = immune
  BY DEF StopStep, ReadPid, TestPid, Signal, RemoveSignalled, RemoveDead, ListPort, ListFails,
         SignalListed
<1> QED BY <1>1, <1>2, <1>3 DEF Next, vars

\* A stop that has ended has ended, with what it said.
LEMMA ExcusedStays ==
  ASSUME TypeOK, [Next]_vars, NEW d \in Daemons, Excused(d)
  PROVE  Excused(d)'
<1>1. PICK t \in Stops : stop[t] = "done" /\ target[t] = d
  BY DEF Excused, SaidToBeStopped
<1>2. ASSUME NEW u \in Stops, StopStep(u)
      PROVE  stop'[t] = "done" /\ target'[t] = d
  <2>1. CASE ReadPid(u) \/ TestPid(u) \/ Signal(u) \/ RemoveSignalled(u)
    BY <1>1, <2>1 DEF ReadPid, TestPid, Signal, RemoveSignalled, StopGoes, TypeOK
  <2>2. CASE RemoveDead(u) \/ ListPort(u) \/ ListFails(u) \/ SignalListed(u)
    BY <1>1, <2>2 DEF RemoveDead, ListPort, ListFails, SignalListed, StopGoes, TypeOK
  <2> QED BY <1>2, <2>1, <2>2 DEF StopStep
<1>3. CASE UNCHANGED stopVars
  BY <1>1, <1>3, ImmuneStays DEF stopVars, Excused, SaidToBeStopped
<1>4. CASE \E u \in Stops : StopStep(u)
  BY <1>2, <1>4, ImmuneStays DEF Excused, SaidToBeStopped
<1> QED BY <1>3, <1>4, OthersLeaveStops DEF Next, vars

\* Once nobody is to remove the pidfile, the daemon that writes it has it.
LEMMA CreatePidFileHas ==
  ASSUME TypeOK, NEW d \in Daemons, CreatePidFile(d), ~raced'
  PROVE  Has(d)'
<1>1. Removers = {} /\ daemon'[d] = "writing" /\ pidfile' = Torn
  BY DEF CreatePidFile, DaemonGoes, TypeOK
<1>2. OnlyStopsRemove(d)
  BY <1>1 DEF Removers, OnlyStopsRemove, StartRemovesNothing, StopRemovesOf
<1>3. OnlyStopsRemove(d)'
  BY <1>2 DEF CreatePidFile, DaemonGoes, OnlyStopsRemove, StartRemovesNothing, StopRemovesOf,
              Draining, startVars, stopVars, TypeOK
<1> QED BY <1>1, <1>3 DEF Has

LEMMA DaemonsLeaveIt ==
  ASSUME TypeOK, Order, NEW d \in Daemons, Writes(d), Has(d), Writes(d)',
         NEW e \in Daemons, DaemonStep(e)
  PROVE  Has(d)' /\ ~CreatePidFile(e)
<1>1. ~CreatePidFile(e)
  BY DEF Order, OneListens, Listens, Writes, CreatePidFile, DaemonGoes
<1>2. ~EndDaemon(e)
  BY DEF Has, OnlyStopsRemove, Draining, EndDaemon, DaemonGoes
<1>3. ~Interrupt(e)
  BY DEF Order, OneListens, Listens, Writes, Interrupt, DaemonGoes, TypeOK
<1>4. Draining' \subseteq Draining
  BY <1>1, <1>3
  DEF DaemonStep, RunInForeground, Bind, WritePid, EndDaemon, Crash, DaemonGoes, Draining, TypeOK
<1>5. UNCHANGED <<start, seen, stop, target, immune>>
  BY DEF DaemonStep, RunInForeground, Bind, CreatePidFile, WritePid, Interrupt, EndDaemon, Crash,
         startVars, stopVars
<1>6. OnlyStopsRemove(d)'
  BY <1>4, <1>5 DEF Has, OnlyStopsRemove, StartRemovesNothing, StopRemovesOf
<1>7. CASE WritePid(e)
  <2>1. e = d
    BY <1>7 DEF Order, OneListens, Listens, Writes, WritePid, DaemonGoes
  <2> QED BY <1>1, <1>6, <1>7, <2>1 DEF WritePid, DaemonGoes, Has, TypeOK
<1>8. CASE RunInForeground(e) \/ Bind(e) \/ Crash(e)
  <2>1. pidfile' = pidfile
    BY <1>8 DEF RunInForeground, Bind, Crash
  <2>2. daemon'[d] = daemon[d]
    BY <1>8 DEF RunInForeground, Bind, Crash, DaemonGoes, Writes, TypeOK
  <2> QED BY <1>1, <1>6, <2>1, <2>2 DEF Has
<1> QED BY <1>1, <1>2, <1>3, <1>7, <1>8 DEF DaemonStep

\* A start that reads the pidfile while d has it finds d alive, or fails.
LEMMA StartsLeaveIt ==
  ASSUME TypeOK, Order, NEW d \in Daemons, Writes(d), Has(d), Writes(d)',
         NEW s \in Starts, StartStep(s) \/ Timeout(s)
  PROVE  Has(d)'
<1>1. UNCHANGED <<immune, stop, target>>
  BY DEF StartStep, LookUp, Look, RemoveStale, AskHealth, HealthAnswered, ReadReported, Report,
         ReadAgain, LookAgain, GiveUp, Timeout, stopVars
<1>2. ~RemoveStale(s) /\ ~GiveUp(s)
  BY DEF Has, OnlyStopsRemove, StartRemovesNothing, RemoveStale, GiveUp, StartGoes
<1>3. pidfile' = pidfile
  BY <1>2 DEF StartStep, LookUp, Look, AskHealth, HealthAnswered, ReadReported, Report, ReadAgain,
              LookAgain, Timeout
<1>4. daemon' = daemon
  <2>1. pidfile # None
    BY NamesAreApart DEF Has, Writes
  <2> QED BY <1>2, <2>1 DEF StartStep, LookUp, Look, AskHealth, HealthAnswered, ReadReported,
                            Report, ReadAgain, LookAgain, Timeout
<1>5. IsProcessAlive(d) /\ pidfile \in {d, Torn}
  BY DEF IsProcessAlive, Writes, Has
<1>6. \A r \in Starts : StartRemovesNothing(r, d)
  BY DEF Has, OnlyStopsRemove
<1>7. \A r \in Starts \ {s} : start'[r] = start[r] /\ seen'[r] = seen[r]
  <2>1. CASE LookUp(s) \/ Look(s) \/ AskHealth(s) \/ HealthAnswered(s) \/ ReadReported(s)
    BY <2>1 DEF LookUp, Look, AskHealth, HealthAnswered, ReadReported, StartGoes, TypeOK
  <2>2. CASE Report(s) \/ ReadAgain(s) \/ LookAgain(s) \/ Timeout(s)
    BY <2>2 DEF Report, ReadAgain, LookAgain, Timeout, StartGoes, TypeOK
  <2> QED BY <1>2, <2>1, <2>2 DEF StartStep
<1>8. StartRemovesNothing(s, d)'
  <2> USE DEF StartRemovesNothing
  <2>1. CASE LookUp(s) \/ ReadAgain(s)
    BY <1>5, <2>1, NamesAreApart DEF LookUp, ReadAgain, StartGoes, TypeOK
  <2>2. CASE Look(s) \/ LookAgain(s)
    BY <1>5, <1>6, <2>2 DEF Look, LookAgain, StartGoes, TypeOK
  <2>3. CASE AskHealth(s) \/ HealthAnswered(s) \/ ReadReported(s) \/ Report(s) \/ Timeout(s)
    BY <2>3 DEF AskHealth, HealthAnswered, ReadReported, Report, Timeout, StartGoes, TypeOK
  <2> QED BY <1>2, <2>1, <2>2, <2>3 DEF StartStep
<1>9. OnlyStopsRemove(d)'
  BY <1>1, <1>4, <1>6, <1>7, <1>8
  DEF Has, OnlyStopsRemove, StartRemovesNothing, StopRemovesOf, Draining
<1> QED BY <1>3, <1>4, <1>9 DEF Has

\* A stop that reads the pidfile while d has it finds d alive, and ends d before it removes
\* the file, if anything ends d.
LEMMA StopsEndItFirst ==
  ASSUME TypeOK, Order, NEW d \in Daemons, Writes(d), Has(d), Writes(d)', ~Excused(d)',
         NEW t \in Stops, StopStep(t)
  PROVE  Has(d)'
<1>1. UNCHANGED <<immune, start, seen>>
  BY DEF StopStep, ReadPid, TestPid, Signal, RemoveSignalled, RemoveDead, ListPort, ListFails,
         SignalListed, startVars
<1>2. ~RemoveDead(t)
  BY DEF Has, OnlyStopsRemove, StopRemovesOf, RemoveDead, StopGoes
<1>3. ~RemoveSignalled(t)
  <2>1. ASSUME RemoveSignalled(t) PROVE target[t] = d /\ d \in immune
    BY <2>1 DEF RemoveSignalled, StopGoes, Has, OnlyStopsRemove, StopRemovesOf
  <2>2. RemoveSignalled(t) => stop'[t] = "done" /\ target' = target
    BY DEF RemoveSignalled, StopGoes, TypeOK
  <2> QED BY <1>1, <2>1, <2>2 DEF Excused, SaidToBeStopped
<1>4. pidfile' = pidfile
  BY <1>2, <1>3 DEF StopStep, ReadPid, TestPid, Signal, ListPort, ListFails, SignalListed
<1>5. \A e \in Daemons : daemon'[e] = daemon[e] \/ daemon'[e] = "dead"
  BY StopEndsDaemons DEF Stays, Ends
<1>6. Draining' = {} /\ daemon'[d] = daemon[d]
  BY <1>5 DEF Has, OnlyStopsRemove, Draining, Writes
<1>7. IsProcessAlive(d) /\ pidfile \in {d, Torn}
  BY DEF IsProcessAlive, Writes, Has
<1>8. \A u \in Stops : StopRemovesOf(u, d)
  BY DEF Has, OnlyStopsRemove
<1>9. \A u \in Stops \ {t} : stop'[u] = stop[u] /\ target'[u] = target[u]
  <2>1. CASE ReadPid(t) \/ TestPid(t) \/ Signal(t)
    BY <2>1 DEF ReadPid, TestPid, Signal, StopGoes, TypeOK
  <2>2. CASE ListPort(t) \/ ListFails(t) \/ SignalListed(t)
    BY <2>2 DEF ListPort, ListFails, SignalListed, StopGoes, TypeOK
  <2> QED BY <1>2, <1>3, <2>1, <2>2 DEF StopStep
<1>10. StopRemovesOf(t, d)'
  <2> USE DEF StopRemovesOf
  <2>1. CASE ReadPid(t)
    BY <1>7, <2>1, NamesAreApart DEF ReadPid, StopGoes, TypeOK
  <2>2. CASE TestPid(t)
    BY <1>7, <1>8, <2>2 DEF TestPid, StopGoes, TypeOK
  <2>3. CASE Signal(t)
    <3>1. target[t] = d
      BY <1>8, <2>3 DEF Signal, StopGoes
    <3>2. d \in immune
      BY <2>3, <3>1 DEF Signal, Terminate, Writes
    <3> QED BY <1>1, <1>7, <2>3, <3>1, <3>2 DEF Signal, StopGoes, TypeOK
  <2>4. CASE ListPort(t) \/ ListFails(t) \/ SignalListed(t)
    BY <2>4 DEF ListPort, ListFails, SignalListed, StopGoes, TypeOK
  <2> QED BY <1>2, <1>3, <2>1, <2>2, <2>3, <2>4 DEF StopStep
<1>11. OnlyStopsRemove(d)'
  BY <1>1, <1>6, <1>8, <1>9, <1>10
  DEF Has, OnlyStopsRemove, StartRemovesNothing, StopRemovesOf
<1> QED BY <1>4, <1>6, <1>11 DEF Has

LEMMA NextPidfileIsKept ==
  TypeOK /\ Order /\ PidfileIsKept /\ [Next]_vars => PidfileIsKept'
<1> SUFFICES ASSUME TypeOK, Order, PidfileIsKept, [Next]_vars, NEW d \in Daemons, ~raced',
                    ~Excused(d)', Writes(d)'
             PROVE  Has(d)'
  BY DEF PidfileIsKept
<1>1. ~Excused(d)
  BY ExcusedStays
<1>2. CASE CreatePidFile(d)
  BY <1>2, CreatePidFileHas
<1>3. CASE UNCHANGED vars
  BY <1>1, <1>3 DEF vars, startVars, stopVars, PidfileIsKept, Writes, Has, OnlyStopsRemove,
                    StartRemovesNothing, StopRemovesOf, Draining
<1>4. CASE Next /\ ~CreatePidFile(d)
  <2>1. Writes(d)
    BY <1>4, DaemonFollows DEF Order, Stays, Ends, Moves, Writes
  <2>2. ASSUME ~raced PROVE Has(d)
    BY <1>1, <2>1, <2>2 DEF PidfileIsKept
  <2>3. ASSUME NEW e \in Daemons, DaemonStep(e) PROVE Has(d)'
    <3>1. ~CreatePidFile(e)
      BY <1>4, <2>1 DEF Order, OneListens, Listens, Writes, CreatePidFile, DaemonGoes
    <3>2. ~raced
      BY <2>3, <3>1 DEF DaemonStep, RunInForeground, Bind, WritePid, Interrupt, EndDaemon, Crash
    <3> QED BY <2>1, <2>2, <2>3, <3>2, DaemonsLeaveIt
  <2>4. ASSUME NEW s \in Starts, StartStep(s) \/ Timeout(s) PROVE Has(d)'
    <3>1. ~raced
      BY <2>4 DEF StartStep, LookUp, Look, RemoveStale, AskHealth, HealthAnswered, ReadReported,
                  Report, ReadAgain, LookAgain, GiveUp, Timeout
    <3> QED BY <2>1, <2>2, <2>4, <3>1, StartsLeaveIt
  <2>5. ASSUME NEW t \in Stops, StopStep(t) PROVE Has(d)'
    <3>1. ~raced
      BY <2>5 DEF StopStep, ReadPid, TestPid, Signal, RemoveSignalled, RemoveDead, ListPort,
                  ListFails, SignalListed
    <3> QED BY <2>1, <2>2, <2>5, <3>1, StopsEndItFirst
  <2> QED BY <1>4, <2>3, <2>4, <2>5 DEF Next
<1> QED BY <1>2, <1>3, <1>4

\* A daemon that serves and is not named by the pidfile lost it to a command that had read
\* it, or to a daemon still draining, that was to remove it when the daemon wrote it, or it
\* is the first of a container and a stop said that it stopped it (read_pid,
\* is_process_alive, remove_pid).
THEOREM LostPidfilesAreExplained == Spec => []LostPidfileIsExplained
<1>1. PidfileIsKept => LostPidfileIsExplained
  BY DEF PidfileIsKept, LostPidfileIsExplained, Serving, Writes, Has, Excused
<1> QED BY <1>1, InitPidfileIsKept, NextPidfileIsKept, OrderIsKept, PTL DEF Spec
-----------------------------------------------------------------------------
(* What a stop leaves on the port. *)

LEMMA InitStopIsOnItsWay == Init => StopIsOnItsWay
BY DEF Init, StopIsOnItsWay, OnItsWay

\* A stop that comes to its end by this step leaves none of its daemons serving that a
\* signal ends.
ServersGone(t) ==
  stop'[t] = "done" => \A d \in before[t] : daemon'[d] = "serving" => d \in immune

LEMMA NextStopIsOnItsWay ==
  ASSUME TypeOK, Order, StopIsOnItsWay, [Next]_vars
  PROVE  StopIsOnItsWay' /\ \A t \in Stops : ServersGone(t)
<1> USE DEF OnItsWay, ServersGone
<1>0. immune' = immune
  BY ImmuneStays
<1>1. ASSUME NEW u \in Stops, before'[u] = before[u], stop'[u] = stop[u], target'[u] = target[u],
             todo'[u] = todo[u], Next
      PROVE  OnItsWay(u)' /\ ServersGone(u)
  <2>1. OnItsWay(u) /\ before[u] \subseteq Daemons
    BY DEF StopIsOnItsWay, TypeOK
  <2>2. \A d \in before[u] : /\ daemon'[d] \in {"serving", "draining", "dead"}
                             /\ daemon'[d] = "serving" => daemon[d] = "serving"
    BY <1>1, <2>1, ServedDoNotReturn
  <2> QED BY <1>0, <1>1, <2>1, <2>2
<1>2. ASSUME NEW t \in Stops, StopStep(t)
      PROVE  OnItsWay(t)' /\ ServersGone(t)
  <2> USE DEF StopGoes, StopEnds
  <2>1. CASE ReadPid(t)
    <3>1. /\ stop'[t] = "read" => target'[t] = pidfile /\ pidfile \in Daemons
          /\ stop'[t] \in {"failed", "read", "list"} /\ daemon' = daemon
          /\ stop[t] = "new" /\ before'[t] \subseteq Serving
      BY <2>1 DEF ReadPid, TypeOK
    <3>2. \A d \in Serving : pidfile \in Daemons => pidfile = d
      BY NamesAreApart DEF Order, PidfileIsItsOwn, Serving
    <3>3. before[t] = {}
      BY <3>1 DEF StopIsOnItsWay
    <3> QED BY <3>1, <3>2, <3>3 DEF Serving
  <2>2. OnItsWay(t) /\ before[t] \subseteq Daemons
    BY DEF StopIsOnItsWay, TypeOK
  <2>3. Next
    BY <1>2 DEF Next
  <2>4. \A d \in before[t] : /\ daemon'[d] \in {"serving", "draining", "dead"}
                             /\ daemon'[d] = "serving" => daemon[d] = "serving"
    BY <2>2, <2>3, ServedDoNotReturn
  <2>5. CASE TestPid(t)
    BY <2>2, <2>5 DEF TestPid, TypeOK
  <2>6. CASE Signal(t)
    <3>1. \A d \in before[t] : daemon'[d] = "serving" => d \in immune
      BY <2>2, <2>6 DEF Signal, Terminate
    <3>2. /\ stop'[t] \in {"signalled", "failed"} /\ before'[t] \subseteq before[t]
      BY <2>6 DEF Signal, TypeOK
    <3> QED BY <1>0, <2>4, <3>1, <3>2
  <2>7. CASE RemoveSignalled(t) \/ RemoveDead(t) \/ ListFails(t)
    BY <2>2, <2>7 DEF RemoveSignalled, RemoveDead, ListFails, TypeOK
  <2>8. CASE ListPort(t)
    <3>1. PICK pids \in SUBSET Daemons : /\ OnPort(pids)
                                         /\ todo'[t] = pids
                                         /\ stop'[t] = IF pids = {} THEN "done" ELSE "killing"
                                         /\ before'[t] = IF pids = {} THEN {} ELSE before[t]
      BY <2>8 DEF ListPort, TypeOK
    <3>2. \A d \in before[t] : daemon[d] = "serving" => d \in pids
      BY <2>2, <3>1 DEF OnPort, Listening
    <3> QED BY <2>4, <3>1, <3>2
  <2>9. CASE SignalListed(t)
    <3>1. PICK p \in todo[t] : /\ Terminate(p)
                               /\ todo'[t] = todo[t] \ {p}
                               /\ stop'[t] = IF todo[t] = {p} THEN "done" ELSE "killing"
                               /\ before'[t] = IF todo[t] = {p} THEN {} ELSE before[t]
                               /\ stop[t] = "killing"
      BY <2>9 DEF SignalListed, TypeOK
    <3>2. \A d \in before[t] : daemon'[d] = "serving" => d \in todo[t] \ {p} \/ d \in immune
      BY <2>2, <3>1 DEF Terminate
    <3> QED BY <1>0, <2>4, <3>1, <3>2
  <2> QED BY <1>2, <2>1, <2>5, <2>6, <2>7, <2>8, <2>9 DEF StopStep
<1>3. ASSUME NEW t \in Stops, StopStep(t), NEW u \in Stops, u # t
      PROVE  /\ before'[u] = before[u] /\ stop'[u] = stop[u]
             /\ target'[u] = target[u] /\ todo'[u] = todo[u]
  <2> USE DEF StopGoes, StopEnds, TypeOK
  <2>1. CASE ReadPid(t) \/ TestPid(t) \/ Signal(t) \/ RemoveSignalled(t)
    BY <1>3, <2>1 DEF ReadPid, TestPid, Signal, RemoveSignalled
  <2>2. CASE RemoveDead(t) \/ ListPort(t) \/ ListFails(t) \/ SignalListed(t)
    BY <1>3, <2>2 DEF RemoveDead, ListPort, ListFails, SignalListed
  <2> QED BY <1>3, <2>1, <2>2 DEF StopStep
<1>6. CASE UNCHANGED vars
  BY <1>6 DEF vars, stopVars, StopIsOnItsWay
<1>7. CASE Next
  <2>1. ASSUME NEW u \in Stops
        PROVE  OnItsWay(u)' /\ ServersGone(u)
    <3>1. CASE StopStep(u)
      BY <1>2, <3>1
    <3>2. CASE ~(StopStep(u))
      <4>1. /\ before'[u] = before[u] /\ stop'[u] = stop[u]
            /\ target'[u] = target[u] /\ todo'[u] = todo[u]
        BY <1>3, <1>7, <3>2, OthersLeaveStops DEF Next, stopVars
      <4> QED BY <1>1, <1>7, <4>1
    <3> QED BY <3>1, <3>2
  <2> QED BY <2>1 DEF StopIsOnItsWay
<1> QED BY <1>6, <1>7

\* A stop that says it stopped a process, or that has looked at the port, leaves none of
\* the daemons that served when it began on the port, though the pidfile be lost, stale, or
\* replaced meanwhile, but for the first process of a container: a daemon that is not named
\* by the pidfile the stop read is found on the port (stop_daemon).
THEOREM StopsLeaveNothing == Spec => StopLeavesNothing
<1>1. ASSUME TypeOK, Order, StopIsOnItsWay, [Next]_vars
      PROVE  [\A t \in Stops : stop'[t] = "done" => before[t] \cap Listening' \subseteq immune]_vars
  <2>1. CASE Next
    <3> SUFFICES ASSUME NEW t \in Stops, stop'[t] = "done", NEW d \in before[t], d \in Listening'
                 PROVE  d \in immune
      OBVIOUS
    <3>1. /\ d \in Daemons /\ daemon[d] \in {"serving", "draining", "dead"}
          /\ daemon'[d] = "serving" => d \in immune
      BY <1>1, NextStopIsOnItsWay DEF ServersGone, StopIsOnItsWay, OnItsWay, TypeOK
    <3> QED BY <1>1, <2>1, <3>1, ServedDoNotReturn DEF Listening
  <2> QED BY <1>1, <2>1
<1>2. TypeOK /\ Order /\ StopIsOnItsWay /\ [Next]_vars => StopIsOnItsWay'
  BY NextStopIsOnItsWay
<1> QED BY <1>1, <1>2, InitStopIsOnItsWay, OrderIsKept, PTL DEF Spec, StopLeavesNothing
=============================================================================
