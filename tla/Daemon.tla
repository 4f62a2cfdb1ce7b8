------------------------------- MODULE Daemon -------------------------------
(***************************************************************************)
(* The daemon, its pidfile and its port, and the commands start and stop   *)
(* that run beside it (daemon.rs of copenai-server and of copenai-core,    *)
(* main.rs). Nothing locks the pidfile: commands and daemons read, write   *)
(* and remove it each in steps of their own.                               *)
(*                                                                         *)
(* A process is named by what started it, its pid stands for that name,    *)
(* and no pid is used twice. A daemon of a start command that is still     *)
(* running is not waited for when it ends: the zombie still takes signal 0 *)
(* (is_process_alive).                                                     *)
(*                                                                         *)
(* A daemon of Foreground may be the first process of a container, as it   *)
(* is in the image of the repository (Dockerfile): the commands are then   *)
(* run beside it, signals without a handler do nothing to it, and it       *)
(* inherits the zombies and never waits for them. It ends with the         *)
(* container, which ends everything: that end is not modelled, and its     *)
(* pidfile may be there from the container before.                         *)
(***************************************************************************)
EXTENDS FiniteSets, Naturals

CONSTANTS Starts,      \* runs of `copenai start`, and the daemons they spawn
          Foreground,  \* runs of `copenai --daemon` by hand or by a container
          Stops,       \* runs of `copenai stop`
          None, Torn,  \* contents of the pidfile: no file, and an empty one
          MaxRuns      \* bound: how many of all those runs there are

Daemons == Starts \cup Foreground
Runs == Daemons \cup Stops

ASSUME NamesAreApart ==
  /\ Starts \cap Foreground = {}
  /\ Stops \cap Daemons = {}
  /\ None # Torn /\ {None, Torn} \cap Daemons = {}

VARIABLES
  daemon,    \* where each daemon is in run_daemon
  pidfile,   \* None, Torn while written, or a pid
  start,     \* where each start command is
  asks,      \* the daemon a start asks for its health
  seen,      \* the pid a start read and has yet to test
  stop,      \* where each stop command is
  target,    \* the process a stop works on, or says it stopped
  todo,      \* what lsof listed and a stop has yet to signal
  before,    \* history: what served when a stop that is under way read the pidfile
  raced,     \* history: the pidfile was about to be removed when last written
  misnamed,  \* history: starts that reported another daemon than the one serving
  immune     \* the first process of the container, if there is one

startVars == <<start, asks, seen, misnamed>>
stopVars  == <<stop, target, todo, before>>
vars == <<daemon, pidfile, startVars, stopVars, raced, immune>>

Listening == {d \in Daemons : daemon[d] \in {"bound", "writing", "serving"}}
Serving   == {d \in Daemons : daemon[d] = "serving"}
Draining  == {d \in Daemons : daemon[d] = "draining"}
StartRuns(s) == start[s] \in {"waiting", "asking", "healthy", "reporting", "unhealthy",
                              "relooking", "removing"}

\* is_process_alive: a zombie counts.
IsProcessAlive(d) ==
  \/ daemon[d] \in {"starting", "bound", "writing", "serving", "draining"}
  \/ daemon[d] = "dead" /\ d \in Starts /\ (StartRuns(d) \/ immune # {})

Init ==
  /\ immune \in {{}} \cup {{d} : d \in Foreground}
  /\ daemon = [d \in Daemons |-> IF d \in immune THEN "starting" ELSE "none"]
  /\ pidfile \in {None} \cup immune
  /\ start = [s \in Starts |-> "new"]
  /\ asks = [s \in Starts |-> None]
  /\ seen = [s \in Starts |-> None]
  /\ stop = [t \in Stops |-> "new"]
  /\ target = [t \in Stops |-> None]
  /\ todo = [t \in Stops |-> {}]
  /\ before = [t \in Stops |-> {}]
  /\ raced = FALSE
  /\ misnamed = {}

MoreRuns ==
  Cardinality({r \in Runs : \/ r \in Starts /\ start[r] # "new"
                            \/ r \in Foreground /\ daemon[r] # "none"
                            \/ r \in Stops /\ stop[r] # "new"}) < MaxRuns

(***************************************************************************)
(* run_daemon.                                                             *)
(***************************************************************************)
DaemonGoes(d, from, to) == daemon[d] = from /\ daemon' = [daemon EXCEPT ![d] = to]

RunInForeground(d) ==
  /\ MoreRuns /\ d \in Foreground /\ DaemonGoes(d, "none", "starting")
  /\ UNCHANGED <<pidfile, raced, immune>> /\ UNCHANGED startVars /\ UNCHANGED stopVars

\* The models and the resume mode are read before the port is bound.
Bind(d) ==
  /\ DaemonGoes(d, "starting", IF Listening = {} THEN "bound" ELSE "dead")
  /\ d \in immune => Listening = {}
  /\ UNCHANGED <<pidfile, raced, immune>> /\ UNCHANGED startVars /\ UNCHANGED stopVars

\* Commands that have read the pidfile and may remove it, and daemons that remove it when
\* they end, whatever it then names.
Removers ==
  Draining \cup {s \in Starts : start[s] \in {"looking", "stale", "relooking", "removing"}}
           \cup {t \in Stops : stop[t] \in {"read", "alive", "signalled", "stale"}}

\* (mutant: the pidfile is written before the port is bound)
CreatePidFileEarly(d) ==
  /\ daemon[d] \in {"starting", "bound"}
  /\ daemon' = [daemon EXCEPT ![d] = IF Listening \ {d} = {} THEN "writing" ELSE "dead"]
  /\ pidfile' = IF daemon'[d] = "dead" THEN d ELSE Torn
  /\ raced' = (Removers # {})
  /\ UNCHANGED immune /\ UNCHANGED startVars /\ UNCHANGED stopVars

\* write_pid: fs::write empties the file before it writes to it.
CreatePidFile(d) ==
  /\ DaemonGoes(d, "bound", "writing")
  /\ pidfile' = Torn
  /\ raced' = (Removers # {})
  /\ UNCHANGED immune /\ UNCHANGED startVars /\ UNCHANGED stopVars

\* A file that was removed meanwhile is written to no avail.
WritePid(d) ==
  /\ DaemonGoes(d, "writing", "serving")
  /\ pidfile' = IF pidfile = Torn THEN d ELSE pidfile
  /\ UNCHANGED <<raced, immune>> /\ UNCHANGED startVars /\ UNCHANGED stopVars

\* SIGINT while it serves: the listener closes, and open requests are waited for.
Interrupt(d) ==
  /\ DaemonGoes(d, "serving", "draining") /\ d \notin immune
  /\ UNCHANGED <<pidfile, raced, immune>> /\ UNCHANGED startVars /\ UNCHANGED stopVars

\* shutdown_all, remove_pid and the end of the process.
EndDaemon(d) ==
  /\ DaemonGoes(d, "draining", "dead") /\ pidfile' = None
  /\ UNCHANGED <<raced, immune>> /\ UNCHANGED startVars /\ UNCHANGED stopVars

\* A crash, or a signal no handler takes: the pidfile stays.
Crash(d) ==
  /\ daemon[d] \in {"starting", "bound", "writing", "serving", "draining"}
  /\ d \notin immune
  /\ daemon' = [daemon EXCEPT ![d] = "dead"]
  /\ UNCHANGED <<pidfile, raced, immune>> /\ UNCHANGED startVars /\ UNCHANGED stopVars

(***************************************************************************)
(* start_server: spawn_daemon and ensure_daemon_started.                   *)
(***************************************************************************)
StartGoes(s, from, to) == start[s] = from /\ start' = [start EXCEPT ![s] = to]

Spawned(s) == [daemon EXCEPT ![s] = "starting"]

\* read_pid, which fails on a file that is empty still: spawn_daemon, ...
LookUp(s) ==
  /\ MoreRuns /\ StartGoes(s, "new", CASE pidfile = Torn -> "failed"
                                         [] pidfile = None -> "waiting"
                                         [] OTHER          -> "looking")
  /\ seen' = [seen EXCEPT ![s] = IF pidfile = Torn THEN None ELSE pidfile]
  /\ daemon' = IF pidfile = None THEN Spawned(s) ELSE daemon
  /\ UNCHANGED <<pidfile, raced, immune, asks, misnamed>> /\ UNCHANGED stopVars

\* (mutant: a pidfile is removed whatever it names)
LookUnconditionally(s) ==
  /\ StartGoes(s, "looking", "stale")
  /\ seen' = [seen EXCEPT ![s] = None]
  /\ UNCHANGED <<daemon, pidfile, raced, immune, asks, misnamed>> /\ UNCHANGED stopVars

\* ... which then tests whether the process it read of is there.
Look(s) ==
  /\ StartGoes(s, "looking", IF IsProcessAlive(seen[s]) THEN "failed" ELSE "stale")
  /\ seen' = [seen EXCEPT ![s] = None]
  /\ UNCHANGED <<daemon, pidfile, raced, immune, asks, misnamed>> /\ UNCHANGED stopVars

RemoveStale(s) ==
  /\ StartGoes(s, "stale", "waiting")
  /\ pidfile' = None /\ daemon' = Spawned(s)
  /\ UNCHANGED <<raced, immune, asks, seen, misnamed>> /\ UNCHANGED stopVars

\* wait_for_health: a daemon that has bound its port takes the connection, ...
AskHealth(s) ==
  /\ start[s] = "waiting"
  /\ IF Listening = {} THEN /\ start' = [start EXCEPT ![s] = "unhealthy"] /\ UNCHANGED asks
     ELSE \E d \in Listening : /\ start' = [start EXCEPT ![s] = "asking"]
                               /\ asks' = [asks EXCEPT ![s] = d]
  /\ UNCHANGED <<daemon, pidfile, raced, immune, seen, misnamed>> /\ UNCHANGED stopVars

\* ... answers once it serves, also while it drains, or is gone.
HealthAnswered(s) ==
  /\ StartGoes(s, "asking", IF daemon[asks[s]] = "dead" THEN "unhealthy" ELSE "healthy")
  /\ daemon[asks[s]] \in {"serving", "draining", "dead"}
  /\ asks' = [asks EXCEPT ![s] = IF daemon[@] = "dead" THEN None ELSE @]
  /\ UNCHANGED <<daemon, pidfile, raced, immune, seen, misnamed>> /\ UNCHANGED stopVars

\* The pid reported is the one in the pidfile, which need not be the one spawned, ...
ReadReported(s) ==
  /\ StartGoes(s, "healthy", IF pidfile \in Daemons THEN "reporting" ELSE "failed")
  /\ seen' = [seen EXCEPT ![s] = IF pidfile \in Daemons THEN pidfile ELSE None]
  /\ asks' = [asks EXCEPT ![s] = IF pidfile \in Daemons THEN @ ELSE None]
  /\ UNCHANGED <<daemon, pidfile, raced, immune, misnamed>> /\ UNCHANGED stopVars

\* ... if its process is there.
Report(s) ==
  /\ StartGoes(s, "reporting", IF IsProcessAlive(seen[s]) THEN "ok" ELSE "failed")
  /\ misnamed' = IF IsProcessAlive(seen[s]) /\ asks[s] \in Serving /\ asks[s] # seen[s]
                   THEN misnamed \cup {s} ELSE misnamed
  /\ asks' = [asks EXCEPT ![s] = None]
  /\ seen' = [seen EXCEPT ![s] = None]
  /\ UNCHANGED <<daemon, pidfile, raced, immune>> /\ UNCHANGED stopVars

ReadAgain(s) ==
  /\ StartGoes(s, "unhealthy", CASE pidfile = Torn -> "failed"
                                 [] pidfile = None -> "waiting"
                                 [] OTHER          -> "relooking")
  /\ seen' = [seen EXCEPT ![s] = IF pidfile = Torn THEN None ELSE pidfile]
  /\ UNCHANGED <<daemon, pidfile, raced, immune, asks, misnamed>> /\ UNCHANGED stopVars

LookAgain(s) ==
  /\ StartGoes(s, "relooking", IF IsProcessAlive(seen[s]) THEN "waiting" ELSE "removing")
  /\ seen' = [seen EXCEPT ![s] = None]
  /\ UNCHANGED <<daemon, pidfile, raced, immune, asks, misnamed>> /\ UNCHANGED stopVars

\* "daemon exited during startup"
GiveUp(s) ==
  /\ StartGoes(s, "removing", "failed") /\ pidfile' = None
  /\ UNCHANGED <<daemon, raced, immune, asks, seen, misnamed>> /\ UNCHANGED stopVars

\* (mutant: start waits for as long as it takes)
TimeoutNever(s) == FALSE /\ UNCHANGED vars

\* 15 seconds, tested between two looks
Timeout(s) ==
  /\ StartGoes(s, "waiting", "failed")
  /\ UNCHANGED <<daemon, pidfile, raced, immune, asks, seen, misnamed>> /\ UNCHANGED stopVars

(***************************************************************************)
(* stop_daemon.                                                            *)
(***************************************************************************)
StopGoes(t, from, to) == stop[t] = from /\ stop' = [stop EXCEPT ![t] = to]

\* It is not under way any more.
StopEnds(t, ends) == before' = [before EXCEPT ![t] = IF ends THEN {} ELSE @]

\* read_pid, ...
ReadPid(t) ==
  /\ MoreRuns /\ StopGoes(t, "new", CASE pidfile = Torn -> "failed"
                                        [] pidfile = None -> "list"
                                        [] OTHER          -> "read")
  /\ target' = [target EXCEPT ![t] = IF pidfile = Torn THEN None ELSE pidfile]
  /\ before' = [before EXCEPT ![t] = IF pidfile = Torn THEN {} ELSE Serving]
  /\ UNCHANGED <<daemon, pidfile, raced, immune, todo>> /\ UNCHANGED startVars

\* ... and is_process_alive.
TestPid(t) ==
  /\ StopGoes(t, "read", IF IsProcessAlive(target[t]) THEN "alive" ELSE "stale")
  /\ target' = [target EXCEPT ![t] = IF IsProcessAlive(@) THEN @ ELSE None]
  /\ UNCHANGED <<daemon, pidfile, raced, immune, todo, before>> /\ UNCHANGED startVars

\* SIGTERM has no handler: it ends a process as a crash does, but does nothing to the
\* first of a container.
Terminate(p) ==
  daemon' = [d \in Daemons |->
               IF d = p /\ daemon[d] # "none" /\ d \notin immune THEN "dead" ELSE daemon[d]]

\* stop_process looks once more before it signals.
Signal(t) ==
  /\ StopGoes(t, "alive", IF IsProcessAlive(target[t]) THEN "signalled" ELSE "failed")
  /\ Terminate(target[t])
  /\ target' = [target EXCEPT ![t] = IF IsProcessAlive(@) THEN @ ELSE None]
  /\ StopEnds(t, ~IsProcessAlive(target[t]))
  /\ UNCHANGED <<pidfile, raced, immune, todo>> /\ UNCHANGED startVars

\* After 30 seconds at most, for a zombie and the first of a container stay; then SIGKILL,
\* to no effect, and it is said to be stopped whether it is or not.
RemoveSignalled(t) ==
  /\ StopGoes(t, "signalled", "done") /\ pidfile' = None
  /\ StopEnds(t, TRUE)
  /\ UNCHANGED <<daemon, raced, immune, target, todo>> /\ UNCHANGED startVars

RemoveDead(t) ==
  /\ StopGoes(t, "stale", "list") /\ pidfile' = None
  /\ UNCHANGED <<daemon, raced, immune, target, todo, before>> /\ UNCHANGED startVars

\* (mutant: nothing is looked for on the port)
OnPortNothing(pids) == pids = {}

\* `lsof -ti :port`: who listens, and who has a connection (clients, too, which are
\* not modelled), ...
OnPort(pids) == Listening \subseteq pids /\ pids \subseteq Listening \cup Draining

ListPort(t) ==
  /\ stop[t] = "list"
  /\ \E pids \in SUBSET Daemons :
       /\ OnPort(pids)
       /\ todo' = [todo EXCEPT ![t] = pids]
       /\ stop' = [stop EXCEPT ![t] = IF pids = {} THEN "done" ELSE "killing"]
       /\ StopEnds(t, pids = {})
  /\ UNCHANGED <<daemon, pidfile, raced, immune, target>> /\ UNCHANGED startVars

\* ... or nothing at all, if it is not installed or fails, as in the image: "not running".
ListFails(t) ==
  /\ StopGoes(t, "list", "blind")
  /\ StopEnds(t, TRUE)
  /\ UNCHANGED <<daemon, pidfile, raced, immune, target, todo>> /\ UNCHANGED startVars

SignalListed(t) ==
  /\ stop[t] = "killing"
  /\ \E p \in todo[t] :
       /\ Terminate(p)
       /\ todo' = [todo EXCEPT ![t] = @ \ {p}]
       /\ stop' = [stop EXCEPT ![t] = IF todo[t] = {p} THEN "done" ELSE "killing"]
       /\ StopEnds(t, todo[t] = {p})
  /\ UNCHANGED <<pidfile, raced, immune, target>> /\ UNCHANGED startVars

(***************************************************************************)
(* The specification. Daemons may end or stay; commands run on, a daemon   *)
(* that has its port comes to serve, and it answers for its health (which  *)
(* runs `cursor-agent status` without a timeout: this is an assumption).   *)
(* The 15 seconds pass however often a start looks: strong fairness.       *)
(***************************************************************************)
StartStep(s) == \/ LookUp(s) \/ Look(s) \/ RemoveStale(s) \/ AskHealth(s)
                \/ HealthAnswered(s) \/ ReadReported(s) \/ Report(s)
                \/ ReadAgain(s) \/ LookAgain(s) \/ GiveUp(s)
StopStep(t) == \/ ReadPid(t) \/ TestPid(t) \/ Signal(t) \/ RemoveSignalled(t)
               \/ RemoveDead(t) \/ ListPort(t) \/ ListFails(t) \/ SignalListed(t)
DaemonStep(d) == \/ RunInForeground(d) \/ Bind(d) \/ CreatePidFile(d) \/ WritePid(d)
                 \/ Interrupt(d) \/ EndDaemon(d) \/ Crash(d)

Next ==
  \/ \E d \in Daemons : DaemonStep(d)
  \/ \E s \in Starts : StartStep(s) \/ Timeout(s)
  \/ \E t \in Stops : StopStep(t)

Fairness ==
  /\ \A s \in Starts : SF_vars(Timeout(s)) /\ WF_vars(StartStep(s))
  /\ \A t \in Stops : WF_vars(StopStep(t))
  /\ \A d \in Daemons : WF_vars(CreatePidFile(d)) /\ WF_vars(WritePid(d))

Spec == Init /\ [][Next]_vars /\ Fairness

-----------------------------------------------------------------------------
StartStates == {"new", "looking", "stale", "waiting", "asking", "healthy", "reporting",
                "unhealthy", "relooking", "removing", "ok", "failed"}
StopStates == {"new", "read", "alive", "signalled", "stale", "list", "killing",
               "done", "blind", "failed"}

\* Every variable has its type; a start asks a daemon exactly while it needs its answer,
\* commands have a pid exactly while they test it, and a stop has processes to signal
\* exactly while it signals them.
TypeOK ==
  /\ daemon \in [Daemons -> {"none", "starting", "bound", "writing", "serving",
                             "draining", "dead"}]
  /\ pidfile \in Daemons \cup {None, Torn}
  /\ start \in [Starts -> StartStates]
  /\ asks \in [Starts -> Daemons \cup {None}]
  /\ seen \in [Starts -> Daemons \cup {None}]
  /\ stop \in [Stops -> StopStates]
  /\ target \in [Stops -> Daemons \cup {None}]
  /\ todo \in [Stops -> SUBSET Daemons]
  /\ before \in [Stops -> SUBSET Daemons]
  /\ raced \in BOOLEAN
  /\ misnamed \subseteq Starts
  /\ immune \subseteq Foreground
  /\ \A s \in Starts : /\ (asks[s] # None) = (start[s] \in {"asking", "healthy", "reporting"})
                       /\ (seen[s] # None) = (start[s] \in {"looking", "reporting", "relooking"})
  /\ \A t \in Stops : /\ stop[t] \in {"read", "alive", "signalled"} => target[t] # None
                      /\ (todo[t] # {}) = (stop[t] = "killing")

\* A stop that says it stopped a process, or that has looked at the port, leaves none of
\* the daemons that served when it began on the port, though the pidfile be lost, stale, or
\* replaced meanwhile; but for the first process of a container, which it says it stopped
\* and cannot (stop_process), and but for a stop that cannot look at the port, which says
\* "not running" of whatever the pidfile has lost (find_pids_on_port).
StopLeavesNothing ==
  [][\A t \in Stops : stop'[t] = "done" => before[t] \cap Listening' \subseteq immune]_vars

\* A daemon that serves and is not named by the pidfile lost it to a command that had read
\* it, or to a daemon still draining, that was to remove it when the daemon wrote it, or it
\* is the first of a container and a stop said that it stopped it: status says "stopped"
\* of it, and start spawns another (read_pid, is_process_alive, remove_pid).
SaidToBeStopped(d) == \E t \in Stops : stop[t] = "done" /\ target[t] = d
LostPidfileIsExplained ==
  \A d \in Serving : pidfile # d => raced \/ (d \in immune /\ SaidToBeStopped(d))

\* The pid that start reports is that of the daemon which answered it, as long as that
\* daemon serves, although it is read from a file anyone may write, and tested later
\* (ensure_daemon_started).
StartNamesTheServer == misnamed = {}

\* Every start comes to an end, with a pid or an error, and so does every stop, although
\* its target may be a zombie for as long as its start runs: of the commands given, in
\* the end none is under way (the deadlines of ensure_daemon_started and stop_process).
CommandsEnd ==
  <>[](/\ \A s \in Starts : start[s] \in {"new", "ok", "failed"}
       /\ \A t \in Stops : stop[t] \in {"new", "done", "blind", "failed"})
=============================================================================
