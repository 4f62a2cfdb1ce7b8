----------------------------- MODULE PromptTurn -----------------------------
(***************************************************************************)
(* One worker's prompt turns (worker.rs, execute_prompt): the sink that    *)
(* the notification handler forwards agent chunks to, the wait for the     *)
(* agent's response, the drain of late chunks, and the close of the sink.  *)
(*                                                                         *)
(* Turn 0 is the replay prompt of a degraded resume, which setup_session   *)
(* sends without installing a sink.  A chunk is the pair of the turn the   *)
(* agent emitted it for and its number in that turn.  Notifications keep   *)
(* their order, but the response may overtake them: that is what the       *)
(* comment at worker.rs:470 says of ACP and what the drain is for.         *)
(*                                                                         *)
(* The stream of a turn is the bounded channel its caller reads.  A send   *)
(* on it may wait for the caller, who may also have gone: what is taken    *)
(* off event_rx then goes nowhere.  The worker may be lost at any await.   *)
(***************************************************************************)
EXTENDS Integers, Sequences, SequencesExt

CONSTANTS
  Turns,      \* number of prompts the worker executes
  MaxChunks   \* bound on the chunks the agent emits for one prompt

ASSUME PromptTurnAssumption == Turns \in Nat /\ MaxChunks \in Nat

VARIABLES
  timely,     \* whether late chunks arrive before the drain gives up; never changes
  writable,   \* whether the transcript directory takes writes; never changes
  phase,      \* where the worker is
  turn,       \* the prompt under way, or the last one
  sink,       \* the turn whose event_tx the handler holds, or NoSink
  chan,       \* event_rx of the turn under way
  wire,       \* notifications sent by the agent and not handled yet
  answered,   \* the agent has responded to the turn under way
  sent,       \* chunks the agent has emitted for each turn
  collected,  \* the chunks taken for each turn's stream
  cut,        \* history: turns whose drain a slow caller cut short
  outcome,    \* the last event of each turn's stream
  transcript  \* turns appended to the transcript directory

vars  == <<timely, writable, phase, turn, sink, chan, wire, answered, sent, collected, cut,
           outcome, transcript>>
given == <<timely, writable>>

Turn   == 0..Turns
NoSink == -1

-----------------------------------------------------------------------------
\* A worker whose session was degraded replays; any other waits for its first prompt.
Init ==
  /\ timely \in BOOLEAN
  /\ writable \in BOOLEAN
  /\ phase \in {"ready", "prompting"}
  /\ turn = 0
  /\ sink = NoSink
  /\ chan = <<>>
  /\ wire = <<>>
  /\ answered = FALSE
  /\ sent = [t \in Turn |-> 0]
  /\ collected = [t \in Turn |-> <<>>]
  /\ cut = {}
  /\ outcome = [t \in Turn |-> "none"]
  /\ transcript = <<>>

(***************************************************************************)
(* The agent and the connection                                            *)
(***************************************************************************)
\* The agent emits a chunk for the prompt it works on.
Emit ==
  /\ phase = "prompting"
  /\ ~answered
  /\ sent[turn] < MaxChunks
  /\ sent' = [sent EXCEPT ![turn] = @ + 1]
  /\ wire' = Append(wire, <<turn, sent'[turn]>>)
  /\ UNCHANGED <<given, phase, turn, sink, chan, answered, collected, cut, outcome, transcript>>

\* The agent has responded; the worker has not been woken up yet.
Respond ==
  /\ phase = "prompting"
  /\ ~answered
  /\ answered' = TRUE
  /\ UNCHANGED <<given, phase, turn, sink, chan, wire, sent, collected, cut, outcome, transcript>>

\* event_rx is fed from the installation of the sink to its removal, and dropped by
\* an execute_prompt that returns before that.
ReceiverAlive == phase \in {"prompting", "draining", "closing"}

\* The notification handler: forwards to the sink that is set now, if any.
Notify ==
  /\ wire # <<>>
  /\ wire' = Tail(wire)
  /\ chan' = IF sink # NoSink /\ ReceiverAlive THEN Append(chan, Head(wire)) ELSE chan
  /\ UNCHANGED <<given, phase, turn, sink, answered, sent, collected, cut, outcome, transcript>>

(***************************************************************************)
(* The worker                                                              *)
(***************************************************************************)
\* setup_session ignores what the replay prompt returned and drains nothing.
ReplayReturns ==
  /\ phase = "prompting"
  /\ turn = 0
  /\ answered
  /\ phase' = "ready"
  /\ answered' = FALSE
  /\ UNCHANGED <<given, turn, sink, chan, wire, sent, collected, cut, outcome, transcript>>

\* The stream of turn t ends with Done or with an Error event.
EndsSilently(t, how) ==  \* mutant: no Error event is sent
  outcome' = IF how = "error" THEN outcome ELSE [outcome EXCEPT ![t] = how]
Ends(t, how) == outcome' = [outcome EXCEPT ![t] = how]

\* A prompt is taken.  Sampling parameters and the agent's capabilities are
\* checked before the sink is installed, and a new channel before the request.
StartTurn ==
  /\ phase = "ready"
  /\ turn < Turns
  /\ turn' = turn + 1
  /\ \/ /\ Ends(turn', "error")
        /\ UNCHANGED <<phase, sink, chan>>
     \/ /\ phase' = "prompting"
        /\ sink' = turn'
        /\ chan' = <<>>
        /\ UNCHANGED outcome
  /\ UNCHANGED <<given, wire, answered, sent, collected, cut, transcript>>

\* The response is an error: execute_prompt returns at once, its receiver is
\* dropped, the sink stays installed and nothing is drained.
PromptErr ==
  /\ phase = "prompting"
  /\ turn # 0
  /\ answered
  /\ phase' = "ready"
  /\ answered' = FALSE
  /\ chan' = <<>>
  /\ Ends(turn, "error")
  /\ UNCHANGED <<given, turn, sink, wire, sent, collected, cut, transcript>>

\* The response is the end of the turn: late chunks are drained.
PromptOk ==
  /\ phase = "prompting"
  /\ turn # 0
  /\ answered
  /\ phase' = "draining"
  /\ answered' = FALSE
  /\ UNCHANGED <<given, turn, sink, chan, wire, sent, collected, cut, outcome, transcript>>

\* The event the drain loop takes from the channel, and what it leaves there.
NextEventLast(q) == q[Len(q)]  \* mutant: last in, first out
NextEvent(q) == Head(q)

RestOfEvents(q) == Tail(q)

\* Where the loop goes after a send, which may have waited for the caller.
AfterSend(slow) == IF slow THEN "closing" ELSE "draining"

\* The 250 ms to the next event begin before the send of this one: a send that waits
\* longer, for a caller that reads slowly, ends the loop whatever the channel holds.
DrainEvent ==
  /\ phase = "draining"
  /\ chan # <<>>
  /\ collected' = [collected EXCEPT ![turn] = Append(@, NextEvent(chan))]
  /\ chan' = RestOfEvents(chan)
  /\ \E slow \in BOOLEAN :
       /\ phase' = AfterSend(slow)
       /\ cut' = IF slow THEN cut \cup {turn} ELSE cut
  /\ UNCHANGED <<given, turn, sink, wire, answered, sent, outcome, transcript>>

\* 500 ms after the response, then 250 ms after each event, without an event.
QuietAtOnce == TRUE  \* mutant: the turn ends with the response
Quiet == chan = <<>> /\ (timely => wire = <<>>)

DrainIdle ==
  /\ phase = "draining"
  /\ Quiet
  /\ phase' = "closing"
  /\ UNCHANGED <<given, turn, sink, chan, wire, answered, sent, collected, cut, outcome, transcript>>

\* The sink after the turn.
ClosedSink == NoSink

\* The sink is cleared.  What reached the channel since the loop ended is lost with it.
ClearSink ==
  /\ phase = "closing"
  /\ phase' = "touching"
  /\ sink' = ClosedSink
  /\ chan' = <<>>
  /\ UNCHANGED <<given, turn, wire, answered, sent, collected, cut, outcome, transcript>>

\* What the transcript has of the turn before touch has succeeded.
TranscriptBeforeTouch(q, t) == Append(q, t)  \* mutant: written first
TranscriptOnError(q, t) == q

\* touch; its failure ends the turn with an Error event.
Touch ==
  /\ phase = "touching"
  /\ \/ /\ phase' = "appending"
        /\ UNCHANGED <<outcome, transcript>>
     \/ /\ phase' = "ready"
        /\ Ends(turn, "error")
        /\ transcript' = TranscriptOnError(transcript, turn)
  /\ UNCHANGED <<given, turn, sink, chan, wire, answered, sent, collected, cut>>

\* append_transcript, which ignores its errors.
AppendTranscript ==
  /\ phase = "appending"
  /\ phase' = "finishing"
  /\ \/ transcript' = Append(transcript, turn)
     \/ ~writable /\ UNCHANGED transcript
  /\ UNCHANGED <<given, turn, sink, chan, wire, answered, sent, collected, cut, outcome>>

\* Done is sent; if the caller is gone, so is the Error event that says so.
SendDone ==
  /\ phase = "finishing"
  /\ phase' = "ready"
  /\ Ends(turn, "done") \/ Ends(turn, "dropped")
  /\ UNCHANGED <<given, turn, sink, chan, wire, answered, sent, collected, cut, transcript>>

\* The agent's process or its connection is lost: the worker's future is dropped where
\* it waits, and the streams of its callers just end.
Lost ==
  /\ phase # "lost"
  /\ phase' = "lost"
  /\ sink' = NoSink
  /\ chan' = <<>>
  /\ wire' = <<>>
  /\ answered' = FALSE
  /\ UNCHANGED <<given, turn, sent, collected, cut, outcome, transcript>>

Finished ==
  /\ phase = "lost" \/ (phase = "ready" /\ turn = Turns /\ wire = <<>>)
  /\ UNCHANGED vars

Worker == \/ ReplayReturns \/ StartTurn \/ PromptErr \/ PromptOk
          \/ DrainEvent \/ DrainIdle \/ ClearSink \/ Touch \/ AppendTranscript \/ SendDone
Next   == Emit \/ Respond \/ Notify \/ Worker \/ Lost \/ Finished

\* The agent answers, notifications are handled, the worker is scheduled and its
\* caller reads or goes away; the agent need not emit anything, nor be lost.
Spec == Init /\ [][Next]_vars /\ WF_vars(Respond) /\ WF_vars(Notify) /\ WF_vars(Worker)

-----------------------------------------------------------------------------
Chunk == Turn \X (1..MaxChunks)

\* The state is of its types.
TypeOK ==
  /\ timely \in BOOLEAN
  /\ writable \in BOOLEAN
  /\ phase \in {"ready", "prompting", "draining", "closing", "touching", "appending",
               "finishing", "lost"}
  /\ turn \in Turn
  /\ sink \in Turn \cup {NoSink}
  /\ chan \in Seq(Chunk)
  /\ wire \in Seq(Chunk)
  /\ answered \in BOOLEAN
  /\ sent \in [Turn -> 0..MaxChunks]
  /\ collected \in [Turn -> Seq(Chunk)]
  /\ cut \in SUBSET Turn
  /\ outcome \in [Turn -> {"none", "done", "error", "dropped"}]
  /\ transcript \in Seq(Turn)

\* While a turn is under way its own channel is the sink; between turns a sink is
\* installed only if the last turn that installed one failed.
SinkBelongsToTurn ==
  /\ TypeOK
  /\ ReceiverAlive => sink = IF turn = 0 THEN NoSink ELSE turn
  /\ ~ReceiverAlive /\ sink # NoSink => outcome[sink] = "error"

\* worker.rs:470-471: the sink is kept open and drained until idle so that chunks are
\* not dropped.  A turn that ends with Done has all its chunks, if they arrive before
\* the drain gives up and no slow caller cut it short.
TimelyChunksAreNotDropped ==
  timely => \A t \in Turn \ cut : outcome[t] = "done" =>
    \A k \in 1..sent[t] : <<t, k>> \in ToSet(collected[t])

\* What a caller gets of one turn is in the order the agent emitted it, each
\* chunk at most once and in at most one turn's stream.
ChunksKeepOrder ==
  \A s, t \in 1..Turns : \A i \in DOMAIN collected[s], j \in DOMAIN collected[t] :
    LET x == collected[s][i]
        y == collected[t][j]
    IN  (s < t \/ (s = t /\ i < j)) /\ x[1] = y[1] => x[2] < y[2]

\* If late chunks arrive before the drain gives up, a turn's stream has chunks of
\* another turn only when that one was not drained to its end: the replay, a failed
\* turn, or one that a slow caller cut short.
LeaksOnlyFromUndrainedTurns ==
  timely => \A t \in 1..Turns : \A i \in DOMAIN collected[t] :
    LET from == collected[t][i][1]
    IN  from # t => from = 0 \/ outcome[from] = "error" \/ from \in cut

\* The transcript has a turn at most once.  It has every turn whose caller is told Done,
\* if it can be written.  It has no turn that failed: the caller of each one in it has
\* been told Done, has gone away, will be told next, or lost the worker.
TranscriptIsWhatWasAnswered ==
  /\ IsInjective(transcript)
  /\ \A t \in Turn :
       /\ outcome[t] = "done" /\ writable => t \in ToSet(transcript)
       /\ t \in ToSet(transcript) =>
            outcome[t] \in {"done", "dropped"} \/ (t = turn /\ phase \in {"finishing", "lost"})

\* Every prompt the worker takes ends with Done or Error, unless its caller or the
\* worker is gone.
TurnsEnd == \A t \in 1..Turns : (turn = t) ~> (outcome[t] # "none" \/ phase = "lost")
=============================================================================
