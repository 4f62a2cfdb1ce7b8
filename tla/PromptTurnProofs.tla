-------------------------- MODULE PromptTurnProofs --------------------------
(***************************************************************************)
(* Proofs about PromptTurn, for any number of turns and of chunks: what    *)
(* the caller of each turn gets of the agent's chunks, and what the        *)
(* transcript gains.                                                       *)
(***************************************************************************)
EXTENDS PromptTurn, TLAPS

\* The drain is over; a turn is under way.
Closed == {"closing", "touching", "appending", "finishing"}
InTurn == Closed \cup {"prompting", "draining"}

\* The turn that is under way has no outcome yet, and no later turn has begun.
Ahead ==
  /\ \A t \in Turn : t > turn \/ (t = turn /\ phase \in InTurn) => outcome[t] = "none"
  /\ outcome[0] = "none"
  /\ \A t \in Turn : t > turn => collected[t] = <<>> /\ sent[t] = 0
  /\ collected[0] = <<>>
  /\ phase \in Closed \cup {"draining"} => turn # 0
  /\ phase # "prompting" => ~answered
  /\ ~ReceiverAlive \/ turn = 0 => chan = <<>>

Chunks == SinkBelongsToTurn /\ Ahead

\* Chunks that come later from the same turn have a greater number.
Before(p, q) ==
  \A i \in DOMAIN p, j \in DOMAIN q : p[i][1] = q[j][1] => p[i][2] < q[j][2]
Rising(q) ==
  \A i, j \in DOMAIN q : i < j /\ q[i][1] = q[j][1] => q[i][2] < q[j][2]

\* No chunk has a number that its turn has not reached.
Emitted(q) == \A i \in DOMAIN q : q[i][2] <= sent[q[i][1]]

\* Chunks go from the wire to the channel and from there to the stream of the turn.
Order ==
  /\ \A t \in Turn : /\ Rising(collected[t]) /\ Emitted(collected[t])
                     /\ Before(collected[t], chan) /\ Before(collected[t], wire)
  /\ \A s, t \in Turn : s < t => Before(collected[s], collected[t])
  /\ Rising(chan) /\ Emitted(chan) /\ Before(chan, wire)
  /\ Rising(wire) /\ Emitted(wire)

\* A turn that was not drained to its end: the replay, one that failed, or one cut short.
Undrained(t) == t = 0 \/ outcome[t] = "error" \/ t \in cut

\* When late chunks are timely, what is on its way is of the turn under way, or
\* was left by one that was not drained to its end; and nothing of the turn is missing.
Drained ==
  timely =>
    /\ phase \in Closed /\ turn \notin cut => wire = <<>> /\ chan = <<>>
    /\ \A i \in DOMAIN wire :
         Undrained(wire[i][1]) \/ (wire[i][1] = turn /\ phase \in {"prompting", "draining"})
    /\ \A i \in DOMAIN chan : Undrained(chan[i][1]) \/ chan[i][1] = turn
    /\ turn # 0 /\ phase \in InTurn /\ turn \notin cut =>
         \A k \in 1..sent[turn] :
           <<turn, k>> \in ToSet(collected[turn]) \cup ToSet(chan) \cup ToSet(wire)

(***************************************************************************)
(* Sequences of chunks.                                                    *)
(***************************************************************************)
LEMMA Tails ==
  ASSUME NEW S, NEW q \in Seq(S), q # <<>>
  PROVE  /\ Tail(q) \in Seq(S) /\ Head(q) \in S /\ Head(q) = q[1] /\ 1 \in DOMAIN q
         /\ \A i \in DOMAIN Tail(q) :
              i \in Nat /\ i + 1 \in DOMAIN q /\ 1 < i + 1 /\ Tail(q)[i] = q[i + 1]
OBVIOUS

LEMMA Appends ==
  ASSUME NEW S, NEW q \in Seq(S), NEW x \in S
  PROVE  /\ Append(q, x) \in Seq(S)
         /\ \A i \in DOMAIN Append(q, x) :
              \/ i \in DOMAIN q /\ i < Len(q) + 1 /\ Append(q, x)[i] = q[i]
              \/ i = Len(q) + 1 /\ Append(q, x)[i] = x
OBVIOUS

LEMMA AppendRange ==
  ASSUME NEW S, NEW q \in Seq(S), NEW x \in S
  PROVE  ToSet(Append(q, x)) = ToSet(q) \cup {x}
<1>1. /\ \A i \in DOMAIN q : i \in DOMAIN Append(q, x) /\ Append(q, x)[i] = q[i]
      /\ Len(q) + 1 \in DOMAIN Append(q, x) /\ Append(q, x)[Len(q) + 1] = x
  OBVIOUS
<1> QED BY <1>1, Appends DEF ToSet

LEMMA HeadAndTail ==
  ASSUME NEW S, NEW q \in Seq(S), q # <<>>
  PROVE  ToSet(q) = {Head(q)} \cup ToSet(Tail(q))
<1>1. \A i \in DOMAIN q : i = 1 \/ (i - 1 \in DOMAIN Tail(q) /\ Tail(q)[i - 1] = q[i])
  OBVIOUS
<1>2. /\ Head(q) = q[1] /\ 1 \in DOMAIN q
      /\ \A i \in DOMAIN Tail(q) : i + 1 \in DOMAIN q /\ Tail(q)[i] = q[i + 1]
  BY Tails
<1> DEFINE t == Tail(q)
<1> HIDE DEF t
<1>3. /\ \A i \in DOMAIN q : i = 1 \/ (i - 1 \in DOMAIN t /\ t[i - 1] = q[i])
      /\ \A i \in DOMAIN t : i + 1 \in DOMAIN q /\ t[i] = q[i + 1]
  BY <1>1, <1>2 DEF t
<1>4. ToSet(q) = {q[1]} \cup ToSet(t)
  BY <1>2, <1>3 DEF ToSet
<1> QED BY <1>2, <1>4 DEF t

\* The first of q is moved to the end of p.
LEMMA Moves ==
  ASSUME NEW S, NEW p \in Seq(S), NEW q \in Seq(S), q # <<>>
  PROVE  ToSet(Append(p, Head(q))) \cup ToSet(Tail(q)) = ToSet(p) \cup ToSet(q)
BY AppendRange, HeadAndTail, Tails

LEMMA TailInOrder ==
  ASSUME NEW q \in Seq(Chunk), q # <<>>, Rising(q), Emitted(q)
  PROVE  /\ Rising(Tail(q)) /\ Emitted(Tail(q))
         /\ \A p \in Seq(Chunk) : Before(p, q) => Before(p, Tail(q))
<1>1. Rising(Tail(q))
  <2>1. \A i, j \in DOMAIN Tail(q) : i < j => i + 1 < j + 1
    BY Tails
  <2> QED BY <2>1, Tails DEF Rising
<1>2. Emitted(Tail(q))
  BY Tails DEF Emitted
<1>3. \A p \in Seq(Chunk) : Before(p, q) => Before(p, Tail(q))
  BY Tails DEF Before
<1> QED BY <1>1, <1>2, <1>3

LEMMA MoveInOrder ==
  ASSUME NEW p \in Seq(Chunk), NEW q \in Seq(Chunk), q # <<>>,
         Rising(p), Emitted(p), Rising(q), Emitted(q), Before(p, q)
  PROVE  /\ Rising(Append(p, Head(q))) /\ Emitted(Append(p, Head(q)))
         /\ Before(Append(p, Head(q)), Tail(q))
         /\ \A r \in Seq(Chunk) :
              Before(r, p) /\ Before(r, q) => Before(r, Append(p, Head(q)))
         /\ \A r \in Seq(Chunk) :
              Before(p, r) /\ Before(q, r) => Before(Append(p, Head(q)), r)
<1> DEFINE x == Head(q)
           a == Append(p, x)
<1>1. /\ x \in Chunk /\ 1 \in DOMAIN q /\ x = q[1]
      /\ \A i \in DOMAIN a :
           (i \in DOMAIN p /\ i < Len(p) + 1 /\ a[i] = p[i]) \/ (i = Len(p) + 1 /\ a[i] = x)
  BY Tails, Appends
<1>2. DOMAIN p = 1..Len(p) /\ Len(p) \in Nat
  OBVIOUS
<1> HIDE DEF x, a
<1>3. Rising(a)
  BY <1>1, <1>2 DEF Rising, Before
<1>4. Emitted(a)
  BY <1>1 DEF Emitted
<1>5. Before(a, Tail(q))
  <2>1. /\ \A j \in DOMAIN Tail(q) :
             1 < j + 1 /\ j + 1 \in DOMAIN q /\ Tail(q)[j] = q[j + 1]
    BY Tails
  <2>2. \A j \in DOMAIN Tail(q) : x[1] = Tail(q)[j][1] => x[2] < Tail(q)[j][2]
    BY <1>1, <2>1 DEF Rising
  <2>3. \A i \in DOMAIN p, j \in DOMAIN Tail(q) :
          p[i][1] = Tail(q)[j][1] => p[i][2] < Tail(q)[j][2]
    BY <2>1 DEF Before
  <2> QED BY <1>1, <2>2, <2>3 DEF Before
<1>6. \A r \in Seq(Chunk) : Before(r, p) /\ Before(r, q) => Before(r, a)
  BY <1>1 DEF Before
<1>7. \A r \in Seq(Chunk) : Before(p, r) /\ Before(q, r) => Before(a, r)
  BY <1>1 DEF Before
<1> QED BY <1>3, <1>4, <1>5, <1>6, <1>7 DEF a, x

(***************************************************************************)
(* Turns begin and end one after the other.                                *)
(***************************************************************************)
LEMMA TurnsAreNumbers == 0 \in Turn /\ NoSink \notin Turn /\ \A t \in Turn : t \in Nat
BY PromptTurnAssumption DEF Turn, NoSink

LEMMA TurnsFollow == \A t \in Turn : t < Turns => t + 1 \in Turn /\ t + 1 # 0
BY PromptTurnAssumption DEF Turn

LEMMA CountsGrow ==
  ASSUME NEW counts \in [Turn -> 0..MaxChunks], NEW t \in Turn, counts[t] < MaxChunks
  PROVE  LET next == [counts EXCEPT ![t] = @ + 1]
         IN  /\ next[t] = counts[t] + 1 /\ counts[t] + 1 \in 1..MaxChunks
             /\ next \in [Turn -> 0..MaxChunks]
             /\ \A u \in Turn : u # t => next[u] = counts[u]
BY PromptTurnAssumption

LEMMA InitChunks == Init => Chunks
BY PromptTurnAssumption
DEF Init, Chunks, SinkBelongsToTurn, TypeOK, Ahead, ReceiverAlive, Turn, NoSink, Chunk

LEMMA NextChunks == Chunks /\ [Next]_vars => Chunks'
<1> SUFFICES ASSUME Chunks, [Next]_vars PROVE Chunks'
  OBVIOUS
<1> USE PromptTurnAssumption, TurnsAreNumbers
         DEF Chunks, SinkBelongsToTurn, TypeOK, Ahead, ReceiverAlive, given, Closed, InTurn
<1>0. turn \in Nat
  OBVIOUS
<1>1. CASE Emit
  <2>1. /\ sent'[turn] = sent[turn] + 1 /\ sent[turn] + 1 \in 1..MaxChunks
        /\ sent' \in [Turn -> 0..MaxChunks]
        /\ \A t \in Turn : t # turn => sent'[t] = sent[t]
    BY <1>1, CountsGrow DEF Emit
  <2>2. <<turn, sent'[turn]>> \in Chunk
    BY <2>1 DEF Chunk
  <2>3. wire' \in Seq(Chunk)
    BY <1>1, <2>2, Appends DEF Emit
  <2>4. \A t \in Turn : t > turn => sent'[t] = sent[t]
    BY <1>0, <2>1
  <2> QED BY <1>1, <2>1, <2>3, <2>4 DEF Emit
<1>2. CASE Respond
  BY <1>2 DEF Respond
<1>3. CASE Notify
  <2>1. wire' \in Seq(Chunk) /\ chan' \in Seq(Chunk)
    BY <1>3, Tails, Appends DEF Notify
  <2>2. turn = 0 => chan' = chan
    BY <1>3 DEF Notify
  <2>3. ~ReceiverAlive => chan' = chan
    BY <1>3 DEF Notify
  <2> QED BY <1>3, <2>1, <2>2, <2>3 DEF Notify
<1>4. CASE ReplayReturns
  BY <1>4 DEF ReplayReturns
<1>5. CASE StartTurn
  <2>1. turn' = turn + 1 /\ turn' \in Turn /\ turn' # 0
    BY <1>5, TurnsFollow DEF StartTurn
  <2>2. CASE Ends(turn', "error") /\ UNCHANGED <<phase, sink, chan>>
    <3>1. /\ outcome' \in [Turn -> {"none", "done", "error", "dropped"}]
          /\ \A t \in Turn : t # turn' => outcome'[t] = outcome[t]
      BY <2>1, <2>2 DEF Ends
    <3>2. sink # turn'
      BY <1>5, <2>1 DEF StartTurn
    <3> QED BY <1>5, <2>1, <2>2, <3>1, <3>2 DEF StartTurn
  <2>3. CASE phase' = "prompting" /\ sink' = turn' /\ chan' = <<>> /\ UNCHANGED outcome
    BY <1>5, <2>1, <2>3 DEF StartTurn
  <2> QED BY <1>5, <2>2, <2>3 DEF StartTurn
<1>6. CASE PromptErr
  <2>1. /\ outcome' \in [Turn -> {"none", "done", "error", "dropped"}]
        /\ \A t \in Turn : t # turn => outcome'[t] = outcome[t]
        /\ outcome'[turn] = "error"
    BY <1>6 DEF PromptErr, Ends
  <2>2. sink = turn
    BY <1>6 DEF PromptErr
  <2>3. SinkBelongsToTurn'
    <3>1. phase' = "ready" /\ answered' = FALSE /\ chan' = <<>>
      BY <1>6 DEF PromptErr
    <3>2. UNCHANGED <<timely, writable, turn, sink, wire, sent, collected, cut, transcript>>
      BY <1>6 DEF PromptErr
    <3>3. TypeOK'
      <4>1. chan' \in Seq(Chunk)
        BY <3>1
      <4>2. phase' = "ready" /\ answered' \in BOOLEAN
        BY <3>1
      <4>3. timely' \in BOOLEAN /\ writable' \in BOOLEAN /\ cut' \in SUBSET Turn /\ turn' \in Turn /\ sink' \in Turn \cup {NoSink}
        BY <3>2
      <4>4. wire' \in Seq(Chunk) /\ transcript' \in Seq(Turn) /\ collected' \in [Turn -> Seq(Chunk)]
        BY <3>2
      <4>5. sent' \in [Turn -> 0..MaxChunks]
        BY <3>2
      <4> QED BY <4>1, <4>2, <4>3, <4>4, <4>5, <2>1
    <3> QED BY <2>1, <2>2, <3>1, <3>2, <3>3
  <2>4. Ahead'
    BY <1>0, <1>6, <2>1 DEF PromptErr
  <2> QED BY <2>3, <2>4
<1>7. CASE PromptOk
  BY <1>7 DEF PromptOk
<1>8. CASE DrainEvent
  <2>1. collected[turn] \in Seq(Chunk) /\ chan' \in Seq(Chunk)
    BY <1>8, Tails DEF DrainEvent, RestOfEvents
  <2>2. Append(collected[turn], Head(chan)) \in Seq(Chunk)
    BY <1>8, <2>1, Tails, Appends DEF DrainEvent
  <2>3. collected' \in [Turn -> Seq(Chunk)]
    BY <1>8, <2>2 DEF DrainEvent, NextEvent
  <2>4. \A t \in Turn : t # turn => collected'[t] = collected[t]
    BY <1>8 DEF DrainEvent
  <2>5. SinkBelongsToTurn'
    <3>1. cut' \in SUBSET Turn /\ phase' \in {"draining", "closing"}
      BY <1>8 DEF DrainEvent, AfterSend
    <3> QED BY <1>8, <2>1, <2>3, <3>1 DEF DrainEvent
  <2>6. Ahead'
    BY <1>0, <1>8, <2>4 DEF DrainEvent, AfterSend
  <2> QED BY <2>5, <2>6
<1>9. CASE DrainIdle
  BY <1>9 DEF DrainIdle, Quiet
<1>10. CASE ClearSink
  BY <1>10 DEF ClearSink, ClosedSink
<1>12. ASSUME NEW how \in {"done", "error", "dropped"}, Ends(turn, how), phase \in Closed \ {"closing"},
              phase' = "ready", transcript' = transcript,
              UNCHANGED <<given, turn, sink, chan, wire, answered, sent, collected, cut>>
       PROVE  Chunks'
  <2>1. /\ outcome' \in [Turn -> {"none", "done", "error", "dropped"}]
        /\ \A t \in Turn : t # turn => outcome'[t] = outcome[t]
    BY <1>12 DEF Ends
  <2>2. SinkBelongsToTurn'
    <3>1. sink # turn /\ sink' = sink
      BY <1>12
    <3>2. TypeOK'
      BY <1>12, <2>1
    <3> QED BY <1>12, <2>1, <3>1, <3>2
  <2>3. Ahead'
    BY <1>0, <1>12, <2>1
  <2> QED BY <2>2, <2>3
<1>13. CASE Touch
  <2>1. CASE phase' = "appending" /\ UNCHANGED <<outcome, transcript>>
    BY <1>13, <2>1 DEF Touch
  <2>2. CASE phase' = "ready" /\ Ends(turn, "error") /\ transcript' = transcript
    BY <1>12, <1>13, <2>2 DEF Touch
  <2> QED BY <1>13, <2>1, <2>2 DEF Touch, TranscriptOnError
<1>14. CASE AppendTranscript
  <2>1. transcript' \in Seq(Turn)
    <3>1. Append(transcript, turn) \in Seq(Turn)
      BY Appends
    <3> QED BY <1>14, <3>1 DEF AppendTranscript
  <2> QED BY <1>14, <2>1 DEF AppendTranscript
<1>15. CASE SendDone
  BY <1>12, <1>15 DEF SendDone
<1>16. CASE Lost
  <2>1. <<>> \in Seq(Chunk)
    OBVIOUS
  <2> QED BY <1>16, <2>1 DEF Lost
<1>11. CASE UNCHANGED vars
  BY <1>11 DEF vars
<1> QED BY <1>1, <1>2, <1>3, <1>4, <1>5, <1>6, <1>7, <1>8, <1>9, <1>10, <1>11, <1>13, <1>14,
           <1>15, <1>16
        DEF Next, Worker, Finished

LEMMA ChunksHold == Spec => []Chunks
BY InitChunks, NextChunks, PTL DEF Spec

\* The sink belongs to the turn under way, and one is left behind only by a turn
\* that failed (execute_prompt returns an error without clearing it).
THEOREM SinksBelongToTurns == Spec => []SinkBelongsToTurn
<1>1. Chunks => SinkBelongsToTurn
  BY DEF Chunks
<1> QED BY <1>1, ChunksHold, PTL

\* The state is of its types.
THEOREM TypesAreKept == Spec => []TypeOK
<1>1. Chunks => TypeOK
  BY DEF Chunks, SinkBelongsToTurn
<1> QED BY <1>1, ChunksHold, PTL

\* Between the write of the transcript and Done the worker holds the turn's place: it is
\* there if it could be written, and no turn whose outcome is open is there otherwise.
Transcribed ==
  /\ IsInjective(transcript)
  /\ \A t \in Turn : outcome[t] = "done" /\ writable => t \in ToSet(transcript)
  /\ phase = "finishing" /\ writable => turn \in ToSet(transcript)
  /\ \A t \in Turn : t \in ToSet(transcript) =>
       outcome[t] \in {"done", "dropped"} \/ (t = turn /\ phase \in {"finishing", "lost"})

LEMMA NextTranscribed == Chunks /\ Transcribed /\ [Next]_vars => Transcribed'
<1> SUFFICES ASSUME Chunks, Transcribed, [Next]_vars PROVE Transcribed'
  OBVIOUS
<1> USE DEF given
<1>0. /\ turn \in Turn /\ outcome \in [Turn -> {"none", "done", "error", "dropped"}]
      /\ transcript \in Seq(Turn) /\ (phase \in InTurn => outcome[turn] = "none")
      /\ turn \in Nat
  BY TurnsAreNumbers DEF Chunks, SinkBelongsToTurn, TypeOK, Ahead
<1>1. ASSUME NEW t \in Turn, outcome[t] = "none", t \notin ToSet(transcript), Ends(t, "error"),
             UNCHANGED <<writable, transcript>>, phase' = "ready", phase # "finishing",
             phase = "lost" => FALSE
      PROVE  Transcribed'
  BY <1>0, <1>1 DEF Transcribed, Ends
<1>2. ASSUME UNCHANGED <<writable, transcript, outcome, turn>>,
             phase' \in {phase, "ready", "prompting", "draining", "closing", "touching",
                        "appending", "lost"},
             phase \in {"finishing", "lost"} => phase' \in {phase, "lost"}
      PROVE  Transcribed'
  BY <1>2 DEF Transcribed
<1>3. CASE StartTurn
  <2>1. turn + 1 \in Turn /\ turn + 1 > turn /\ turn' = turn + 1 /\ phase = "ready"
    BY <1>0, <1>3, TurnsFollow DEF StartTurn
  <2>2. outcome[turn + 1] = "none"
    BY <2>1 DEF Chunks, Ahead
  <2>3. turn + 1 \notin ToSet(transcript)
    BY <2>1, <2>2 DEF Transcribed
  <2>4. CASE Ends(turn', "error") /\ UNCHANGED <<phase, sink, chan>>
    BY <1>1, <1>3, <2>1, <2>2, <2>3, <2>4 DEF StartTurn
  <2>5. CASE phase' = "prompting" /\ UNCHANGED outcome
    BY <1>3, <2>1, <2>5 DEF StartTurn, Transcribed
  <2> QED BY <1>3, <2>4, <2>5 DEF StartTurn
<1>4. ASSUME phase \in InTurn \ {"finishing"} PROVE turn \notin ToSet(transcript)
  BY <1>0, <1>4 DEF Transcribed, InTurn, Closed
<1>5. CASE PromptErr
  BY <1>0, <1>1, <1>4, <1>5 DEF PromptErr, InTurn
<1>6. CASE Touch
  <2>1. CASE phase' = "appending" /\ UNCHANGED <<outcome, transcript>>
    BY <1>2, <1>6, <2>1 DEF Touch
  <2>2. CASE phase' = "ready" /\ Ends(turn, "error") /\ transcript' = transcript
    BY <1>0, <1>1, <1>4, <1>6, <2>2 DEF Touch, InTurn, Closed
  <2> QED BY <1>6, <2>1, <2>2 DEF Touch, TranscriptOnError
<1>7. CASE AppendTranscript
  <2>1. /\ phase = "appending" /\ phase' = "finishing" /\ turn \notin ToSet(transcript)
        /\ UNCHANGED <<writable, outcome, turn>>
    BY <1>4, <1>7 DEF AppendTranscript, InTurn, Closed
  <2>2. CASE transcript' = Append(transcript, turn)
    <3>1. ToSet(transcript') = ToSet(transcript) \cup {turn}
      BY <1>0, <2>2, AppendRange
    <3>2. IsInjective(transcript')
      <4> DEFINE a == Append(transcript, turn)
      <4>1. \A i \in DOMAIN a :
              (i \in DOMAIN transcript /\ a[i] = transcript[i] /\ a[i] # turn)
              \/ (i = Len(transcript) + 1 /\ a[i] = turn)
        BY <1>0, <2>1, Appends DEF ToSet
      <4> HIDE DEF a
      <4>2. IsInjective(a)
        BY <4>1 DEF IsInjective, Transcribed
      <4> QED BY <2>2, <4>2 DEF a
    <3> QED BY <2>1, <3>1, <3>2 DEF Transcribed
  <2>3. CASE ~writable /\ UNCHANGED transcript
    BY <2>1, <2>3 DEF Transcribed
  <2> QED BY <1>7, <2>2, <2>3 DEF AppendTranscript
<1>8. CASE SendDone
  <2>1. /\ phase = "finishing" /\ phase' = "ready" /\ UNCHANGED <<writable, transcript, turn>>
        /\ outcome' \in {[outcome EXCEPT ![turn] = "done"], [outcome EXCEPT ![turn] = "dropped"]}
    BY <1>8 DEF SendDone, Ends
  <2>2. /\ outcome'[turn] \in {"done", "dropped"}
        /\ \A t \in Turn : t # turn => outcome'[t] = outcome[t]
    BY <1>0, <2>1
  <2> QED BY <2>1, <2>2 DEF Transcribed
<1>9. CASE Lost
  BY <1>2, <1>9 DEF Lost
<1> QED BY <1>2, <1>3, <1>5, <1>6, <1>7, <1>8, <1>9
        DEF Next, Worker, Emit, Respond, Notify, ReplayReturns, PromptOk, DrainEvent, AfterSend,
            DrainIdle, ClearSink, Finished, vars

\* The transcript has what was answered: a turn once, if it can be written all those told
\* Done, and none that failed (touch, append_transcript and Done, one after the other).
THEOREM TranscriptsAreTrue == Spec => []TranscriptIsWhatWasAnswered
<1>1. Init => Transcribed
  BY DEF Init, Transcribed, IsInjective, ToSet
<1>2. Transcribed => TranscriptIsWhatWasAnswered
  BY DEF Transcribed, TranscriptIsWhatWasAnswered
<1> QED BY <1>1, <1>2, NextTranscribed, ChunksHold, PTL DEF Spec

(***************************************************************************)
(* The order of chunks.                                                    *)
(***************************************************************************)
LEMMA InitOrder == Init => Order
BY DEF Init, Order, Rising, Emitted, Before

LEMMA NextOrder == Chunks /\ Order /\ [Next]_vars => Order'
<1> SUFFICES ASSUME Chunks, Order, [Next]_vars PROVE Order'
  OBVIOUS
<1>0. /\ turn \in Turn /\ turn \in Nat /\ chan \in Seq(Chunk) /\ wire \in Seq(Chunk)
      /\ collected \in [Turn -> Seq(Chunk)] /\ \A t \in Turn : t \in Nat
  BY TurnsAreNumbers DEF Chunks, SinkBelongsToTurn, TypeOK
<1>1. CASE Emit
  <2> DEFINE x == <<turn, sent[turn] + 1>>
  <2>1. /\ sent[turn] \in Nat /\ sent[turn] + 1 > sent[turn]
        /\ sent' = [sent EXCEPT ![turn] = @ + 1]
        /\ sent'[turn] = sent[turn] + 1 /\ \A t \in Turn : t # turn => sent'[t] = sent[t]
        /\ x \in Chunk
    <3>1. /\ sent[turn] + 1 \in 1..MaxChunks /\ sent \in [Turn -> 0..MaxChunks]
          /\ sent'[turn] = sent[turn] + 1 /\ \A t \in Turn : t # turn => sent'[t] = sent[t]
      BY <1>0, <1>1, CountsGrow DEF Emit, Chunks, SinkBelongsToTurn, TypeOK
    <3>2. sent[turn] \in Nat
      BY <1>0, <3>1, PromptTurnAssumption
    <3> QED BY <1>0, <1>1, <3>1, <3>2 DEF Emit, Chunk
  <2>2. wire' = Append(wire, x)
    BY <1>1, <2>1 DEF Emit
  <2>3. ASSUME NEW q \in Seq(Chunk), Emitted(q)
        PROVE  Emitted(q)' /\ \A i \in DOMAIN q : q[i][1] = x[1] => q[i][2] < x[2]
    <3>1. \A i \in DOMAIN q : q[i] \in Chunk
      BY <2>3
    <3>2. \A i \in DOMAIN q : q[i][1] \in Turn /\ q[i][2] \in Nat /\ sent[q[i][1]] \in Nat
      <4>1. \A y \in Chunk : y[1] \in Turn /\ y[2] \in Nat
        BY PromptTurnAssumption DEF Chunk, Chunks
      <4>2. \A t \in Turn : sent[t] \in Nat
        BY PromptTurnAssumption DEF Chunks, SinkBelongsToTurn, TypeOK
      <4> QED BY <3>1, <4>1, <4>2
    <3> QED BY <2>1, <2>3, <3>2 DEF Emitted
  <2>4. /\ Rising(wire) /\ Emitted(wire) /\ Before(chan, wire)
        /\ \A t \in Turn : Before(collected[t], wire) /\ Emitted(collected[t])
        /\ Emitted(chan)
    BY DEF Order
  <2> HIDE DEF x
  <2>5. \A i \in DOMAIN wire' :
          (i \in DOMAIN wire /\ i < Len(wire) + 1 /\ wire'[i] = wire[i])
          \/ (i = Len(wire) + 1 /\ wire'[i] = x)
    BY <1>0, <2>1, <2>2, Appends
  <2>6. \A i \in DOMAIN wire : i \in Nat /\ i <= Len(wire) /\ Len(wire) \in Nat
    BY <1>0
  <2>7. Rising(wire')
    BY <1>0, <2>3, <2>4, <2>5, <2>6 DEF Rising
  <2>8. Emitted(wire)'
    BY <1>0, <2>1, <2>3, <2>4, <2>5 DEF Emitted, x
  <2>9. ASSUME NEW q \in Seq(Chunk), Emitted(q), Before(q, wire)
        PROVE  Before(q, wire')
    BY <2>3, <2>5, <2>9 DEF Before
  <2>10. /\ Before(chan, wire') /\ Emitted(chan)'
         /\ \A t \in Turn : Before(collected[t], wire') /\ Emitted(collected[t])'
    BY <1>0, <1>1, <2>3, <2>4, <2>9 DEF Emit
  <2> QED BY <1>1, <2>7, <2>8, <2>10 DEF Order, Emit
<1>2. CASE Notify
  <2>1. /\ Rising(Tail(wire)) /\ Emitted(Tail(wire)) /\ wire' = Tail(wire) /\ wire # <<>>
        /\ UNCHANGED <<sent, collected>>
        /\ \A p \in Seq(Chunk) : Before(p, wire) => Before(p, Tail(wire))
    BY <1>0, <1>2, TailInOrder DEF Notify, Order
  <2>2. \A t \in Turn : Before(collected[t], wire')
    BY <1>0, <2>1 DEF Order
  <2>3. CASE chan' = chan
    BY <1>0, <2>1, <2>2, <2>3 DEF Order, Emitted
  <2>4. CASE chan' = Append(chan, Head(wire))
    <3>1. /\ Rising(chan') /\ Emitted(chan') /\ Before(chan', wire')
          /\ \A r \in Seq(Chunk) : Before(r, chan) /\ Before(r, wire) => Before(r, chan')
      BY <1>0, <2>1, <2>4, MoveInOrder DEF Order
    <3>2. \A t \in Turn : Before(collected[t], chan')
      BY <1>0, <3>1 DEF Order
    <3> QED BY <1>0, <2>1, <2>2, <3>1, <3>2 DEF Order, Emitted
  <2> QED BY <1>2, <2>3, <2>4 DEF Notify
<1>3. CASE DrainEvent
  <2> DEFINE c == Append(collected[turn], Head(chan))
  <2>1. /\ chan # <<>> /\ chan' = Tail(chan) /\ UNCHANGED <<sent, wire, turn>>
        /\ collected' = [collected EXCEPT ![turn] = c]
        /\ collected'[turn] = c /\ \A t \in Turn : t # turn => collected'[t] = collected[t]
    BY <1>0, <1>3 DEF DrainEvent, NextEvent, RestOfEvents
  <2>2. /\ Rising(Tail(chan)) /\ Emitted(Tail(chan)) /\ Tail(chan) \in Seq(Chunk)
        /\ \A p \in Seq(Chunk) : Before(p, chan) => Before(p, Tail(chan))
    BY <1>0, <2>1, Tails, TailInOrder DEF Order
  <2>3. /\ Rising(c) /\ Emitted(c) /\ Before(c, Tail(chan)) /\ c \in Seq(Chunk)
        /\ \A r \in Seq(Chunk) :
             Before(r, collected[turn]) /\ Before(r, chan) => Before(r, c)
        /\ \A r \in Seq(Chunk) :
             Before(collected[turn], r) /\ Before(chan, r) => Before(c, r)
    BY <1>0, <2>1, Tails, Appends, MoveInOrder DEF Order
  <2>4. Before(c, wire) /\ Before(Tail(chan), wire)
    <3>1. Before(Tail(chan), wire)
      <4>1. \A i \in DOMAIN Tail(chan) : i + 1 \in DOMAIN chan /\ Tail(chan)[i] = chan[i + 1]
        BY <1>0, <2>1, Tails
      <4>2. Before(chan, wire)
        BY DEF Order
      <4> QED BY <4>1, <4>2 DEF Before
    <3> QED BY <1>0, <2>3, <3>1 DEF Order
  <2> HIDE DEF c
  <2>5. \A t \in Turn : /\ Rising(collected'[t]) /\ Emitted(collected'[t])
                        /\ Before(collected'[t], chan') /\ Before(collected'[t], wire)
    BY <1>0, <2>1, <2>2, <2>3, <2>4 DEF Order
  <2>6. ASSUME NEW s \in Turn, NEW t \in Turn, s < t
        PROVE  Before(collected'[s], collected'[t])
    <3>1. CASE t = turn
      <4>1. s # turn
        BY <1>0, <2>6, <3>1
      <4> QED BY <1>0, <2>1, <2>3, <2>6, <3>1, <4>1 DEF Order
    <3>2. CASE s = turn
      <4>1. t # turn /\ collected[t] = <<>>
        BY <1>0, <2>6, <3>2 DEF Chunks, Ahead
      <4> QED BY <2>1, <4>1 DEF Before
    <3>3. CASE s # turn /\ t # turn
      BY <2>1, <2>6, <3>3 DEF Order
    <3> QED BY <3>1, <3>2, <3>3
  <2> QED BY <2>1, <2>2, <2>4, <2>5, <2>6 DEF Order, Emitted
<1>4. ASSUME UNCHANGED <<wire, sent, collected>>, chan' \in {chan, <<>>}
      PROVE  Order'
  BY <1>4 DEF Order, Rising, Emitted, Before
<1>5. CASE Lost
  BY <1>5 DEF Lost, Order, Rising, Emitted, Before
<1> QED BY <1>1, <1>2, <1>3, <1>4, <1>5
        DEF Next, Worker, Respond, ReplayReturns, StartTurn, PromptErr, PromptOk,
            DrainIdle, ClearSink, Touch, AppendTranscript, SendDone, Finished, vars

LEMMA OrderHolds == Spec => []Order
BY InitOrder, NextOrder, ChunksHold, PTL DEF Spec

\* What callers get of one turn is in the order the agent emitted it, each chunk at
\* most once and in at most one stream.
THEOREM ChunksStayInOrder == Spec => []ChunksKeepOrder
<1>1. Order => ChunksKeepOrder
  <2>1. \A t \in 1..Turns : t \in Turn
    BY PromptTurnAssumption DEF Turn
  <2> QED BY <2>1 DEF Order, ChunksKeepOrder, Rising, Before
<1> QED BY <1>1, OrderHolds, PTL

(***************************************************************************)
(* The drain.                                                              *)
(***************************************************************************)
LEMMA InitDrained == Init => Drained
BY DEF Init, Drained

\* Outcomes are final: a turn that was not drained stays one.
LEMMA UndrainedStay ==
  ASSUME Chunks, [Next]_vars, NEW t \in Turn, Undrained(t)
  PROVE  Undrained(t)'
<1>0. turn \in Turn /\ (phase \in InTurn => outcome[turn] = "none")
  BY DEF Chunks, SinkBelongsToTurn, TypeOK, Ahead
<1>1. \A u \in Turn, how \in {"done", "error", "dropped"} :
        outcome[u] = "none" /\ Ends(u, how) /\ cut' = cut => Undrained(t)'
  BY DEF Undrained, Ends
<1>2. CASE StartTurn
  <2>1. turn + 1 \in Turn /\ turn + 1 > turn /\ turn' = turn + 1
    BY <1>0, <1>2, TurnsFollow, TurnsAreNumbers DEF StartTurn
  <2>2. outcome[turn + 1] = "none"
    BY <2>1 DEF Chunks, Ahead
  <2> QED BY <1>1, <1>2, <2>1, <2>2 DEF StartTurn, Undrained
<1>3. CASE PromptErr \/ Touch \/ SendDone
  BY <1>0, <1>1, <1>3 DEF PromptErr, Touch, SendDone, InTurn, Closed, Undrained
<1>4. CASE DrainEvent
  <2>1. cut \subseteq cut' /\ outcome' = outcome
    BY <1>4 DEF DrainEvent
  <2> QED BY <2>1 DEF Undrained
<1> QED BY <1>2, <1>3, <1>4
        DEF Next, Worker, Emit, Respond, Notify, ReplayReturns, PromptOk, Lost,
            DrainIdle, ClearSink, AppendTranscript, Finished, vars, Undrained

LEMMA TimelyStays == [Next]_vars => timely' = timely
BY DEF Next, Worker, Emit, Respond, Notify, ReplayReturns, StartTurn, PromptErr, PromptOk,
       DrainEvent, DrainIdle, ClearSink, Touch, AppendTranscript, SendDone, Lost, Finished,
       vars, given

LEMMA NextDrained == Chunks /\ Drained /\ [Next]_vars => Drained'
<1> SUFFICES ASSUME Chunks, Drained, [Next]_vars, timely PROVE Drained'
  BY TimelyStays DEF Drained
<1> USE DEF given, Closed, InTurn
<1> DEFINE OnWire(i) ==
             Undrained(wire[i][1]) \/ (wire[i][1] = turn /\ phase \in {"prompting", "draining"})
           InChan(i) == Undrained(chan[i][1]) \/ chan[i][1] = turn
           There == ToSet(collected[turn]) \cup ToSet(chan) \cup ToSet(wire)
           Whole == turn # 0 /\ phase \in InTurn /\ turn \notin cut =>
                      \A k \in 1..sent[turn] : <<turn, k>> \in There
           Empty == phase \in Closed /\ turn \notin cut => wire = <<>> /\ chan = <<>>
<1>0. /\ turn \in Turn /\ turn \in Nat /\ chan \in Seq(Chunk) /\ wire \in Seq(Chunk)
      /\ collected \in [Turn -> Seq(Chunk)] /\ \A t \in Turn : t \in Nat
      /\ timely' = timely
      /\ \A i \in DOMAIN wire : wire[i] \in Chunk /\ wire[i][1] \in Turn
      /\ \A i \in DOMAIN chan : chan[i] \in Chunk /\ chan[i][1] \in Turn
  <2>1. wire \in Seq(Chunk) /\ chan \in Seq(Chunk)
    BY DEF Chunks, SinkBelongsToTurn, TypeOK
  <2>2. /\ \A i \in DOMAIN wire : wire[i] \in Chunk /\ wire[i][1] \in Turn
        /\ \A i \in DOMAIN chan : chan[i] \in Chunk /\ chan[i][1] \in Turn
    BY <2>1 DEF Chunk
  <2>3. timely' = timely
    BY TimelyStays
  <2> QED BY <2>1, <2>2, <2>3, TurnsAreNumbers DEF Chunks, SinkBelongsToTurn, TypeOK
<1>a. Empty /\ (\A i \in DOMAIN wire : OnWire(i)) /\ (\A i \in DOMAIN chan : InChan(i)) /\ Whole
  BY DEF Drained
<1>b. ASSUME Empty', (\A i \in DOMAIN wire : OnWire(i))', (\A i \in DOMAIN chan : InChan(i))', Whole'
      PROVE  Drained'
  BY <1>b DEF Drained
<1>c. \A t \in Turn : Undrained(t) => Undrained(t)'
  BY UndrainedStay
<1> HIDE DEF OnWire, InChan, There, Whole, Empty
<1>1. CASE Emit
  <2> DEFINE x == <<turn, sent[turn] + 1>>
  <2>1. /\ phase = "prompting" /\ UNCHANGED <<phase, turn, chan, collected, cut, outcome>>
        /\ sent[turn] \in Nat /\ sent'[turn] = sent[turn] + 1 /\ wire' = Append(wire, x)
        /\ x \in Chunk
    <3>1. /\ sent[turn] + 1 \in 1..MaxChunks /\ sent'[turn] = sent[turn] + 1
          /\ sent[turn] \in 0..MaxChunks
      BY <1>0, <1>1, CountsGrow DEF Emit, Chunks, SinkBelongsToTurn, TypeOK
    <3>2. sent[turn] \in Nat
      BY <3>1, PromptTurnAssumption
    <3> QED BY <1>0, <1>1, <3>1, <3>2 DEF Emit, Chunk
  <2>2. (\A i \in DOMAIN wire : OnWire(i))'
    <3>1. \A i \in DOMAIN wire' :
            (i \in DOMAIN wire /\ wire'[i] = wire[i]) \/ wire'[i] = x
      BY <1>0, <2>1, Appends
    <3> QED BY <1>a, <2>1, <3>1 DEF OnWire, Undrained
  <2>3. Whole'
    <3>1. There' = There \cup {x}
      <4>1. ToSet(wire') = ToSet(wire) \cup {x}
        BY <1>0, <2>1, AppendRange
      <4> HIDE DEF x
      <4> QED BY <2>1, <4>1 DEF There
    <3>2. \A k \in 1..sent'[turn] : k \in 1..sent[turn] \/ k = sent[turn] + 1
      BY <2>1
    <3> QED BY <1>a, <2>1, <3>1, <3>2 DEF Whole
  <2> QED BY <1>a, <1>b, <2>1, <2>2, <2>3 DEF Empty, InChan, Undrained
<1>2. CASE Notify
  <2>1. /\ wire # <<>> /\ wire' = Tail(wire)
        /\ UNCHANGED <<phase, turn, sink, sent, collected, cut, outcome>>
        /\ 1 \in DOMAIN wire /\ Head(wire) = wire[1] /\ Head(wire) \in Chunk
        /\ \A i \in DOMAIN Tail(wire) : i + 1 \in DOMAIN wire /\ Tail(wire)[i] = wire[i + 1]
    BY <1>0, <1>2, Tails DEF Notify
  <2>2. Empty' /\ (phase \in Closed => turn \in cut)
    BY <1>a, <2>1 DEF Empty
  <2>3. (\A i \in DOMAIN wire : OnWire(i))'
    BY <1>a, <2>1 DEF OnWire, Undrained
  <2>4. (\A i \in DOMAIN chan : InChan(i))'
    <3>1. \A i \in DOMAIN chan' : (i \in DOMAIN chan /\ chan'[i] = chan[i]) \/ chan'[i] = wire[1]
      BY <1>0, <1>2, <2>1, Appends DEF Notify
    <3> QED BY <1>a, <2>1, <3>1 DEF InChan, OnWire, Undrained
  <2>5. Whole'
    <3>1. CASE turn # 0 /\ phase \in InTurn /\ turn \notin cut
      <4>1. sink # NoSink /\ ReceiverAlive
        BY <1>0, <2>2, <3>1, TurnsAreNumbers DEF Chunks, SinkBelongsToTurn, TypeOK, ReceiverAlive
      <4>2. chan' = Append(chan, Head(wire))
        BY <1>2, <4>1 DEF Notify
      <4>3. There' = There
        BY <1>0, <2>1, <4>2, Moves DEF There
      <4> QED BY <1>a, <2>1, <4>3 DEF Whole
    <3>2. CASE ~(turn # 0 /\ phase \in InTurn /\ turn \notin cut)
      BY <2>1, <3>2 DEF Whole
    <3> QED BY <3>1, <3>2
  <2> QED BY <1>b, <2>2, <2>3, <2>4, <2>5
<1>3. CASE DrainEvent
  <2>1. /\ phase = "draining" /\ UNCHANGED <<turn, sent, wire, outcome>>
        /\ chan # <<>> /\ chan' = Tail(chan)
        /\ collected'[turn] = Append(collected[turn], Head(chan))
        /\ \A i \in DOMAIN Tail(chan) : i + 1 \in DOMAIN chan /\ Tail(chan)[i] = chan[i + 1]
        /\ \/ phase' = "closing" /\ cut' = cut \cup {turn}
           \/ phase' = phase /\ cut' = cut
    BY <1>0, <1>3, Tails DEF DrainEvent, NextEvent, RestOfEvents, AfterSend
  <2>2. (\A i \in DOMAIN chan : InChan(i))'
    BY <1>0, <1>a, <1>c, <2>1 DEF InChan
  <2>3. There' = There
    BY <1>0, <2>1, Moves DEF There
  <2>4. (\A i \in DOMAIN wire : OnWire(i))'
    BY <1>0, <1>a, <1>c, <2>1 DEF OnWire, Undrained
  <2>5. Empty' /\ Whole'
    BY <1>a, <2>1, <2>3 DEF Empty, Whole
  <2> QED BY <1>b, <2>2, <2>4, <2>5
<1>4. CASE DrainIdle
  <2>1. /\ UNCHANGED <<turn, sent, chan, wire, collected, cut, outcome>>
        /\ phase = "draining" /\ phase' = "closing" /\ chan = <<>> /\ wire = <<>>
    BY <1>4 DEF DrainIdle, Quiet
  <2> QED BY <1>a, <1>b, <2>1 DEF Empty, OnWire, InChan, Whole, There, Undrained
<1>5. CASE StartTurn
  <2>1. /\ turn' = turn + 1 /\ turn + 1 \in Turn /\ turn + 1 # 0 /\ turn + 1 > turn
        /\ phase = "ready" /\ phase' \in {"ready", "prompting"} /\ chan = <<>> /\ chan' = <<>>
        /\ UNCHANGED <<wire, sent, collected>>
    BY <1>0, <1>5, TurnsFollow DEF StartTurn, Chunks, Ahead, ReceiverAlive
  <2>2. sent[turn + 1] = 0
    BY <2>1 DEF Chunks, Ahead
  <2>3. (\A i \in DOMAIN wire : OnWire(i))'
    BY <1>0, <1>a, <1>c, <2>1 DEF OnWire
  <2> QED BY <1>b, <2>1, <2>2, <2>3 DEF Empty, InChan, Whole
<1>6. CASE PromptErr
  <2>1. /\ phase' = "ready" /\ chan' = <<>> /\ UNCHANGED <<turn, wire>>
        /\ outcome' = [outcome EXCEPT ![turn] = "error"]
        /\ outcome'[turn] = "error"
    BY <1>0, <1>6 DEF PromptErr, Ends, Chunks, SinkBelongsToTurn, TypeOK
  <2>2. (\A i \in DOMAIN wire : OnWire(i))'
    BY <1>0, <1>a, <1>c, <2>1 DEF OnWire, Undrained
  <2> QED BY <1>b, <2>1, <2>2 DEF Empty, InChan, Whole
<1>7. CASE ClearSink
  <2>1. /\ phase = "closing" /\ phase' = "touching" /\ chan' = <<>>
        /\ UNCHANGED <<turn, wire, sent, collected, cut, outcome>>
    BY <1>7 DEF ClearSink
  <2>2. Whole'
    <3>1. turn \notin cut => chan = <<>>
      BY <1>a, <2>1 DEF Empty
    <3> QED BY <1>a, <2>1, <3>1 DEF Whole, There
  <2> QED BY <1>a, <1>b, <2>1, <2>2 DEF Empty, OnWire, InChan, Undrained
<1>11. CASE Touch \/ SendDone
  <2>1. /\ UNCHANGED <<turn, wire, chan, cut>>
        /\ phase \in {"touching", "finishing"}
        /\ phase' = "ready" \/ (phase' = "appending" /\ UNCHANGED <<sent, collected, outcome>>)
    BY <1>11 DEF Touch, SendDone
  <2>2. (\A i \in DOMAIN wire : OnWire(i))' /\ (\A i \in DOMAIN chan : InChan(i))'
    BY <1>0, <1>a, <1>c, <2>1 DEF OnWire, InChan
  <2> QED BY <1>a, <1>b, <2>1, <2>2 DEF Empty, Whole, There
<1>12. CASE AppendTranscript
  <2>1. /\ UNCHANGED <<turn, wire, chan, sent, collected, cut, outcome>>
        /\ phase = "appending" /\ phase' = "finishing"
    BY <1>12 DEF AppendTranscript
  <2> QED BY <1>a, <1>b, <2>1 DEF Empty, OnWire, InChan, Whole, There, Undrained
<1>13. CASE Lost
  <2>1. phase' = "lost" /\ wire' = <<>> /\ chan' = <<>>
    BY <1>13 DEF Lost
  <2> QED BY <1>b, <2>1 DEF Empty, OnWire, InChan, Whole
<1>8. CASE ReplayReturns
  <2>1. phase' = "ready" /\ turn = 0 /\ UNCHANGED <<turn, chan, wire, cut, outcome>>
    BY <1>8 DEF ReplayReturns
  <2> QED BY <1>0, <1>a, <1>b, <2>1 DEF Empty, OnWire, InChan, Whole, Undrained
<1>9. CASE PromptOk
  <2>1. /\ phase = "prompting" /\ phase' = "draining"
        /\ UNCHANGED <<turn, chan, wire, sent, collected, cut, outcome>>
    BY <1>9 DEF PromptOk
  <2> QED BY <1>a, <1>b, <2>1 DEF Empty, OnWire, InChan, Whole, There, Undrained
<1>10. CASE UNCHANGED <<phase, turn, chan, wire, sent, collected, cut, outcome>>
  BY <1>a, <1>b, <1>10 DEF Empty, OnWire, InChan, Whole, There, Undrained
<1> QED BY <1>1, <1>2, <1>3, <1>4, <1>5, <1>6, <1>7, <1>8, <1>9, <1>10, <1>11, <1>12, <1>13
        DEF Next, Worker, Respond, Finished, vars

LEMMA DrainedHolds == Spec => []Drained
BY InitDrained, NextDrained, ChunksHold, PTL DEF Spec

LEMMA NextTimely ==
  ASSUME Chunks, Drained, TimelyChunksAreNotDropped, [Next]_vars
  PROVE  TimelyChunksAreNotDropped'
<1> USE DEF given, InTurn, Closed
<1>0. /\ turn \in Turn /\ (phase \in InTurn => outcome[turn] = "none")
      /\ turn \in Nat /\ outcome \in [Turn -> {"none", "done", "error", "dropped"}]
      /\ phase \in Closed \cup {"draining"} => turn # 0
      /\ timely' = timely
  BY TurnsAreNumbers, TimelyStays DEF Chunks, SinkBelongsToTurn, TypeOK, Ahead
<1>1. CASE phase \in InTurn /\ UNCHANGED outcome
  <2>1. /\ \A t \in Turn : t # turn => sent'[t] = sent[t] /\ collected'[t] = collected[t]
        /\ cut \subseteq cut'
    BY <1>0, <1>1 DEF Next, Worker, Emit, Respond, Notify, ReplayReturns, PromptOk, DrainEvent,
       DrainIdle, StartTurn, PromptErr, ClearSink, Touch, AppendTranscript, SendDone, Lost,
       Finished, vars, Chunks, SinkBelongsToTurn, TypeOK
  <2> QED BY <1>0, <1>1, <2>1 DEF TimelyChunksAreNotDropped
<1>2. CASE UNCHANGED <<outcome, sent, collected, cut>>
  BY <1>0, <1>2 DEF TimelyChunksAreNotDropped
<1>3. ASSUME NEW t \in Turn, Ends(t, "error") \/ Ends(t, "dropped"),
             UNCHANGED <<sent, collected, cut>>
      PROVE  TimelyChunksAreNotDropped'
  <2>1. \A u \in Turn : outcome'[u] = "done" => outcome[u] = "done"
    BY <1>0, <1>3 DEF Ends
  <2> QED BY <1>0, <1>3, <2>1 DEF TimelyChunksAreNotDropped
<1>4. CASE SendDone
  <2>1. /\ UNCHANGED <<sent, collected, cut>> /\ phase = "finishing"
        /\ Ends(turn, "done") \/ Ends(turn, "dropped")
    BY <1>4 DEF SendDone
  <2>2. CASE Ends(turn, "done")
    <3>1. ASSUME timely, turn \notin cut, NEW k \in 1..sent[turn]
          PROVE  <<turn, k>> \in ToSet(collected[turn])
      <4>1. /\ wire = <<>> /\ chan = <<>>
            /\ <<turn, k>> \in ToSet(collected[turn]) \cup ToSet(chan) \cup ToSet(wire)
        BY <1>0, <2>1, <3>1 DEF Drained
      <4>2. ToSet(<<>>) = {}
        BY DEF ToSet
      <4> QED BY <4>1, <4>2
    <3>2. \A t \in Turn : t # turn => outcome'[t] = outcome[t]
      BY <1>0, <2>2 DEF Ends
    <3> QED BY <1>0, <2>1, <3>1, <3>2 DEF TimelyChunksAreNotDropped
  <2> QED BY <1>0, <1>3, <2>1, <2>2
<1>5. CASE StartTurn
  BY <1>0, <1>2, <1>3, <1>5, TurnsFollow DEF StartTurn
<1>6. CASE PromptErr \/ Touch
  BY <1>0, <1>2, <1>3, <1>6 DEF PromptErr, Touch
<1>7. CASE Lost
  BY <1>2, <1>7 DEF Lost
<1> QED BY <1>1, <1>2, <1>4, <1>5, <1>6, <1>7
        DEF Next, Worker, Emit, Respond, Notify, ReplayReturns, PromptOk, DrainEvent,
            DrainIdle, ClearSink, AppendTranscript, Finished, vars

\* If late chunks arrive before the drain gives up, a turn that ends with Done has
\* every chunk the agent emitted for it, unless a slow caller cut the drain short.
THEOREM TimelyChunksArrive == Spec => []TimelyChunksAreNotDropped
<1>1. Init => TimelyChunksAreNotDropped
  BY DEF Init, TimelyChunksAreNotDropped
<1>2. Chunks /\ Drained /\ TimelyChunksAreNotDropped /\ [Next]_vars
      => TimelyChunksAreNotDropped'
  BY NextTimely
<1> QED BY <1>1, <1>2, ChunksHold, DrainedHolds, PTL DEF Spec

\* The same for any turn's stream, that of the replay included, which has none.
Leaks == timely => \A t \in Turn : \A i \in DOMAIN collected[t] :
           collected[t][i][1] \in Turn /\ (collected[t][i][1] = t \/ Undrained(collected[t][i][1]))

LEMMA NextLeaks ==
  ASSUME Chunks, Drained, Leaks, [Next]_vars
  PROVE  Leaks'
<1>0. /\ turn \in Turn /\ chan \in Seq(Chunk) /\ collected \in [Turn -> Seq(Chunk)]
  BY DEF Chunks, SinkBelongsToTurn, TypeOK
<1>1. \A t \in Turn : Undrained(t) => Undrained(t)'
  BY UndrainedStay
<1>2. timely' = timely
  BY TimelyStays
<1>3. CASE DrainEvent
  <2>1. /\ chan # <<>> /\ Head(chan) \in Chunk /\ Head(chan) = chan[1] /\ 1 \in DOMAIN chan
        /\ collected' = [collected EXCEPT ![turn] = Append(@, Head(chan))]
        /\ UNCHANGED outcome /\ cut \subseteq cut'
    BY <1>0, <1>3, Tails DEF DrainEvent, NextEvent
  <2>2. timely => Head(chan)[1] \in Turn /\ (Head(chan)[1] = turn \/ Undrained(Head(chan)[1]))
    BY <2>1 DEF Drained, Chunk
  <2>3. \A i \in DOMAIN collected'[turn] :
          \/ i \in DOMAIN collected[turn] /\ collected'[turn][i] = collected[turn][i]
          \/ collected'[turn][i] = Head(chan)
    BY <1>0, <2>1, Appends
  <2>4. \A t \in Turn : t # turn => collected'[t] = collected[t]
    BY <1>0, <2>1
  <2> QED BY <1>2, <2>1, <2>2, <2>3, <2>4 DEF Leaks, Undrained
<1>4. CASE UNCHANGED collected
  BY <1>1, <1>2, <1>4 DEF Leaks
<1> QED BY <1>3, <1>4
        DEF Next, Worker, Emit, Respond, Notify, ReplayReturns, StartTurn, PromptErr,
            PromptOk, DrainIdle, ClearSink, Touch, AppendTranscript, SendDone, Lost, Finished,
            vars

\* If late chunks arrive before the drain gives up, a turn's stream has chunks of
\* another turn only when that one was not drained to its end.
THEOREM OnlyUndrainedTurnsLeak == Spec => []LeaksOnlyFromUndrainedTurns
<1>1. Init => Leaks
  BY DEF Init, Leaks
<1>2. Chunks /\ Drained /\ Leaks /\ [Next]_vars => Leaks'
  BY NextLeaks
<1>3. Leaks => LeaksOnlyFromUndrainedTurns
  <2>1. \A t \in 1..Turns : t \in Turn
    BY PromptTurnAssumption DEF Turn
  <2> QED BY <2>1 DEF Leaks, LeaksOnlyFromUndrainedTurns, Undrained
<1> QED BY <1>1, <1>2, <1>3, ChunksHold, DrainedHolds, PTL DEF Spec
=============================================================================
