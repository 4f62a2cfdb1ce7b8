---------------------------- MODULE ResponsesTurn ----------------------------
(***************************************************************************)
(* One turn of the Responses API, execute_responses_turn, from the first   *)
(* event of the agent to the answer, and of a chat completion with tools,  *)
(* execute_chat_turn (tools/orchestrate.rs), with the loop that runs the   *)
(* agent's calls through a webhook (tools/tool_loop.rs) and the events a   *)
(* streaming client is sent (responses/sse.rs).                            *)
(*                                                                         *)
(* The supervisor is only what it answers: events in any order, a reply,   *)
(* or an error.  The webhook's service is external: a POST takes effect at *)
(* any time after it was sent, even after the caller gave up on it, and is *)
(* answered only after it took effect.                                     *)
(*                                                                         *)
(* A call is <<k, i>>, the i-th call of the k-th reply.  Indices count     *)
(* from 1 where the code counts from 0.                                    *)
(***************************************************************************)
EXTENDS ToolCalls, SequencesExt

CONSTANTS Requests,      \* the requests, with the configuration they meet
          Replies,       \* the replies an agent may give
          ToolIds,       \* ids of the agent's own tool calls
          MaxToolSteps,  \* max_tool_steps
          MaxEvents      \* bound: events of the first reply

\* fallback: tool_webhook_fallback is "agent".  agentTools: stream_agent_tools.
RequestType ==
  [api : {"responses", "chat"}, streaming : BOOLEAN, mode : {"client", "server"},
   tools : SUBSET ToolNames, choice : ToolChoices, parallel : BOOLEAN,
   schema : BOOLEAN, reasoning : BOOLEAN, agentTools : BOOLEAN, fallback : BOOLEAN]

ASSUME TurnAssumption ==
  /\ MaxToolSteps \in Nat
  /\ Requests \subseteq RequestType
  /\ Replies \subseteq ReplyType

VARIABLES
  req,           \* the request
  pc,            \* where the turn is
  seen,          \* the agent's events of the first reply, in order
  output,        \* output of the response object whose copies events carry
  agentOutputs,  \* agent_outputs; of a chat turn, its tool_calls
  toolIndex,     \* agent_index, 0 for an id it does not have
  sent,          \* events sent to the client
  replies,       \* texts of the agent so far
  text,          \* the current text: the number of a reply, 0 for ""
  steps,         \* steps of the loop that ran webhooks
  answer,        \* of each call POSTed, what came back
  effects,       \* calls that took effect, in that order
  told,          \* what continuation prompts told the agent of calls
  reason         \* incomplete_reason

vars == <<req, pc, seen, output, agentOutputs, toolIndex, sent, replies, text,
          steps, answer, effects, told, reason>>
drainVars == <<seen, output, agentOutputs, toolIndex, sent>>
loopVars == <<steps, answer, effects, told>>

Item(type, nr, of) == [type |-> type, nr |-> nr, of |-> of]
NoItem      == Item("none", 0, 0)
Message(k)  == Item("message", k, 0)   \* with reply k for text; 0 while it grows
CallItem(c) == Item("call", c[1], c[2])
\* calls_to_output gives each item it makes an id of its own: the item in which a call is
\* streamed is not the one in which the answer lists it, and only the call is the same.
StreamedItem(c) == Item("streamed_call", c[1], c[2])
CallOf(item)    == <<item.nr, item.of>>

\* An event about an item at an index, and what the response it carries has there.
Event(type, index, item, out) ==
  [type |-> type, index |-> index, item |-> item,
   held |-> IF index \in DOMAIN out THEN out[index] ELSE NoItem]
Lifecycle(type) == Event(type, 0, NoItem, <<>>)

SendIfStreaming(events) == IF req.streaming THEN sent \o events ELSE sent

Tools == FilterTools(req.tools, req.choice)
Reply == replies[Len(replies)]
Calls == CallsOf(Reply, Tools, req.choice)
CallIds == [i \in DOMAIN Calls |-> <<Len(replies), i>>]
TextIsEmpty == text = 0 \/ IsEmpty(replies[text])
MessageOfText == IF TextIsEmpty THEN <<>> ELSE <<Message(text)>>
Ended == pc \in {"answered", "failed", "dropped"}

Init ==
  /\ req \in Requests
  /\ pc = "drain"
  /\ seen = <<>> /\ output = <<>> /\ agentOutputs = <<>>
  /\ toolIndex = [id \in ToolIds |-> 0]
  /\ sent = IF req.streaming
            THEN <<Lifecycle("created"), Lifecycle("in_progress")>> ELSE <<>>
  /\ replies = <<>> /\ text = 0
  /\ steps = 0 /\ answer = <<>> /\ effects = <<>> /\ told = {}
  /\ reason = "none"

(***************************************************************************)
(* The first reply.  drain_sync puts reasoning and tool items among the    *)
(* agent's outputs; drain_stream puts only tool items there, and all items *)
(* in the response.  Events the request did not ask for change nothing.    *)
(***************************************************************************)
AgentItem(e) == Item("agent_call", e.nr, e.id)

\* apply_agent_tool_event: where the item of e goes, and the outputs with it
Place(outputs, index, e) ==
  IF e.kind = "updated" /\ index[e.id] # 0 THEN index[e.id] ELSE Len(outputs) + 1
ApplyTool(outputs, index, e) ==
  LET place == Place(outputs, index, e)
  IN  [out   |-> IF place \in DOMAIN outputs THEN [outputs EXCEPT ![place] = AgentItem(e)]
                                             ELSE Append(outputs, AgentItem(e)),
       index |-> [index EXCEPT ![e.id] = place]]

\* (mutant: drain_sync ignores an update of an id it does not know)
SyncStepIfKnown(acc, e) ==
  CASE e.kind = "delta"     -> acc
    [] e.kind = "reasoning" -> [acc EXCEPT !.out = Append(@, Item("reasoning", e.nr, 0))]
    [] e.kind = "updated" /\ acc.index[e.id] = 0 -> acc
    [] OTHER                -> ApplyTool(acc.out, acc.index, e)

\* One round of drain_sync's loop on its two collections.
SyncStep(acc, e) ==
  CASE e.kind = "delta"     -> acc
    [] e.kind = "reasoning" -> [acc EXCEPT !.out = Append(@, Item("reasoning", e.nr, 0))]
    [] OTHER                -> ApplyTool(acc.out, acc.index, e)

TextStarted == \E i \in DOMAIN seen : seen[i].kind = "delta"

\* drain_stream on a Delta: the message is taken to be item 1
StreamDelta ==
  LET out == IF TextStarted THEN output ELSE Append(output, Message(0))
  IN  /\ output' = out
      /\ sent' = sent
           \o (IF TextStarted THEN <<>> ELSE <<Event("added", 1, Message(0), out)>>)
           \o (IF TextStarted \/ out[1].type # "message" THEN <<>>
               ELSE <<Event("part", 1, Message(0), out)>>)
           \o <<Event("delta", 1, Message(0), out)>>
      /\ UNCHANGED <<agentOutputs, toolIndex>>

\* (mutant: the index of a reasoning item is read after the push)
StreamReasoningLate(e) ==
  LET item == Item("reasoning", e.nr, 0)
      out  == Append(output, item)
  IN  /\ output' = out
      /\ sent' = sent \o <<Event("added", Len(out) + 1, item, out),
                           Event("reasoning", Len(out) + 1, item, out)>>
      /\ UNCHANGED <<agentOutputs, toolIndex>>

\* drain_stream on a ReasoningDelta
StreamReasoning(e) ==
  LET item == Item("reasoning", e.nr, 0)
      out  == Append(output, item)
  IN  /\ output' = out
      /\ sent' = sent \o <<Event("added", Len(out), item, out),
                           Event("reasoning", Len(out), item, out)>>
      /\ UNCHANGED <<agentOutputs, toolIndex>>

\* drain_stream on an AgentToolCall: its place among the agent's outputs is
\* used as its place in the response
StreamTool(e) ==
  LET applied == ApplyTool(agentOutputs, toolIndex, e)
      place   == Place(agentOutputs, toolIndex, e)
      item    == AgentItem(e)
      out     == IF e.kind = "started" THEN Append(output, item)
                 ELSE IF place \in DOMAIN output THEN [output EXCEPT ![place] = item]
                 ELSE output
  IN  /\ agentOutputs' = applied.out /\ toolIndex' = applied.index
      /\ output' = out
      /\ sent' = sent
           \o (IF e.kind = "started" THEN <<Event("added", place, item, out)>> ELSE <<>>)
           \o <<Event("done", place, item, out)>>

AgentEvent(kind, id) ==
  LET e == [kind |-> kind, id |-> id, nr |-> Len(seen) + 1]
  IN  /\ pc = "drain" /\ Len(seen) < MaxEvents
      /\ seen' = Append(seen, e)
      /\ IF ~req.streaming
         THEN LET acc == SyncStep([out |-> agentOutputs, index |-> toolIndex], e)
              IN  /\ agentOutputs' = acc.out /\ toolIndex' = acc.index
                  /\ UNCHANGED <<output, sent>>
         ELSE CASE kind = "delta"     -> StreamDelta
                [] kind = "reasoning" -> StreamReasoning(e)
                [] OTHER              -> StreamTool(e)
      /\ UNCHANGED <<req, pc, replies, text, reason>> /\ UNCHANGED loopVars

AgentSpeaks == \E id \in ToolIds :
  \/ AgentEvent("delta", id) /\ id = CHOOSE any \in ToolIds : TRUE
  \/ AgentEvent("reasoning", id) /\ id = (CHOOSE any \in ToolIds : TRUE) /\ req.reasoning
  \/ AgentEvent("started", id) /\ req.agentTools
  \/ AgentEvent("updated", id) /\ req.agentTools

\* Done: the message gets its text and its end, if item 1 is the message at
\* all; response_obj is the copy made before the drain.
FirstReply(reply, finish) ==
  LET out == IF TextStarted /\ output[1].type = "message"
             THEN [output EXCEPT ![1] = Message(1)] ELSE output
  IN  /\ pc = "drain"
      /\ TextStarted <=> ~IsEmpty(reply)
      /\ replies' = <<reply>> /\ text' = 1
      /\ reason' = IF finish = "length" THEN "max_output_tokens" ELSE "none"
      /\ sent' = IF req.streaming /\ TextStarted
                 THEN Append(sent, Event("done", 1, out[1], out)) ELSE sent
      /\ output' = <<>>
      /\ pc' = "tools"
      /\ UNCHANGED <<req, seen, agentOutputs, toolIndex>> /\ UNCHANGED loopVars

(***************************************************************************)
(* Ends.  run_stream's task sends the last event.                          *)
(***************************************************************************)
Fail ==
  /\ pc' = "failed"
  /\ sent' = SendIfStreaming(<<Lifecycle("failed")>>)
  /\ UNCHANGED <<req, seen, output, agentOutputs, toolIndex, replies, text, reason>>

Complete ==
  /\ pc' = "answered"
  /\ sent' = SendIfStreaming(<<Lifecycle("completed")>>)

AgentFails ==
  /\ pc \in {"drain", "continuation", "retry"}
  /\ Fail /\ UNCHANGED loopVars

\* The future of a handler is dropped with its client; a stream's task is not.
Disconnect ==
  /\ ~req.streaming /\ ~Ended
  /\ pc' = "dropped"
  /\ UNCHANGED <<req, replies, text, reason>> /\ UNCHANGED drainVars /\ UNCHANGED loopVars

(***************************************************************************)
(* Calls.                                                                  *)
(***************************************************************************)
CallsRefused ==
  /\ pc = "tools" /\ Tools # {}
  /\ ~CallsAccepted(Reply, Tools, req.choice)
  /\ Fail /\ UNCHANGED loopVars

\* A chat turn keeps its text as its answer and has no output items.
Listed(items) == IF req.api = "chat" THEN agentOutputs ELSE agentOutputs \o items

NoCalls ==
  /\ pc = "tools"
  /\ CallsAccepted(Reply, Tools, req.choice) /\ Calls = <<>>
  /\ agentOutputs' = Listed(MessageOfText)
  /\ pc' = "schema"
  /\ UNCHANGED <<req, seen, output, toolIndex, sent, replies, text, reason>>
  /\ UNCHANGED loopVars

\* emit_tool_sse_events for the i-th call
CallEvents(c, i, out) ==
  LET item == StreamedItem(c)
  IN  << Event("added", i, item, out), Event("args", i, item, out),
         Event("args_done", i, item, out), Event("done", i, item, out) >>

ClientCalls ==
  LET items == [i \in DOMAIN CallIds |-> StreamedItem(CallIds[i])]
      start == Len(output)
      out(i) == output \o SubSeq(items, 1, i)
  IN  /\ pc = "tools" /\ req.mode = "client"
      /\ CallsAccepted(Reply, Tools, req.choice) /\ Calls # <<>>
      /\ sent' = SendIfStreaming(
           FlattenSeq([i \in DOMAIN CallIds |-> CallEvents(CallIds[i], start + i, out(i))]))
      /\ agentOutputs' = agentOutputs \o [i \in DOMAIN CallIds |-> CallItem(CallIds[i])]
      /\ text' = 0 /\ reason' = "tool_calls"
      /\ pc' = "schema"
      /\ UNCHANGED <<req, seen, output, toolIndex, replies>> /\ UNCHANGED loopVars

PastLimit == steps > MaxToolSteps  \* mutant: off by one
AtLimit == steps >= MaxToolSteps

ServerLimit ==
  /\ pc = "tools" /\ req.mode = "server"
  /\ CallsAccepted(Reply, Tools, req.choice) /\ Calls # <<>>
  /\ agentOutputs' = Listed([i \in DOMAIN CallIds |-> CallItem(CallIds[i])])
  /\ AtLimit
  /\ reason' = "max_tool_steps"
  /\ pc' = "schema"
  /\ UNCHANGED <<req, seen, output, toolIndex, sent, replies, text>> /\ UNCHANGED loopVars

\* execute_calls starts with all calls or with the first
Posts(calls) ==
  [c \in DOMAIN answer \cup calls |-> IF c \in DOMAIN answer THEN answer[c] ELSE "waiting"]
StartsWithAll == Range(CallIds)  \* mutant: parallel_tool_calls is not looked at
StartsWith == IF req.parallel THEN Range(CallIds) ELSE {CallIds[1]}

ServerStep ==
  /\ pc = "tools" /\ req.mode = "server"
  /\ CallsAccepted(Reply, Tools, req.choice) /\ Calls # <<>>
  /\ agentOutputs' = Listed([i \in DOMAIN CallIds |-> CallItem(CallIds[i])])
  /\ ~AtLimit
  /\ steps' = steps + 1
  /\ answer' = Posts(StartsWith)
  /\ pc' = "webhooks"
  /\ UNCHANGED <<req, seen, output, toolIndex, sent, replies, text, effects, told, reason>>

(***************************************************************************)
(* Webhooks.                                                               *)
(***************************************************************************)
WebhookTakesEffect(c) ==
  /\ c \notin Range(effects)
  /\ effects' = Append(effects, c)
  /\ UNCHANGED <<req, pc, replies, text, steps, answer, told, reason>>
  /\ UNCHANGED drainVars

\* The head of an answer comes within the timeout, ...
WebhookResponds(c) ==
  /\ pc = "webhooks" /\ answer[c] = "waiting" /\ c \in Range(effects)
  /\ answer' = [answer EXCEPT ![c] = "head"]
  /\ UNCHANGED <<req, pc, replies, text, steps, effects, told, reason>>
  /\ UNCHANGED drainVars

\* ... and its body, for which nothing limits the wait, at any time or never.
WebhookAnswers(c) ==
  LET next == <<c[1], c[2] + 1>>
  IN  /\ pc = "webhooks" /\ answer[c] = "head"
      /\ answer' = [Posts({next} \cap Range(CallIds)) EXCEPT ![c] = "ok"]
      /\ UNCHANGED <<req, pc, replies, text, steps, effects, told, reason>>
      /\ UNCHANGED drainVars

\* (mutant: no timeout, only answers that are errors)
WebhookAnswersError(c) ==
  /\ pc = "webhooks" /\ answer[c] = "waiting" /\ c \in Range(effects)
  /\ answer' = [answer EXCEPT ![c] = "err"]
  /\ UNCHANGED <<req, pc, replies, text, steps, effects, told, reason>>
  /\ UNCHANGED drainVars

\* A timeout, a refused connection, an error status; a body that is cut or has no output.
WebhookFails(c) ==
  /\ pc = "webhooks" /\ answer[c] \in {"waiting", "head"}
  /\ answer' = [answer EXCEPT ![c] = "err"]
  /\ UNCHANGED <<req, pc, replies, text, steps, effects, told, reason>>
  /\ UNCHANGED drainVars

\* (mutant: only the result of the last call is looked at)
LastCallFailed == \E c \in {CallIds[Len(CallIds)]} \cap DOMAIN answer : answer[c] = "err"
StepFailed  == \E c \in Range(CallIds) \cap DOMAIN answer : answer[c] = "err"
StepSettled == \A c \in Range(CallIds) \cap DOMAIN answer : answer[c] \in {"ok", "err"}

StepSucceeds ==
  /\ pc = "webhooks" /\ StepSettled /\ ~StepFailed
  /\ told' = told \cup {<<c, "output">> : c \in Range(CallIds)}
  /\ pc' = "continuation"
  /\ UNCHANGED <<req, replies, text, steps, answer, effects, reason>>
  /\ UNCHANGED drainVars

\* One text stands for the outputs of the step, and zip pairs it with its
\* first call.
StepFallsBack ==
  /\ pc = "webhooks" /\ StepSettled /\ StepFailed /\ req.fallback
  /\ told' = told \cup {<<CallIds[1], "error">>}
  /\ pc' = "continuation"
  /\ UNCHANGED <<req, replies, text, steps, answer, effects, reason>>
  /\ UNCHANGED drainVars

StepFails ==
  /\ pc = "webhooks" /\ StepSettled /\ StepFailed /\ ~req.fallback
  /\ Fail /\ UNCHANGED loopVars

AgentContinues(reply) ==
  /\ pc = "continuation"
  /\ replies' = Append(replies, reply) /\ text' = Len(replies) + 1
  /\ pc' = "tools"
  /\ UNCHANGED <<req, reason>> /\ UNCHANGED drainVars /\ UNCHANGED loopVars

(***************************************************************************)
(* The json_schema check and its retry, and the answer.                    *)
(***************************************************************************)
TextFits == text # 0 /\ replies[text].json

Answer ==
  /\ pc = "schema" /\ (req.schema => TextFits)
  /\ Complete
  /\ UNCHANGED <<req, seen, output, agentOutputs, toolIndex, replies, text, reason>>
  /\ UNCHANGED loopVars

SchemaRefuses ==
  /\ pc = "schema" /\ req.schema /\ ~TextFits
  /\ pc' = "retry"
  /\ UNCHANGED <<req, replies, text, reason>> /\ UNCHANGED drainVars /\ UNCHANGED loopVars

RetryTrusted(reply) == TRUE  \* mutant: the retry's text is not validated
RetryAccepted(reply) == reply.json

RetryAnswers(reply, finish) ==
  /\ pc = "retry" /\ RetryAccepted(reply)
  /\ replies' = Append(replies, reply) /\ text' = Len(replies) + 1
  /\ reason' = IF finish = "length" THEN "max_output_tokens" ELSE reason
  /\ agentOutputs' = IF agentOutputs = <<>> THEN <<Message(text')>> ELSE agentOutputs
  /\ Complete
  /\ UNCHANGED <<req, seen, output, toolIndex>> /\ UNCHANGED loopVars

RetryFails(reply) ==
  /\ pc = "retry" /\ ~RetryAccepted(reply)
  /\ Fail /\ UNCHANGED loopVars

-----------------------------------------------------------------------------
Prompted ==
  \/ AgentSpeaks \/ AgentFails
  \/ \E reply \in Replies :
       \/ AgentContinues(reply) \/ RetryFails(reply)
       \/ \E finish \in {"stop", "length"} : FirstReply(reply, finish) \/ RetryAnswers(reply, finish)

Proceed ==
  \/ CallsRefused \/ NoCalls \/ ClientCalls \/ ServerLimit \/ ServerStep
  \/ StepSucceeds \/ StepFallsBack \/ StepFails
  \/ Answer \/ SchemaRefuses

PostReturns == \E c \in DOMAIN answer :
  WebhookResponds(c) \/ (answer[c] = "waiting" /\ WebhookFails(c))
BodyReturns == \E c \in DOMAIN answer :
  WebhookAnswers(c) \/ (answer[c] = "head" /\ WebhookFails(c))

Next ==
  \/ Prompted \/ Proceed \/ PostReturns \/ BodyReturns \/ Disconnect
  \/ \E c \in DOMAIN answer : WebhookTakesEffect(c)
  \/ Ended /\ UNCHANGED vars

\* Prompt turns end (PromptTurn!TurnsEnd), a POST has a timeout, which its body has not,
\* and the runtime runs the turn's task.
Spec == Init /\ [][Next]_vars
Fairness == WF_vars(Prompted) /\ WF_vars(Proceed) /\ WF_vars(PostReturns)
FairSpec == Spec /\ Fairness

-----------------------------------------------------------------------------
ItemType == [type : {"none", "message", "reasoning", "call", "streamed_call", "agent_call"},
             nr : Nat, of : Nat \cup ToolIds]

\* The variables have their types, and a call is POSTed or told only of replies
\* the agent gave (bounds of the vectors and maps of orchestrate.rs).
TypeOK ==
  /\ req \in Requests
  /\ pc \in {"drain", "tools", "webhooks", "continuation", "schema", "retry",
             "answered", "failed", "dropped"}
  /\ Range(output) \cup Range(agentOutputs) \subseteq ItemType
  /\ \A e \in Range(sent) : e.index \in Nat /\ {e.item, e.held} \subseteq ItemType
  /\ toolIndex \in [ToolIds -> 0..Len(agentOutputs)]
  /\ Range(replies) \subseteq Replies /\ text \in 0..Len(replies)
  /\ steps \in 0..MaxToolSteps
  /\ \A c \in DOMAIN answer : /\ c[2] \in DOMAIN replies[c[1]].calls
                              /\ answer[c] \in {"waiting", "head", "ok", "err"}
  /\ Range(effects) \subseteq DOMAIN answer
  /\ \A t \in told : t[1] \in DOMAIN answer /\ t[2] \in {"output", "error"}
  /\ reason \in {"none", "max_output_tokens", "tool_calls", "max_tool_steps"}

\* The items of f and of g, whose domains are sets of indices, are the same, each
\* once, and in the same order.
SameOrder(f, g) ==
  /\ Range(f) = Range(g)
  /\ \A i, j \in DOMAIN f, k, l \in DOMAIN g :
       f[i] = g[k] /\ f[j] = g[l] => (i < j <=> k < l)

\* drain_stream keeps the same outputs as drain_sync does for the same events,
\* less the reasoning items.
Synced == FoldLeft(SyncStep, [out |-> <<>>, index |-> [id \in ToolIds |-> 0]], seen)
SyncedTools ==
  Restrict(Synced.out, {i \in DOMAIN Synced.out : Synced.out[i].type # "reasoning"})
StreamAgreesWithSync ==
  req.streaming /\ pc = "drain" => SameOrder(agentOutputs, SyncedTools)

\* When the indices of a stream can be right: text comes before other items or
\* not at all, every tool call comes before text and reasoning, and no update
\* comes before the start of its call.
Before(kinds, i) == \E j \in 1..i - 1 : seen[j].kind \in kinds
InOrder ==
  \A i \in DOMAIN seen :
    CASE seen[i].kind = "delta"   -> Before({"reasoning", "started"}, i) => seen[1].kind = "delta"
      [] seen[i].kind = "started" -> ~Before({"delta", "reasoning"}, i)
      [] seen[i].kind = "updated" -> \E j \in 1..i - 1 :
                                        seen[j].kind = "started" /\ seen[j].id = seen[i].id
      [] OTHER                    -> TRUE
PointsAtItem(e) == \/ e.held = e.item
                   \/ e.held.type = "message" /\ e.item.type = "message"
NamesItem(e) == e.item.type # "none"

\* The output_index of every event of the first reply points at the event's item
\* in the response the event carries (drain_stream's msg_index and the index of
\* apply_agent_tool_event) as long as the agent's events are in the order above;
\* the loop of emit_tool_sse_events always points at its call.
EventsPointAtTheirItems ==
  \A i \in DOMAIN sent : NamesItem(sent[i]) =>
    \/ PointsAtItem(sent[i])
    \/ ~InOrder /\ sent[i].item.type # "streamed_call"

\* What a client is streamed of the calls of its tools is what the answer then
\* lists, in items with other ids: in client mode each call once and in order; in
\* server mode none is streamed, although the answer lists them.
CallEventsSent(type) ==
  [i \in {n \in DOMAIN sent : sent[n].type = type /\ sent[n].item.type = "streamed_call"} |->
     CallOf(sent[i].item)]
CallsListed ==
  [i \in {n \in DOMAIN agentOutputs : agentOutputs[n].type = "call"} |-> CallOf(agentOutputs[i])]
StreamedCallsAreListed ==
  req.streaming /\ pc = "answered" =>
    \A type \in {"added", "args", "args_done", "done"} :
      SameOrder(CallEventsSent(type), IF req.mode = "server" THEN <<>> ELSE CallsListed)

\* A call is streamed whole: after it is added come its arguments, their end and its
\* own, at once, about the same item at the same index.
CallOrder == <<"added", "args", "args_done", "done">>
StreamedCallsAreWhole ==
  \A i \in DOMAIN sent : sent[i].type = "added" /\ sent[i].item.type = "streamed_call" =>
    \A k \in 2..4 : /\ i + k - 1 \in DOMAIN sent
                   /\ sent[i + k - 1] = [sent[i] EXCEPT !.type = CallOrder[k]]

\* Whatever the agent sends and in whatever order, a client that streams and one
\* that does not are given the same tool items, when the agent's own calls are
\* compared (the indices of mixed streams are another matter, see InOrder); the
\* calls streamed are those the answer lists, each whole and in its order, but
\* none of those of server mode (drain_sync, drain_stream, emit_tool_sse_events).
StreamTellsTheAnswer ==
  /\ StreamAgreesWithSync /\ StreamedCallsAreListed
  /\ req.streaming => StreamedCallsAreWhole

\* The agent is told the output of a call only if the call took effect, and told
\* an error only under the fallback; in a turn that was answered, an effect the
\* agent knows nothing of belongs to a step that fell back (tool_loop.rs:191).
ToldIsDone ==
  /\ \A t \in told : IF t[2] = "output" THEN t[1] \in Range(effects)
                     ELSE req.fallback /\ t[1][2] = 1
  /\ pc = "answered" =>
       \A c \in Range(effects) :
         <<c, "output">> \in told \/ <<<<c[1], 1>>, "error">> \in told

\* One after another and without the fallback, webhooks take effect in the order
\* in which the agent asked for them, also when POSTs time out and take effect late.
EffectsKeepOrder ==
  ~req.parallel /\ ~req.fallback =>
    \A i, j \in DOMAIN effects : i < j =>
      \/ effects[i][1] < effects[j][1]
      \/ effects[i][1] = effects[j][1] /\ effects[i][2] < effects[j][2]

\* A call an answer lists without having POSTed it is of the step at the limit, or
\* comes after a call that failed under the fallback.  No later step is POSTed.
UnsentCallsAreLast ==
  /\ \A c \in DOMAIN answer : c[1] <= MaxToolSteps
  /\ pc = "answered" /\ req.mode = "server" =>
       \A i \in DOMAIN agentOutputs :
         LET item == agentOutputs[i]
         IN  item.type = "call" /\ <<item.nr, item.of>> \notin DOMAIN answer =>
               \/ item.nr = MaxToolSteps + 1
               \/ req.fallback /\ \E j \in 1..item.of - 1 : answer[<<item.nr, j>>] = "err"

\* validate_detected_calls asks every reply for a call when the choice requires
\* one, also the reply after the webhooks: in server mode such a turn can only
\* fail or run into the limit.
RequiredTurnsEndAtLimit ==
  pc = "answered" /\ req.mode = "server" /\ Tools # {}
  /\ req.choice.kind \in {"required", "named"} =>
    steps = MaxToolSteps /\ reason # "none"

\* What is left undone at the limit, and what runs into it: calls are listed before
\* the limit is tested (tool_loop.rs:176-182), and a choice that requires a call is
\* tested against every reply of the loop (tool_loop.rs:168).
LimitCutsOff == UnsentCallsAreLast /\ RequiredTurnsEndAtLimit

\* With a json_schema the text of an answer satisfies it; a message of the answer
\* that does not is one listed before the retry (orchestrate.rs:285).
SchemaHoldsOfText ==
  pc = "answered" /\ req.schema =>
    /\ TextFits
    /\ \A i \in DOMAIN agentOutputs :
         agentOutputs[i].type = "message" =>
           replies[agentOutputs[i].nr].json \/ agentOutputs[i].nr = Len(replies) - 1

\* Every turn ends, for the loop has a step limit and every POST a timeout; unless it
\* waits for the body of a webhook's answer, which has none (tool_loop.rs:102-113).
AwaitsBody == \E c \in DOMAIN answer : answer[c] = "head"
TurnsComplete == <>[](Ended \/ AwaitsBody)
==============================================================================
