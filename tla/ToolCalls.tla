------------------------------ MODULE ToolCalls ------------------------------
(***************************************************************************)
(* The function tools of a request, and the calls a reply of the agent     *)
(* asks for: tools/choice.rs, tools/detect.rs, tools/validate.rs and       *)
(* parse_calls of tool_loop.rs, as operators.                              *)
(*                                                                         *)
(* A reply is what the rest of the program can tell of the agent's text:   *)
(*   words  it has some text that is no call,                              *)
(*   calls  the call objects of its JSON payload, in order,                *)
(*   json   it satisfies the json_schema of the request.                   *)
(* A call object has the name it gives (Unnamed when it gives none), and   *)
(* fits says whether its arguments satisfy the schema of the tool.         *)
(***************************************************************************)
EXTENDS Integers, Sequences

CONSTANT ToolNames,  \* names of function tools
         Unnamed     \* a call object without a name; a choice that names none

ASSUME UnnamedIsNoTool == Unnamed \notin ToolNames

\* ResolvedToolChoice
ToolChoices == [kind : {"auto", "none", "required"}, name : {Unnamed}]
             \cup [kind : {"named"}, name : ToolNames]

CallObjects == [name : ToolNames \cup {Unnamed}, fits : BOOLEAN]
ReplyType   == [words : BOOLEAN, calls : Seq(CallObjects), json : BOOLEAN]

IsEmpty(reply) == ~reply.words /\ reply.calls = <<>>

\* filter_tools
FilterTools(tools, choice) ==
  CASE choice.kind = "none"  -> {}
    [] choice.kind = "named" -> tools \cap {choice.name}
    [] OTHER                 -> tools

\* require_tool_call
RequireToolCall(choice) == choice.kind \in {"required", "named"}

\* detect_tool_calls: every object of the payload must name a tool
DetectsCalls(reply, tools) ==
  \A i \in DOMAIN reply.calls : reply.calls[i].name \in tools

\* parse_and_validate_calls: and every call's arguments must fit the tool
ParsesCalls(reply, tools) ==
  /\ DetectsCalls(reply, tools)
  /\ \A i \in DOMAIN reply.calls : reply.calls[i].fits

\* validate_detected_calls
ValidatesCalls(calls, choice, tools) ==
  /\ choice.kind = "none" => calls = <<>>
  /\ RequireToolCall(choice) => calls # <<>>
  /\ choice.kind = "named" =>
       /\ \A i \in DOMAIN calls : calls[i].name = choice.name
       /\ choice.name \in tools

\* parse_calls returns Ok ...
CallsAccepted(reply, tools, choice) ==
  LET effective == FilterTools(tools, choice)
  IN  effective # {} => /\ ParsesCalls(reply, effective)
                        /\ ValidatesCalls(reply.calls, choice, effective)

\* ... of these calls.
CallsOf(reply, tools, choice) ==
  IF FilterTools(tools, choice) = {} THEN <<>> ELSE reply.calls
==============================================================================
