--------------------------- MODULE MCResponsesTurn ---------------------------
(***************************************************************************)
(* An instance of ResponsesTurn for TLC.  Three families of requests: the  *)
(* streams, in which the agent's events mix; the loops, whose first reply  *)
(* is text only; and the chat turns.                                       *)
(***************************************************************************)
EXTENDS ResponsesTurn

CONSTANTS a, b  \* tools

Choice(kind) == [kind |-> kind, name |-> Unnamed]
Named(tool)  == [kind |-> "named", name |-> tool]

Base == [api |-> "responses", streaming |-> FALSE, mode |-> "client", tools |-> {a},
         choice |-> Choice("auto"), parallel |-> FALSE, schema |-> FALSE,
         reasoning |-> FALSE, agentTools |-> FALSE, fallback |-> FALSE]

StreamRequests ==
  {[Base EXCEPT !.streaming = s, !.reasoning = TRUE, !.agentTools = TRUE,
                !.tools = t, !.schema = j] :
     s \in BOOLEAN, t \in {{}, {a}}, j \in BOOLEAN}

LoopRequests ==
  {[Base EXCEPT !.mode = "server", !.streaming = s, !.choice = c, !.parallel = p,
                !.fallback = f, !.schema = j] :
     s \in BOOLEAN, c \in {Choice("auto"), Choice("required")},
     p \in BOOLEAN, f \in BOOLEAN, j \in BOOLEAN}

ChoiceRequests ==
  {[Base EXCEPT !.mode = m, !.choice = c] :
     m \in {"client", "server"}, c \in {Choice("none"), Choice("required"), Named(a), Named(b)}}

ChatRequests ==
  {[Base EXCEPT !.api = "chat", !.mode = m, !.parallel = p, !.fallback = f] :
     m \in {"client", "server"}, p \in BOOLEAN, f \in BOOLEAN}

MCRequests == StreamRequests \cup LoopRequests \cup ChoiceRequests \cup ChatRequests

Call(tool) == [name |-> tool, fits |-> TRUE]
Words      == [words |-> TRUE, calls |-> <<>>, json |-> FALSE]
Json       == [words |-> TRUE, calls |-> <<>>, json |-> TRUE]
Empty      == [words |-> FALSE, calls |-> <<>>, json |-> FALSE]
Asks(s)    == [words |-> FALSE, calls |-> s, json |-> FALSE]

MCReplies == {Words, Json, Empty, Asks(<<Call(a)>>), Asks(<<Call(a), Call(a)>>),
              Asks(<<Call(a), Call(b)>>), Asks(<<[name |-> a, fits |-> FALSE]>>)}
==============================================================================
