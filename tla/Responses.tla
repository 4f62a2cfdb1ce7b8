----------------------------- MODULE Responses -----------------------------
(***************************************************************************)
(* The Responses API: the life of a POST /v1/responses from the insertion  *)
(* of its row to the answer, the walk along previous_response_id that      *)
(* collects earlier tool outputs with one SELECT per step, and DELETE and  *)
(* GET on the same rows meanwhile.                                         *)
(*                                                                         *)
(* A response is named by the request that creates it.  Each request       *)
(* brings one tool output of its own, also named by the request; of the    *)
(* stored chain only tool outputs matter, for enrich_from_previous skips   *)
(* the other items.  SQLite statements may fail: a SELECT of the walk and  *)
(* the UPDATE at the end are WalkFails and Persist; an INSERT or a DELETE  *)
(* that fails is an error that changes nothing, and is no step here.       *)
(***************************************************************************)
EXTENDS Naturals, SequencesExt

CONSTANTS
  Req,       \* creates of a response
  None,      \* no previous response
  Outcomes   \* the statuses turns end with

ASSUME ResponsesAssumption ==
  /\ None \notin Req
  /\ Outcomes \subseteq {"completed", "incomplete"}

VARIABLES
  pc,       \* where each create is
  stream,   \* the request asks for a stream: it runs in a task of its own
  stored,   \* should_store
  prev,     \* previous_response_id
  row,      \* the responses table
  at,       \* the walk: the id looked up next ...
  seen,     \* ... the ids looked up already ...
  items,    \* ... and what was collected
  given,    \* the tool outputs the agent is given
  result,   \* the status of the response object that is answered
  deleted,  \* the responses DELETE answered "deleted": true for
  before    \* history: the responses that were completed when this one was created

vars == <<pc, stream, stored, prev, row, at, seen, items, given, result, deleted, before>>
request == <<stream, stored, prev, before>>
walk == <<at, seen, items>>

Absent == [status |-> "absent", body |-> "none", chain |-> <<>>]
Running == {"walk", "turn", "persist"}
Failed == {"notfound", "failed", "gone"}
Told == {"answered", "unsaved"}      \* the client has the completed response
Given == {"turn", "persist"} \cup Told

-----------------------------------------------------------------------------
Init ==
  /\ pc = [r \in Req |-> "new"]
  /\ stream = [r \in Req |-> FALSE]
  /\ stored = [r \in Req |-> FALSE]
  /\ prev = [r \in Req |-> None]
  /\ row = [r \in Req |-> Absent]
  /\ at = [r \in Req |-> None]
  /\ seen = [r \in Req |-> {}]
  /\ items = [r \in Req |-> <<>>]
  /\ given = [r \in Req |-> <<>>]
  /\ result = [r \in Req |-> "none"]
  /\ deleted = {}
  /\ before = [r \in Req |-> {}]

Goto(r, p) == pc' = [pc EXCEPT ![r] = p]

\* The ids clients have seen: of rows, which GET /v1/responses lists, of streams,
\* whose first event names the response, and of answers.
Known == {q \in Req : \/ row[q] # Absent
                      \/ stream[q] /\ pc[q] # "new"
                      \/ pc[q] = "answered"}

\* should_store: the client asks for it, or continues a response.
ShouldStore(wish, p) == wish \/ p # None

\* create: the row is inserted before anything else happens.
Create(r, p, wish, str) ==
  /\ pc[r] = "new"
  /\ prev' = [prev EXCEPT ![r] = p]
  /\ stream' = [stream EXCEPT ![r] = str]
  /\ stored' = [stored EXCEPT ![r] = ShouldStore(wish, p)]
  /\ row' = IF ShouldStore(wish, p)
              THEN [row EXCEPT ![r] = [Absent EXCEPT !.status = "in_progress"]]
              ELSE row
  /\ at' = [at EXCEPT ![r] = p]
  /\ before' = [before EXCEPT ![r] = {q \in Req : row[q].body # "none"}]
  /\ Goto(r, "walk")
  /\ UNCHANGED <<seen, items, given, result, deleted>>

HttpCreate(r) ==
  \E p \in Known \cup {None}, wish, str \in BOOLEAN : Create(r, p, wish, str)

\* Where the walk goes after the row of q; rows without a chain are passed over.
StepToWithoutGaps(q) == IF row[q].body = "none" THEN None ELSE prev[q]  \* mutant
StepTo(q) == prev[q]

\* chain_input_items, one SELECT: the row's chain is collected.
WalkStep(r) ==
  /\ pc[r] = "walk"
  /\ at[r] \in Req \ seen[r]
  /\ row[at[r]] # Absent
  /\ items' = [items EXCEPT ![r] = @ \o row[at[r]].chain]
  /\ seen' = [seen EXCEPT ![r] = @ \cup {at[r]}]
  /\ at' = [at EXCEPT ![r] = StepTo(at[r])]
  /\ UNCHANGED <<pc, request, row, given, result, deleted>>

\* ... "previous_response_id not found", as it must be when there is no such row, or the
\* SELECT fails: the create fails, its row stays in_progress.
WalkFails(r) ==
  /\ pc[r] = "walk"
  /\ at[r] \in Req \ seen[r]
  /\ Goto(r, "notfound")
  /\ UNCHANGED <<request, row, walk, given, result, deleted>>

\* The walk is over, its locals are dropped; the outputs follow the request's own,
\* those of the oldest row first.
GivenOfAllWalks(r) ==  \* mutant: the walks share one list of collected items
  <<r>> \o SetToSeq(UNION {ToSet(items[q]) : q \in Req})
GivenAfter(r) == <<r>> \o Reverse(items[r])

WalkEnds(r) ==
  /\ pc[r] = "walk"
  /\ at[r] \in {None} \cup seen[r]
  /\ given' = [given EXCEPT ![r] = GivenAfter(r)]
  /\ at' = [at EXCEPT ![r] = None]
  /\ seen' = [seen EXCEPT ![r] = {}]
  /\ items' = [items EXCEPT ![r] = <<>>]
  /\ Goto(r, "turn")
  /\ UNCHANGED <<request, row, result, deleted>>

\* execute_responses_turn returns; an unstored response is answered at once.
TurnOk(r) ==
  /\ pc[r] = "turn"
  /\ \E s \in Outcomes : result' = [result EXCEPT ![r] = s]
  /\ Goto(r, IF stored[r] THEN "persist" ELSE "answered")
  /\ UNCHANGED <<request, row, walk, given, deleted>>

TurnFails(r) ==
  /\ pc[r] = "turn"
  /\ Goto(r, "failed")
  /\ UNCHANGED <<request, row, walk, given, result, deleted>>

\* update_completed overwrites the status, whatever it has become.
Completed(r) == [status |-> result[r], body |-> result[r], chain |-> given[r]]
CompletedUnlessDeleted(r) ==  \* mutant: an UPDATE ... WHERE status = 'in_progress'
  IF row[r].status = "cancelled" THEN row[r] ELSE Completed(r)

CompletedAsBegun(r) ==  \* mutant: the object is stored before "incomplete" is set in it
  [Completed(r) EXCEPT !.body = "completed"]
PersistedRow(r) == Completed(r)

Written(W) == [r \in Req |-> IF r \in W THEN PersistedRow(r) ELSE row[r]]

\* The turn's outcome is stored, then answered.
Persist(r) ==
  /\ pc[r] = "persist"
  /\ row' = Written({r})
  /\ Goto(r, "answered")
  /\ UNCHANGED <<request, walk, given, result, deleted>>

\* The UPDATE fails: run_sync answers the error, run_stream ignores it and sends Completed.
PersistFails(r) ==
  /\ pc[r] = "persist"
  /\ Goto(r, IF stream[r] THEN "unsaved" ELSE "failed")
  /\ UNCHANGED <<request, row, walk, given, result, deleted>>

\* The client of a create that does not stream disconnects; an UPDATE under way is done
\* or not.
Disconnect(r) ==
  /\ pc[r] \in Running
  /\ ~stream[r]
  /\ \E W \in SUBSET {r} : (W # {} => pc[r] = "persist") /\ row' = Written(W)
  /\ Goto(r, "gone")
  /\ UNCHANGED <<request, walk, given, result, deleted>>

\* The server stops; the table survives, with the UPDATEs that came through.
Restart ==
  /\ \E r \in Req : pc[r] \in Running
  /\ pc' = [r \in Req |-> IF pc[r] \in Running THEN "gone" ELSE pc[r]]
  /\ \E W \in SUBSET {r \in Req : pc[r] = "persist"} : row' = Written(W)
  /\ UNCHANGED <<request, walk, given, result, deleted>>

\* DELETE: cancel marks the row and answers "deleted": true.
CancelledRow(q) == [row[q] EXCEPT !.status = "cancelled"]

Delete(q) ==
  /\ row[q] # Absent
  /\ row' = [row EXCEPT ![q] = CancelledRow(q)]
  /\ deleted' = deleted \cup {q}
  /\ UNCHANGED <<pc, request, walk, given, result>>

\* What GET answers for a row: the stored body, or else the status column.
View(q) == IF row[q].body # "none" THEN row[q].body ELSE row[q].status

-----------------------------------------------------------------------------
CreateStep(r) ==
  WalkStep(r) \/ WalkFails(r) \/ WalkEnds(r) \/ TurnOk(r) \/ TurnFails(r)
  \/ Persist(r) \/ PersistFails(r)

Finished ==
  /\ \A r \in Req : pc[r] \in Failed \cup Told
  /\ UNCHANGED vars

Next ==
  \/ \E r \in Req : HttpCreate(r) \/ CreateStep(r) \/ Disconnect(r) \/ Delete(r)
  \/ Restart
  \/ Finished

Spec == Init /\ [][Next]_vars

-----------------------------------------------------------------------------
TypeOK ==
  /\ pc \in [Req -> {"new"} \cup Running \cup Failed \cup Told]
  /\ stream \in [Req -> BOOLEAN]
  /\ stored \in [Req -> BOOLEAN]
  /\ prev \in [Req -> Req \cup {None}]
  /\ row \in [Req -> [status : {"absent", "in_progress", "cancelled"} \cup Outcomes,
                      body : {"none"} \cup Outcomes,
                      chain : Seq(Req)]]
  /\ at \in [Req -> Req \cup {None}]
  /\ seen \in [Req -> SUBSET Req]
  /\ items \in [Req -> Seq(Req)]
  /\ given \in [Req -> Seq(Req)]
  /\ result \in [Req -> {"none"} \cup Outcomes]
  /\ deleted \in SUBSET Req
  /\ before \in [Req -> SUBSET Req]

\* The responses r continues, nearest and farthest.
Ancestors(r) ==
  {q \in Req : \A S \in SUBSET Req :
     (\A s \in S \cup {r} : prev[s] \in S \cup {None}) => q \in S}

\* A row exists exactly for a create that should be stored, deleted or not, and its
\* status and body move only as far as its create and DELETE have got; an answer that is
\* in no row is one of a stream whose last UPDATE failed.
RowsFollowCreates ==
  /\ TypeOK
  /\ \A r \in Req :
       /\ row[r] = Absent <=> ~stored[r]
       /\ row[r].status = "in_progress" => pc[r] \in Running \cup Failed \cup {"unsaved"}
       /\ row[r].status = "cancelled" => r \in deleted
       /\ row[r].body # "none" => stored[r] /\ pc[r] \in {"answered", "gone"}
       /\ pc[r] = "answered" /\ stored[r] => row[r].body # "none"
       /\ pc[r] = "unsaved" => stream[r]

\* What GET shows as ended is the answer of a create that ended so; and an answer that was
\* stored is served by GET as it was given until a DELETE, whatever creates, disconnects
\* of others and restarts come in between.
AnsweredIsServed ==
  \A r \in Req :
    /\ View(r) \in Outcomes => View(r) = result[r] /\ pc[r] \in {"answered", "gone"}
    /\ stored[r] /\ pc[r] = "answered" /\ r \notin deleted => View(r) = result[r]

\* The agent is given the tool output of every response the request continues, near
\* or far, that was completed when the request came: also behind one that is still
\* running, has failed or was deleted.
CompletedOutputsReach ==
  \A r \in Req : pc[r] \in Given =>
    Ancestors(r) \cap before[r] \subseteq ToSet(given[r])

\* Nothing else is given to the agent: no output of a response not continued.
OnlyAncestorsAreGiven ==
  \A r \in Req : ToSet(given[r]) \subseteq Ancestors(r) \cup {r}

=============================================================================
