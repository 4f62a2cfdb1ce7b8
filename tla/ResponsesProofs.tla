-------------------------- MODULE ResponsesProofs --------------------------
(***************************************************************************)
(* Proofs about Responses, for all sets of creates: the life of the rows,  *)
(* and that the walk along previous_response_id collects the tool outputs  *)
(* of the responses continued, all of them and nothing else.  Then about   *)
(* WsSession, for all sets of connections: they are clients like others,   *)
(* and what they continue implicitly is complete.                          *)
(***************************************************************************)
EXTENDS WsSession, TLAPS

(* Sequences. *)

LEMMA ReverseType ==
  ASSUME NEW S, NEW s \in Seq(S)
  PROVE  Reverse(s) \in Seq(S)
BY DEF Reverse

LEMMA ReverseRange ==
  ASSUME NEW S, NEW s \in Seq(S)
  PROVE  ToSet(Reverse(s)) = ToSet(s)
<1>1. \A i \in 1..Len(s) : Len(s) - i + 1 \in 1..Len(s)
  OBVIOUS
<1>2. ToSet(Reverse(s)) \subseteq ToSet(s)
  BY <1>1 DEF Reverse, ToSet
<1>3. ASSUME NEW i \in DOMAIN s PROVE s[i] \in ToSet(Reverse(s))
  <2> DEFINE j == Len(s) - i + 1
  <2>1. i \in 1..Len(s)
    OBVIOUS
  <2>2. j \in 1..Len(s) /\ Len(s) - j + 1 = i
    BY <2>1
  <2>3. j \in DOMAIN Reverse(s) /\ Reverse(s)[j] = s[i]
    BY <2>2 DEF Reverse
  <2> QED BY <2>3 DEF ToSet
<1> QED BY <1>2, <1>3 DEF ToSet

LEMMA ConcatRange ==
  ASSUME NEW S, NEW s \in Seq(S), NEW t \in Seq(S)
  PROVE  ToSet(s \o t) = ToSet(s) \cup ToSet(t)
<1>1. s \o t \in Seq(S) /\ Len(s \o t) = Len(s) + Len(t)
  OBVIOUS
<1>2. ToSet(s \o t) \subseteq ToSet(s) \cup ToSet(t)
  <2>1. SUFFICES ASSUME NEW i \in 1..(Len(s) + Len(t))
                 PROVE  (s \o t)[i] \in ToSet(s) \cup ToSet(t)
    BY <1>1 DEF ToSet
  <2>2. CASE i <= Len(s)
    BY <2>2 DEF ToSet
  <2>3. CASE i > Len(s)
    <3>1. i - Len(s) \in 1..Len(t) /\ (s \o t)[i] = t[i - Len(s)]
      BY <2>3
    <3> QED BY <3>1 DEF ToSet
  <2> QED BY <2>2, <2>3
<1>3. ToSet(s) \subseteq ToSet(s \o t)
  <2>1. \A i \in 1..Len(s) : i \in 1..(Len(s) + Len(t)) /\ (s \o t)[i] = s[i]
    OBVIOUS
  <2> QED BY <1>1, <2>1 DEF ToSet
<1>4. ToSet(t) \subseteq ToSet(s \o t)
  <2>1. ASSUME NEW i \in 1..Len(t)
        PROVE  /\ Len(s) + i \in 1..(Len(s) + Len(t))
               /\ (s \o t)[Len(s) + i] = t[i]
    OBVIOUS
  <2>2. DOMAIN t = 1..Len(t) /\ DOMAIN (s \o t) = 1..(Len(s) + Len(t))
    BY <1>1
  <2>3. ASSUME NEW i \in DOMAIN t PROVE t[i] \in ToSet(s \o t)
    BY <2>1, <2>2 DEF ToSet
  <2> QED BY <2>3 DEF ToSet
<1> QED BY <1>2, <1>3, <1>4

LEMMA SingletonRange ==
  ASSUME NEW S, NEW x \in S
  PROVE  <<x>> \in Seq(S) /\ ToSet(<<x>>) = {x}
BY DEF ToSet

-----------------------------------------------------------------------------
(* The rows. *)

\* What a create has done so far.
Kept(r) ==
  /\ pc[r] = "new" => ~stored[r] /\ prev[r] = None /\ seen[r] = {}
  /\ pc[r] = "persist" => stored[r]
  /\ pc[r] \in {"persist"} \cup Told => result[r] \in Outcomes
  /\ row[r].body \in {"none", result[r]}
  /\ row[r].status \in Outcomes => row[r].body # "none"

Rows == RowsFollowCreates /\ \A r \in Req : Kept(r)

LEMMA StatusChange ==
  ASSUME NEW A, NEW B, NEW C, NEW x \in [status : A, body : B, chain : C], NEW a \in A
  PROVE  [x EXCEPT !.status = a] \in [status : A, body : B, chain : C]
OBVIOUS

LEMMA InitRows == Init => Rows
BY ResponsesAssumption
DEF Init, Rows, RowsFollowCreates, TypeOK, Kept, Absent, Running, Failed, Told

\* What UPDATEs at the end of creates do to the table, and what they leave alone.
LEMMA WritesKeep ==
  ASSUME Rows, NEW W \in SUBSET {q \in Req : pc[q] = "persist"}, row' = Written(W)
  PROVE  /\ row' \in [Req -> [status : {"absent", "in_progress", "cancelled"} \cup Outcomes,
                             body : {"none"} \cup Outcomes, chain : Seq(Req)]]
         /\ \A q \in Req : q \notin W => row'[q] = row[q]
         /\ \A q \in W : /\ stored[q] /\ result[q] \in Outcomes /\ row'[q] # Absent
                        /\ row'[q].status = result[q] /\ row'[q].body = result[q]
<1>1. \A q \in W : stored[q] /\ result[q] \in Outcomes /\ given[q] \in Seq(Req)
  BY DEF Rows, RowsFollowCreates, TypeOK, Kept
<1>2. \A q \in W : row'[q] = [status |-> result[q], body |-> result[q], chain |-> given[q]]
  BY DEF Written, PersistedRow, Completed
<1>3. \A q \in Req : q \notin W => row'[q] = row[q]
  BY DEF Written
<1>4. ASSUME NEW q \in W PROVE row'[q].status = result[q] /\ row'[q].body = result[q]
  <2>1. row'[q] = [status |-> result[q], body |-> result[q], chain |-> given[q]]
    BY <1>2
  <2> QED BY <2>1
<1>5. \A q \in W : row'[q] # Absent
  <2>1. ASSUME NEW q \in W PROVE row'[q].status # "absent"
    BY <1>1, <1>4, ResponsesAssumption
  <2> QED BY <2>1 DEF Absent
<1>6. row \in [Req -> [status : {"absent", "in_progress", "cancelled"} \cup Outcomes,
                      body : {"none"} \cup Outcomes, chain : Seq(Req)]]
  BY DEF Rows, RowsFollowCreates, TypeOK
<1>7. row' \in [Req -> [status : {"absent", "in_progress", "cancelled"} \cup Outcomes,
                       body : {"none"} \cup Outcomes, chain : Seq(Req)]]
  BY <1>1, <1>6 DEF Written, PersistedRow, Completed
<1> QED BY <1>1, <1>3, <1>4, <1>5, <1>7

LEMMA NextRows == Rows /\ [Next]_vars => Rows'
<1> SUFFICES ASSUME Rows, [Next]_vars PROVE Rows'
  OBVIOUS
<1> DEFINE Follows(q) ==
      /\ row'[q] = Absent <=> ~stored'[q]
      /\ row'[q].status = "in_progress" => pc'[q] \in Running \cup Failed \cup {"unsaved"}
      /\ row'[q].status = "cancelled" => q \in deleted'
      /\ row'[q].body # "none" => stored'[q] /\ pc'[q] \in {"answered", "gone"}
      /\ pc'[q] = "answered" /\ stored'[q] => row'[q].body # "none"
      /\ pc'[q] = "unsaved" => stream'[q]
      /\ Kept(q)'
<1> USE ResponsesAssumption
         DEF Rows, RowsFollowCreates, TypeOK, Kept, Absent, Running, Failed, Told, Goto,
             request, walk
<1>1. ASSUME NEW r \in Req, HttpCreate(r) PROVE Rows'
  <2>1. PICK p \in Known \cup {None}, wish \in BOOLEAN, str \in BOOLEAN :
               Create(r, p, wish, str)
    BY <1>1 DEF HttpCreate
  <2>2. p \in Req \cup {None} /\ ShouldStore(wish, p) \in BOOLEAN
    BY DEF Known, ShouldStore
  <2>3. TypeOK'
    BY <2>1, <2>2 DEF Create
  <2>4. ASSUME NEW q \in Req PROVE Follows(q)
    <3>1. CASE q = r
      <4>1. /\ pc'[r] = "walk" /\ stored'[r] = ShouldStore(wish, p)
            /\ row[r] = Absent /\ prev'[r] = p /\ UNCHANGED <<seen, result, deleted>>
        BY <2>1 DEF Create
      <4>2. row'[r] = IF stored'[r] THEN [Absent EXCEPT !.status = "in_progress"] ELSE Absent
        BY <2>1, <4>1 DEF Create
      <4>3. /\ row'[r].body = "none" /\ row'[r].status \in {"absent", "in_progress"}
            /\ row'[r] = Absent <=> ~stored'[r]
        BY <2>2, <4>1, <4>2
      <4> QED BY <3>1, <4>1, <4>3
    <3>2. CASE q # r
      BY <2>1, <2>2, <3>2 DEF Create
    <3> QED BY <3>1, <3>2
  <2> QED BY <2>3, <2>4
<1>2. ASSUME NEW r \in Req, WalkStep(r) PROVE Rows'
  <2>1. at[r] \in Req /\ prev[at[r]] \in Req \cup {None}
    BY <1>2 DEF WalkStep
  <2>2. TypeOK'
    <3> DEFINE found == items[r] \o row[at[r]].chain
    <3>1. found \in Seq(Req)
      BY <2>1
    <3>2. items' = [items EXCEPT ![r] = found]
      BY <1>2 DEF WalkStep
    <3> HIDE DEF found
    <3>3. items' \in [Req -> Seq(Req)]
      BY <3>1, <3>2
    <3>4. seen' \in [Req -> SUBSET Req] /\ at' \in [Req -> Req \cup {None}]
      BY <1>2, <2>1 DEF WalkStep, StepTo
    <3> QED BY <1>2, <3>3, <3>4 DEF WalkStep
  <2>3. /\ UNCHANGED <<pc, row, stored, stream, prev, result, deleted>> /\ pc[r] = "walk"
        /\ \A q \in Req : q # r => seen'[q] = seen[q]
    BY <1>2 DEF WalkStep
  <2>4. \A q \in Req : Kept(q)'
    BY <2>3
  <2> QED BY <2>2, <2>3, <2>4
<1>3. ASSUME NEW r \in Req, WalkFails(r) PROVE Rows'
  <2>1. /\ pc[r] = "walk" /\ pc' = [pc EXCEPT ![r] = "notfound"]
        /\ UNCHANGED <<stream, stored, prev, row, before, at, seen, items, given, result, deleted>>
    BY <1>3 DEF WalkFails
  <2>2. TypeOK'
    BY <2>1
  <2>3. \A q \in Req : Follows(q)
    BY <2>1
  <2> QED BY <2>2, <2>3
<1>4. ASSUME NEW r \in Req, WalkEnds(r) PROVE Rows'
  <2>1. GivenAfter(r) \in Seq(Req)
    BY ReverseType DEF GivenAfter
  <2>2. TypeOK'
    BY <1>4, <2>1 DEF WalkEnds
  <2> QED BY <1>4, <2>2 DEF WalkEnds
<1>5. ASSUME NEW r \in Req, TurnOk(r) PROVE Rows'
  <2>1. PICK x \in Outcomes : result' = [result EXCEPT ![r] = x]
    BY <1>5 DEF TurnOk
  <2>2. /\ pc[r] = "turn" /\ pc' = [pc EXCEPT ![r] = IF stored[r] THEN "persist" ELSE "answered"]
        /\ UNCHANGED <<stream, stored, prev, row, before, at, seen, items, given, deleted>>
    BY <1>5 DEF TurnOk
  <2>3. TypeOK'
    BY <2>1, <2>2
  <2>4. ASSUME NEW q \in Req PROVE Follows(q)
    <3>1. row[r].body = "none"
      BY <2>2
    <3> QED BY <2>1, <2>2, <3>1
  <2> QED BY <2>3, <2>4
<1>6. ASSUME NEW r \in Req, TurnFails(r) PROVE Rows'
  BY <1>6 DEF TurnFails
<1>7. ASSUME NEW r \in Req, Persist(r) PROVE Rows'
  <2>1. /\ {r} \in SUBSET {q \in Req : pc[q] = "persist"} /\ row' = Written({r})
        /\ pc' = [pc EXCEPT ![r] = "answered"]
        /\ UNCHANGED <<stream, stored, prev, before, at, seen, items, given, result, deleted>>
    BY <1>7 DEF Persist
  <2>w. /\ row' \in [Req -> [status : {"absent", "in_progress", "cancelled"} \cup Outcomes,
                            body : {"none"} \cup Outcomes, chain : Seq(Req)]]
        /\ \A q \in Req : q # r => row'[q] = row[q]
        /\ \A q \in {r} : /\ stored[q] /\ result[q] \in Outcomes /\ row'[q] # Absent
                         /\ row'[q].status = result[q] /\ row'[q].body = result[q]
    <3> DEFINE W == {r}
    <3>1. row' = Written(W) /\ W \in SUBSET {q \in Req : pc[q] = "persist"}
      BY <2>1
    <3>2. \A q \in Req : q \notin W <=> q # r
      OBVIOUS
    <3> HIDE DEF W
    <3>3. /\ row' \in [Req -> [status : {"absent", "in_progress", "cancelled"} \cup Outcomes,
                              body : {"none"} \cup Outcomes, chain : Seq(Req)]]
          /\ \A q \in Req : q \notin W => row'[q] = row[q]
          /\ \A q \in W : /\ stored[q] /\ result[q] \in Outcomes /\ row'[q] # Absent
                         /\ row'[q].status = result[q] /\ row'[q].body = result[q]
      BY <3>1, WritesKeep
    <3> QED BY <3>2, <3>3 DEF W
  <2>2. TypeOK'
    BY <2>w, <2>1
  <2>3. ASSUME NEW q \in Req PROVE Follows(q)
    <3>1. CASE q = r
      BY <2>1, <2>w, <3>1
    <3>2. CASE q # r
      <4>1. pc'[q] = pc[q]
        BY <2>1, <3>2
      <4>2. row'[q] = row[q]
        BY <2>w, <3>2
      <4> QED BY <2>1, <4>1, <4>2
    <3> QED BY <3>1, <3>2
  <2> QED BY <2>2, <2>3
<1>8. ASSUME NEW r \in Req, Disconnect(r) PROVE Rows'
  <2>1. PICK W \in SUBSET {r} : (W # {} => pc[r] = "persist") /\ row' = Written(W)
    BY <1>8 DEF Disconnect
  <2>2. /\ W \in SUBSET {q \in Req : pc[q] = "persist"}
        /\ pc' = [pc EXCEPT ![r] = "gone"] /\ pc[r] \in Running
        /\ UNCHANGED <<stream, stored, prev, before, at, seen, items, given, result, deleted>>
    BY <1>8, <2>1 DEF Disconnect
  <2>w. /\ row' \in [Req -> [status : {"absent", "in_progress", "cancelled"} \cup Outcomes,
                            body : {"none"} \cup Outcomes, chain : Seq(Req)]]
        /\ \A q \in Req : q \notin W => row'[q] = row[q]
        /\ \A q \in W : /\ stored[q] /\ result[q] \in Outcomes /\ row'[q] # Absent
                       /\ row'[q].status = result[q] /\ row'[q].body = result[q]
    BY WritesKeep, <2>1, <2>2
  <2>3. TypeOK'
    BY <2>w, <2>2
  <2>4. ASSUME NEW q \in Req PROVE Follows(q)
    <3>1. CASE q \in W
      <4>1. q = r
        BY <2>1, <3>1
      <4> QED BY <2>2, <2>w, <3>1, <4>1
    <3>2. CASE q \notin W
      <4>1. row'[q] = row[q] /\ pc'[q] \in {pc[q], "gone"} /\ (pc'[q] # pc[q] => pc[q] \in Running)
        BY <2>2, <2>w, <3>2
      <4> QED BY <2>2, <4>1
    <3> QED BY <3>1, <3>2
  <2> QED BY <2>3, <2>4
<1>9. ASSUME NEW r \in Req, Delete(r) PROVE Rows'
  <2>1. TypeOK'
    <3> DEFINE R == [status : {"absent", "in_progress", "cancelled"} \cup Outcomes,
                     body : {"none"} \cup Outcomes,
                     chain : Seq(Req)]
    <3>1. row[r] \in R
      OBVIOUS
    <3>2. CancelledRow(r) \in R
      BY <3>1, StatusChange DEF CancelledRow
    <3> HIDE DEF R
    <3>3. row' \in [Req -> R]
      BY <1>9, <3>2 DEF Delete, R
    <3> QED BY <1>9, <3>3 DEF Delete, R
  <2>2. /\ UNCHANGED <<pc, stored, stream, prev, seen, result>> /\ deleted' = deleted \cup {r}
        /\ row[r] # Absent /\ row'[r] = [row[r] EXCEPT !.status = "cancelled"]
        /\ \A q \in Req : q # r => row'[q] = row[q]
    BY <1>9 DEF Delete, CancelledRow
  <2>3. row'[r] # Absent /\ row'[r].status = "cancelled" /\ row'[r].body = row[r].body
    BY <2>2
  <2> HIDE DEF Absent
  <2>4. ASSUME NEW q \in Req PROVE Follows(q)
    <3>1. CASE q = r
      BY <2>2, <2>3, <3>1
    <3>2. CASE q # r
      BY <2>2, <3>2
    <3> QED BY <3>1, <3>2
  <2> QED BY <2>1, <2>4
<1>10. CASE Restart
  <2>1. PICK W \in SUBSET {q \in Req : pc[q] = "persist"} : row' = Written(W)
    BY <1>10 DEF Restart
  <2>2. /\ pc' = [q \in Req |-> IF pc[q] \in Running THEN "gone" ELSE pc[q]]
        /\ UNCHANGED <<stream, stored, prev, before, at, seen, items, given, result, deleted>>
    BY <1>10 DEF Restart
  <2>w. /\ row' \in [Req -> [status : {"absent", "in_progress", "cancelled"} \cup Outcomes,
                            body : {"none"} \cup Outcomes, chain : Seq(Req)]]
        /\ \A q \in Req : q \notin W => row'[q] = row[q]
        /\ \A q \in W : /\ stored[q] /\ result[q] \in Outcomes /\ row'[q] # Absent
                       /\ row'[q].status = result[q] /\ row'[q].body = result[q]
    BY WritesKeep, <2>1
  <2>3. TypeOK'
    BY <2>w, <2>2
  <2>4. ASSUME NEW q \in Req PROVE Follows(q)
    <3>1. CASE q \in W
      BY <2>2, <2>w, <3>1
    <3>2. CASE q \notin W
      <4>1. row'[q] = row[q] /\ pc'[q] \in {pc[q], "gone"} /\ (pc'[q] # pc[q] => pc[q] \in Running)
        BY <2>2, <2>w, <3>2
      <4> QED BY <2>2, <4>1
    <3> QED BY <3>1, <3>2
  <2> QED BY <2>3, <2>4
<1>11. CASE UNCHANGED vars
  BY <1>11 DEF vars
<1>12. ASSUME NEW r \in Req, PersistFails(r) PROVE Rows'
  BY <1>12 DEF PersistFails
<1> HIDE DEF Rows, RowsFollowCreates, TypeOK, Kept, Absent, Running, Failed, Told, Goto,
             request, walk
<1> QED
  BY <1>1, <1>2, <1>3, <1>4, <1>5, <1>6, <1>7, <1>8, <1>9, <1>10, <1>11,
     <1>12
  DEF Next, CreateStep, Finished

\* A row exists exactly for a create that stores, and update_completed and cancel
\* (responses.rs:109, :129) leave a status behind that says how far it got.
THEOREM RowsAreTrue == Spec => []RowsFollowCreates
<1>1. Rows => RowsFollowCreates
  BY DEF Rows
<1> QED BY <1>1, InitRows, NextRows, PTL DEF Spec

\* What GET shows as ended (orchestrator.rs:363) is what the create ended with, and a
\* stored answer is served so until a DELETE (routes.rs:604).
THEOREM AnswersAreServed == Spec => []AnsweredIsServed
<1>1. Rows => AnsweredIsServed
  BY ResponsesAssumption DEF Rows, RowsFollowCreates, TypeOK, Kept, AnsweredIsServed, View, Absent, Told
<1> QED BY <1>1, InitRows, NextRows, PTL DEF Spec

-----------------------------------------------------------------------------
(* Ancestors. *)

\* A set that has with r, and with each of its members, the response continued.
ClosedFor(S, r) == \A s \in S \cup {r} : prev[s] \in S \cup {None}

LEMMA AncestorsAreLeast ==
  ASSUME NEW r \in Req, NEW S \in SUBSET Req, ClosedFor(S, r)
  PROVE  Ancestors(r) \subseteq S
BY DEF Ancestors, ClosedFor

LEMMA AncestorsAreClosed ==
  ASSUME TypeOK, NEW r \in Req
  PROVE  Ancestors(r) \in SUBSET Req /\ ClosedFor(Ancestors(r), r)
<1>1. ASSUME NEW s \in Ancestors(r) \cup {r}, prev[s] # None
      PROVE  prev[s] \in Ancestors(r)
  <2>1. s \in Req /\ prev[s] \in Req
    BY <1>1 DEF TypeOK, Ancestors
  <2>2. ASSUME NEW S \in SUBSET Req, \A x \in S \cup {r} : prev[x] \in S \cup {None}
        PROVE  prev[s] \in S
    BY <1>1, <2>2 DEF Ancestors
  <2> QED BY <2>1, <2>2 DEF Ancestors
<1> QED BY <1>1 DEF Ancestors, ClosedFor

LEMMA AncestorsOfAncestors ==
  ASSUME TypeOK, NEW r \in Req, NEW q \in Ancestors(r)
  PROVE  Ancestors(q) \subseteq Ancestors(r)
<1>1. q \in Req /\ ClosedFor(Ancestors(r), q)
  BY AncestorsAreClosed DEF ClosedFor, Ancestors
<1> QED BY <1>1, AncestorsAreClosed, AncestorsAreLeast

-----------------------------------------------------------------------------
(* What the creates have collected. *)

\* Nothing but the outputs of ancestors is collected, given and stored.
Inherited(r) ==
  /\ at[r] \in Ancestors(r) \cup {None}
  /\ ToSet(items[r]) \subseteq Ancestors(r)
  /\ ToSet(given[r]) \subseteq Ancestors(r) \cup {r}
  /\ ToSet(row[r].chain) \subseteq Ancestors(r) \cup {r}

\* No create continues one that has not come: its ancestors do not change any more.
Continues(r) == prev[r] # None => pc[prev[r]] # "new"

\* A walk misses nothing: what it has seen leads nowhere but to where it stands, and
\* the completed rows among it have been collected.
Walked(r) ==
  /\ \A q \in seen[r] : pc[q] # "new"
  /\ pc[r] = "walk" =>
       /\ \A q \in seen[r] \cup {r} : prev[q] \in seen[r] \cup {at[r], None}
       /\ seen[r] \cap before[r] \subseteq ToSet(items[r])
  /\ \A q \in before[r] : row[q].body # "none"
  /\ row[r].body # "none" => r \in ToSet(row[r].chain)
  /\ pc[r] \in Given =>
       /\ r \in ToSet(given[r])
       /\ Ancestors(r) \cap before[r] \subseteq ToSet(given[r])

Collected ==
  Rows /\ \A r \in Req : Inherited(r) /\ Continues(r) /\ Walked(r)

LEMMA InitCollected == Init => Collected
<1> SUFFICES ASSUME Init PROVE Collected
  OBVIOUS
<1>1. Rows
  BY InitRows
<1>2. ToSet(<<>>) = {}
  BY DEF ToSet
<1>3. ASSUME NEW r \in Req PROVE Inherited(r) /\ Continues(r) /\ Walked(r)
  BY <1>2 DEF Init, Inherited, Continues, Walked, Absent, Given, Told
<1> QED BY <1>1, <1>3 DEF Collected

\* The previous id of a create that has come does not change.
LEMMA PrevStays ==
  ASSUME Rows, [Next]_vars, NEW q \in Req, pc[q] # "new"
  PROVE  pc'[q] # "new" /\ prev'[q] = prev[q]
<1> USE DEF Rows, RowsFollowCreates, TypeOK, Goto, request, Running, Failed, Told
<1>1. ASSUME NEW r \in Req, HttpCreate(r) PROVE pc'[q] # "new" /\ prev'[q] = prev[q]
  BY <1>1 DEF HttpCreate, Create
<1>2. ASSUME NEW r \in Req, CreateStep(r) PROVE pc'[q] # "new" /\ prev'[q] = prev[q]
  BY <1>2 DEF CreateStep, WalkStep, WalkFails, WalkEnds, TurnOk, TurnFails, Persist,
              PersistFails
<1>3. ASSUME NEW r \in Req, Disconnect(r) \/ Delete(r)
      PROVE  pc'[q] # "new" /\ prev'[q] = prev[q]
  BY <1>3 DEF Disconnect, Delete
<1>4. CASE Restart
  BY <1>4 DEF Restart
<1>5. CASE UNCHANGED vars
  BY <1>5 DEF vars
<1> HIDE DEF Rows, RowsFollowCreates, TypeOK, Goto, request, Running, Failed, Told
<1> QED BY <1>1, <1>2, <1>3, <1>4, <1>5 DEF Next, Finished

\* A stored answer stays, with its chain.
Stays(q) == row'[q].body # "none" /\ row'[q].chain = row[q].chain

LEMMA BodyStays ==
  ASSUME Rows, [Next]_vars, NEW q \in Req, row[q].body # "none"
  PROVE  Stays(q)
<1> USE DEF Stays
<1>1. /\ pc[q] \in {"answered", "gone"}
      /\ row \in [Req -> [status : {"absent", "in_progress", "cancelled"} \cup Outcomes,
                          body : {"none"} \cup Outcomes, chain : Seq(Req)]]
  BY DEF Rows, RowsFollowCreates, TypeOK
<1>2. ASSUME NEW r \in Req, HttpCreate(r) PROVE Stays(q)
  BY <1>1, <1>2 DEF HttpCreate, Create
<1>3. ASSUME NEW r \in Req, CreateStep(r) PROVE Stays(q)
  <2>1. CASE Persist(r)
    BY <1>1, <2>1 DEF Persist, Written
  <2>2. CASE ~Persist(r)
    BY <1>1, <1>3, <2>2
    DEF CreateStep, WalkStep, WalkFails, WalkEnds, TurnOk, TurnFails, PersistFails
  <2> QED BY <2>1, <2>2
<1>4. ASSUME NEW r \in Req, Disconnect(r) PROVE Stays(q)
  BY <1>1, <1>4 DEF Disconnect, Written
<1>5. ASSUME NEW r \in Req, Delete(r) PROVE Stays(q)
  BY <1>1, <1>5 DEF Delete, CancelledRow
<1>6. CASE Restart
  BY <1>1, <1>6 DEF Restart, Written
<1>7. CASE UNCHANGED vars
  BY <1>7 DEF vars
<1> HIDE DEF Stays
<1> QED BY <1>2, <1>3, <1>4, <1>5, <1>6, <1>7 DEF Next, Finished

\* The ancestors of a create that has come do not change, and those of one that
\* comes are not fewer than before.
LEMMA AncestorsStay ==
  ASSUME Collected, Rows', [Next]_vars, NEW r \in Req
  PROVE  /\ Ancestors(r) \subseteq Ancestors(r)'
         /\ pc[r] # "new" => Ancestors(r)' = Ancestors(r)
<1> DEFINE Old == {q \in Req : pc[q] # "new"}
<1>1. TypeOK /\ TypeOK'
  BY DEF Collected, Rows, RowsFollowCreates
<1>2. \A q \in Req : prev[q] \in Old \cup {None}
  BY <1>1 DEF Collected, Continues, TypeOK
<1>3. \A q \in Old : prev'[q] = prev[q]
  BY PrevStays DEF Collected
<1>4. \A q \in Req \ Old : prev[q] = None
  BY <1>1 DEF Collected, Rows, Kept
<1>5. ASSUME NEW S \in SUBSET Req, ClosedFor(S, r)' PROVE ClosedFor(S, r)
  BY <1>3, <1>4, <1>5 DEF ClosedFor
<1>6. Ancestors(r) \subseteq Ancestors(r)'
  BY <1>5 DEF Ancestors, ClosedFor
<1>7. ASSUME pc[r] # "new" PROVE Ancestors(r)' \subseteq Ancestors(r)
  <2>1. Ancestors(r) \subseteq Old
    <3>1. Old \in SUBSET Req /\ ClosedFor(Old, r)
      BY <1>2 DEF ClosedFor
    <3> HIDE DEF Old
    <3> QED BY <3>1, AncestorsAreLeast
  <2>2. Ancestors(r) \in SUBSET Req /\ ClosedFor(Ancestors(r), r)
    BY <1>1, AncestorsAreClosed
  <2>3. \A q \in Ancestors(r) \cup {r} : prev'[q] \in Ancestors(r) \cup {None}
    BY <1>3, <1>7, <2>1, <2>2 DEF ClosedFor
  <2> QED BY <2>2, <2>3 DEF Ancestors
<1> QED BY <1>6, <1>7

\* A step that leaves the locals of r alone, and its row or what the row keeps.
Spared(r) ==
  /\ at'[r] = at[r] /\ seen'[r] = seen[r] /\ items'[r] = items[r]
  /\ given'[r] = given[r] /\ before'[r] = before[r] /\ prev'[r] = prev[r]
  /\ \/ row'[r].body = row[r].body /\ row'[r].chain = row[r].chain
     \/ row'[r].chain = given[r] /\ pc[r] = "persist"
  /\ pc'[r] = "walk" => pc[r] = "walk"
  /\ pc'[r] \in Given => pc[r] \in Given

LEMMA SparedKeeps ==
  ASSUME Collected, Rows', [Next]_vars, NEW r \in Req, Spared(r)
  PROVE  Inherited(r)' /\ Continues(r)' /\ Walked(r)'
<1>1. TypeOK /\ TypeOK' /\ Inherited(r) /\ Continues(r) /\ Walked(r)
  BY DEF Collected, Rows, RowsFollowCreates
<1> USE DEF Spared
<1>2. Ancestors(r) \subseteq Ancestors(r)' /\ (pc[r] # "new" => Ancestors(r)' = Ancestors(r))
  BY AncestorsStay
<1>3. \A q \in Req : pc[q] # "new" => pc'[q] # "new" /\ prev'[q] = prev[q]
  BY PrevStays DEF Collected
<1>4. \A q \in Req : row[q].body # "none" => row'[q].body # "none" /\ row'[q].chain = row[q].chain
  BY BodyStays DEF Collected, Stays
<1>5. Inherited(r)'
  BY <1>1, <1>2 DEF Inherited
<1>6. Continues(r)'
  BY <1>1, <1>3 DEF Continues, TypeOK
<1>7. Walked(r)'
  <2>1. \A q \in seen'[r] : pc'[q] # "new"
    BY <1>1, <1>3 DEF Walked, TypeOK
  <2>2. pc'[r] = "walk" =>
          /\ \A q \in seen'[r] \cup {r} : prev'[q] \in seen'[r] \cup {at'[r], None}
          /\ seen'[r] \cap before'[r] \subseteq ToSet(items'[r])
    BY <1>1, <1>3 DEF Walked, TypeOK
  <2>3. \A q \in before'[r] : row'[q].body # "none"
    BY <1>1, <1>4 DEF Walked, TypeOK
  <2>4. row'[r].body # "none" => r \in ToSet(row'[r].chain)
    BY <1>1, <1>4 DEF Walked, Given
  <2>5. pc'[r] \in Given =>
          /\ r \in ToSet(given'[r])
          /\ Ancestors(r)' \cap before'[r] \subseteq ToSet(given'[r])
    BY <1>1, <1>2 DEF Walked, Given, Told
  <2> QED BY <2>1, <2>2, <2>3, <2>4, <2>5 DEF Walked
<1> QED BY <1>5, <1>6, <1>7

\* A create that comes continues a response clients have seen.
LEMMA CreateCollects ==
  ASSUME Collected, Rows', [Next]_vars, NEW r \in Req, HttpCreate(r)
  PROVE  Inherited(r)' /\ Continues(r)' /\ Walked(r)'
<1> USE ResponsesAssumption
<1>1. PICK p \in Known \cup {None}, wish \in BOOLEAN, str \in BOOLEAN :
             Create(r, p, wish, str)
  BY DEF HttpCreate
<1>2. TypeOK /\ TypeOK' /\ Inherited(r) /\ Walked(r) /\ Kept(r) /\ pc[r] = "new"
  BY <1>1 DEF Collected, Rows, RowsFollowCreates, Create
<1>3. at'[r] = p /\ prev'[r] = p /\ seen'[r] = {} /\ items'[r] = items[r]
      /\ given'[r] = given[r] /\ pc'[r] = "walk"
  BY <1>1, <1>2 DEF Create, Goto, TypeOK, Kept
<1>4. row'[r].chain \in {<<>>, row[r].chain} /\ row'[r].body = "none"
  <2>1. row[r] = Absent
    BY <1>2 DEF Collected, Rows, RowsFollowCreates, Kept
  <2> QED BY <1>1, <1>2, <2>1 DEF Create, TypeOK, Absent
<1>5. \A q \in Req : row[q].body # "none" => row'[q].body # "none"
  BY BodyStays DEF Collected, Stays
<1>6. ASSUME p # None PROVE p \in Req /\ pc[p] # "new"
  <2>1. p \in Req /\ (row[p] # Absent \/ pc[p] # "new")
    BY <1>6 DEF Known
  <2> QED BY <2>1 DEF Collected, Rows, RowsFollowCreates, Kept
<1>7. Ancestors(r) \subseteq Ancestors(r)'
  BY AncestorsStay
<1>8. p \in Ancestors(r)' \cup {None}
  <2>1. ClosedFor(Ancestors(r), r)'
    BY <1>2, AncestorsAreClosed, PTL
  <2> QED BY <1>3, <2>1 DEF ClosedFor
<1>9. Inherited(r)'
  <2>1. ToSet(<<>>) = {}
    BY DEF ToSet
  <2> QED BY <1>2, <1>3, <1>4, <1>7, <1>8, <2>1 DEF Inherited
<1>10. Continues(r)'
  BY <1>3, <1>6, PrevStays DEF Continues, Collected
<1>11. Walked(r)'
  <2>1. before'[r] = {q \in Req : row[q].body # "none"}
    BY <1>1, <1>2 DEF Create, TypeOK
  <2> QED BY <1>3, <1>4, <1>5, <2>1 DEF Walked, Given, Told
<1> QED BY <1>9, <1>10, <1>11

\* A SELECT of the walk.
LEMMA StepCollects ==
  ASSUME Collected, Rows', [Next]_vars, NEW r \in Req, WalkStep(r)
  PROVE  Inherited(r)' /\ Continues(r)' /\ Walked(r)'
<1>1. /\ TypeOK /\ Inherited(r) /\ Continues(r) /\ Walked(r)
      /\ Inherited(at[r]) /\ Walked(at[r]) /\ Kept(at[r])
      /\ row[at[r]] = Absent <=> ~stored[at[r]]
  BY DEF WalkStep, Collected, Rows, RowsFollowCreates
<1>2. /\ pc[r] = "walk" /\ at[r] \in Req /\ row[at[r]] # Absent
      /\ items'[r] = items[r] \o row[at[r]].chain
      /\ seen'[r] = seen[r] \cup {at[r]} /\ at'[r] = prev[at[r]]
      /\ UNCHANGED <<pc, prev, before, row, given>>
  BY <1>1 DEF WalkStep, StepTo, TypeOK, request
<1>3. \A q \in Req : Ancestors(q)' = Ancestors(q)
  BY <1>2 DEF Ancestors
<1>4. ToSet(items'[r]) = ToSet(items[r]) \cup ToSet(row[at[r]].chain)
  BY <1>1, <1>2, ConcatRange DEF TypeOK
<1>5. at[r] \in Ancestors(r) /\ Ancestors(at[r]) \subseteq Ancestors(r)
  BY <1>1, <1>2, AncestorsOfAncestors, ResponsesAssumption DEF Inherited
<1>6. prev[at[r]] \in Ancestors(r) \cup {None}
  BY <1>1, <1>5, AncestorsAreClosed DEF ClosedFor
<1>7. Inherited(r)'
  BY <1>1, <1>2, <1>3, <1>4, <1>5, <1>6 DEF Inherited
<1>8. Continues(r)'
  BY <1>1, <1>2 DEF Continues
<1>9. pc[at[r]] # "new"
  BY <1>1, <1>2 DEF Kept
<1>10. at[r] \in before[r] => at[r] \in ToSet(row[at[r]].chain)
  BY <1>1 DEF Walked
<1>11. Walked(r)'
  BY <1>1, <1>2, <1>3, <1>4, <1>9, <1>10 DEF Walked
<1> QED BY <1>7, <1>8, <1>11

\* At the end of the walk the ancestors have all been seen.
LEMMA EndCollects ==
  ASSUME Collected, Rows', [Next]_vars, NEW r \in Req, WalkEnds(r)
  PROVE  Inherited(r)' /\ Continues(r)' /\ Walked(r)'
<1>1. TypeOK /\ Inherited(r) /\ Continues(r) /\ Walked(r)
  BY DEF Collected, Rows, RowsFollowCreates
<1>2. /\ pc[r] = "walk" /\ at[r] \in {None} \cup seen[r] /\ given'[r] = GivenAfter(r)
      /\ at'[r] = None /\ seen'[r] = {} /\ items'[r] = <<>>
      /\ pc' = [pc EXCEPT ![r] = "turn"]
      /\ UNCHANGED <<prev, before, row>>
  BY <1>1 DEF WalkEnds, TypeOK, request, Goto
<1>3. Ancestors(r)' = Ancestors(r)
  BY <1>2 DEF Ancestors
<1>4. ToSet(given'[r]) = {r} \cup ToSet(items[r])
  <2>1. items[r] \in Seq(Req)
    BY <1>1 DEF TypeOK
  <2>2. Reverse(items[r]) \in Seq(Req) /\ ToSet(Reverse(items[r])) = ToSet(items[r])
    BY <2>1, ReverseType, ReverseRange
  <2> DEFINE own == <<r>>
  <2>3. own \in Seq(Req) /\ ToSet(own) = {r}
    BY SingletonRange
  <2>4. given'[r] = own \o Reverse(items[r])
    BY <1>2 DEF GivenAfter
  <2> HIDE DEF own
  <2> QED BY <2>2, <2>3, <2>4, ConcatRange
<1>5. Ancestors(r) \subseteq seen[r]
  <2>1. seen[r] \in SUBSET Req /\ ClosedFor(seen[r], r)
    BY <1>1, <1>2 DEF TypeOK, Walked, ClosedFor
  <2> QED BY <2>1, AncestorsAreLeast
<1>6. ToSet(<<>>) = {}
  BY DEF ToSet
<1>7. Inherited(r)'
  BY <1>1, <1>2, <1>3, <1>4, <1>6 DEF Inherited
<1>8. Continues(r)'
  BY <1>1, <1>2 DEF Continues, TypeOK
<1>9. Walked(r)'
  BY <1>1, <1>2, <1>3, <1>4, <1>5 DEF Walked, TypeOK
<1> QED BY <1>7, <1>8, <1>9

\* The other steps spare r.
LEMMA OthersSpare ==
  ASSUME TypeOK, NEW r \in Req, NEW q \in Req,
         \/ HttpCreate(q) /\ q # r
         \/ WalkStep(q) /\ q # r
         \/ WalkEnds(q) /\ q # r
         \/ WalkFails(q) \/ TurnOk(q) \/ TurnFails(q)
         \/ Persist(q) \/ PersistFails(q) \/ Disconnect(q) \/ Delete(q)
  PROVE  Spared(r)
<1> USE DEF Spared, TypeOK, Goto, request, walk, Running, Given, Told
<1>1. CASE HttpCreate(q) /\ q # r
  BY <1>1 DEF HttpCreate, Create
<1>2. CASE WalkStep(q) /\ q # r
  BY <1>2 DEF WalkStep
<1>3. CASE WalkEnds(q) /\ q # r
  BY <1>3 DEF WalkEnds
<1>4. CASE WalkFails(q)
  BY <1>4 DEF WalkFails
<1>5. CASE TurnOk(q)
  BY <1>5 DEF TurnOk
<1>6. CASE TurnFails(q)
  BY <1>6 DEF TurnFails
<1>7. CASE Persist(q)
  BY <1>7 DEF Persist, Written, PersistedRow, Completed
<1>8. CASE Disconnect(q)
  BY <1>8 DEF Disconnect, Written, PersistedRow, Completed
<1>9. CASE Delete(q)
  <2>1. CASE q = r
    BY <1>9, <2>1 DEF Delete, CancelledRow
  <2>2. CASE q # r
    BY <1>9, <2>2 DEF Delete
  <2> QED BY <2>1, <2>2
<1>10. CASE PersistFails(q)
  BY <1>10 DEF PersistFails
<1> QED BY <1>1, <1>2, <1>3, <1>4, <1>5, <1>6, <1>7, <1>8, <1>9, <1>10

LEMMA NextCollected == Collected /\ [Next]_vars => Collected'
<1> SUFFICES ASSUME Collected, [Next]_vars PROVE Collected'
  OBVIOUS
<1> DEFINE Good(r) == Inherited(r)' /\ Continues(r)' /\ Walked(r)'
<1>1. Rows /\ Rows' /\ TypeOK
  BY NextRows DEF Collected, Rows, RowsFollowCreates
<1>2. ASSUME NEW r \in Req PROVE Good(r)
  <2>1. ASSUME Spared(r) PROVE Good(r)
    BY <1>1, <2>1, SparedKeeps
  <2>2. ASSUME HttpCreate(r) PROVE Good(r)
    BY <1>1, <2>2, CreateCollects
  <2>3. ASSUME WalkStep(r) PROVE Good(r)
    BY <1>1, <2>3, StepCollects
  <2>4. ASSUME WalkEnds(r) PROVE Good(r)
    BY <1>1, <2>4, EndCollects
  <2>5. CASE Restart
    BY <1>1, <2>1, <2>5
    DEF Restart, Spared, TypeOK, request, walk, Running, Given, Told, Written,
        PersistedRow, Completed
  <2>6. CASE UNCHANGED vars
    BY <2>1, <2>6 DEF Spared, vars
  <2> HIDE DEF Good
  <2> QED
    BY <1>1, <2>1, <2>2, <2>3, <2>4, <2>5, <2>6, OthersSpare
    DEF Next, CreateStep, Finished
<1> QED BY <1>1, <1>2 DEF Collected

\* The agent is given the tool output of every completed response that the request
\* continues, although chain_input_items (responses.rs:188) reads row by row while
\* those rows are completed, cancelled and continued.
THEOREM OutputsReach == Spec => []CompletedOutputsReach
<1>1. Collected => CompletedOutputsReach
  BY DEF Collected, Walked, CompletedOutputsReach
<1> QED BY <1>1, InitCollected, NextCollected, PTL DEF Spec

\* ... and no other response's: chains of other conversations stay out.
THEOREM OnlyAncestorsGive == Spec => []OnlyAncestorsAreGiven
<1>1. Collected => OnlyAncestorsAreGiven
  BY DEF Collected, Inherited, OnlyAncestorsAreGiven
<1> QED BY <1>1, InitCollected, NextCollected, PTL DEF Spec

-----------------------------------------------------------------------------
(* The connections. *)

\* The states of the connections, with the types of what they keep.
InStep ==
  /\ SessionsKeepInStep
  /\ cur \in [Conn -> Req \cup {None}]
  /\ last \in [Conn -> Req \cup {None}]
  /\ inFlight \in [Conn -> BOOLEAN]
  /\ implicit \in SUBSET Req

\* A message is a create that names a response its client may know: the one it
\* names, or the last one the connection saw answered.
LEMMA AcceptCreates ==
  ASSUME InStep, NEW c \in Conn, NEW r \in Req, Accept(c, r)
  PROVE  \E p \in Known \cup {None}, wish \in BOOLEAN :
           LET q == IF p = None THEN ImplicitPrevious(c) ELSE p IN
           /\ q \in Known \cup {None}
           /\ Create(r, q, wish, FALSE)
           /\ implicit' = IF p = None /\ q # None THEN implicit \cup {r} ELSE implicit
           /\ p = None /\ q # None => q \in Req /\ pc[q] = "answered"
<1>1. PICK p \in Known \cup {None}, wish \in BOOLEAN :
         LET q == IF p = None THEN ImplicitPrevious(c) ELSE p IN
         /\ Create(r, q, wish, FALSE)
         /\ implicit' = IF p = None /\ q # None THEN implicit \cup {r} ELSE implicit
  BY DEF Accept
<1>2. last[c] # None => last[c] \in Req /\ pc[last[c]] = "answered"
  BY DEF InStep, SessionsKeepInStep
<1>3. last[c] \in Known \cup {None}
  BY <1>2 DEF Known
<1> QED BY <1>1, <1>2, <1>3 DEF ImplicitPrevious

LEMMA WsStepsAreSteps == InStep /\ [WsNext]_wsVars => [Next]_vars
<1> SUFFICES ASSUME InStep, [WsNext]_wsVars PROVE [Next]_vars
  OBVIOUS
<1>1. ASSUME NEW r \in Req, Http(r) PROVE Next
  BY <1>1 DEF Http, Next
<1>2. ASSUME NEW c \in Conn, NEW r \in Req, Accept(c, r) PROVE Next
  <2>1. HttpCreate(r)
    BY <1>2, AcceptCreates DEF HttpCreate
  <2> QED BY <2>1 DEF Next
<1>3. ASSUME NEW c \in Conn, Reply(c) \/ CloseSocket(c) PROVE UNCHANGED vars
  BY <1>3 DEF Reply, CloseSocket
<1>4. CASE WsRestart
  BY <1>4 DEF WsRestart, Next
<1>5. CASE WsFinished
  BY <1>5 DEF WsFinished, Next
<1> QED BY <1>1, <1>2, <1>3, <1>4, <1>5 DEF WsNext, wsVars

LEMMA AnsweredStays ==
  ASSUME Rows, [Next]_vars, NEW q \in Req, pc[q] = "answered"
  PROVE  pc'[q] = "answered" /\ prev'[q] = prev[q] /\ stored'[q] = stored[q]
<1> USE DEF Rows, RowsFollowCreates, TypeOK, Goto, request, Running, Failed, Told
<1> DEFINE Unmoved == pc'[q] = "answered" /\ prev'[q] = prev[q] /\ stored'[q] = stored[q]
<1>1. ASSUME NEW r \in Req, HttpCreate(r) PROVE Unmoved
  BY <1>1 DEF HttpCreate, Create
<1>2. ASSUME NEW r \in Req, CreateStep(r) PROVE Unmoved
  BY <1>2 DEF CreateStep, WalkStep, WalkFails, WalkEnds, TurnOk, TurnFails, Persist,
              PersistFails
<1>3. ASSUME NEW r \in Req, Disconnect(r) \/ Delete(r) PROVE Unmoved
  BY <1>3 DEF Disconnect, Delete
<1>4. CASE Restart
  BY <1>4 DEF Restart
<1>5. CASE UNCHANGED vars
  BY <1>5 DEF vars
<1> HIDE DEF Rows, RowsFollowCreates, TypeOK, Goto, request, Running, Failed, Told
<1> QED BY <1>1, <1>2, <1>3, <1>4, <1>5 DEF Next, Finished

LEMMA InitInStep == WsInit => InStep
BY DEF WsInit, InStep, SessionsKeepInStep

LEMMA NextInStep == Rows /\ InStep /\ [WsNext]_wsVars => InStep'
<1> SUFFICES ASSUME Rows, InStep, [WsNext]_wsVars PROVE InStep'
  OBVIOUS
<1>0. \A q \in Req : pc[q] = "answered" => pc'[q] = "answered"
  BY AnsweredStays, WsStepsAreSteps
<1>1. CASE UNCHANGED session
  <2>1. \A c \in Conn : last[c] # None => last[c] \in Req
    BY DEF InStep
  <2> QED BY <1>0, <1>1, <2>1 DEF session, InStep, SessionsKeepInStep
<1>2. ASSUME NEW c \in Conn, NEW r \in Req, Accept(c, r) PROVE InStep'
  <2>1. /\ cur' = [cur EXCEPT ![c] = r] /\ inFlight' = [inFlight EXCEPT ![c] = TRUE]
        /\ sock' = [sock EXCEPT ![c] = "busy"] /\ last' = last /\ r # None
        /\ implicit' \in {implicit, implicit \cup {r}}
    BY <1>2, ResponsesAssumption DEF Accept
  <2> QED BY <1>0, <2>1 DEF InStep, SessionsKeepInStep
<1>3. ASSUME NEW c \in Conn, Reply(c) PROVE InStep'
  <2>1. /\ sock[c] = "busy" /\ UNCHANGED <<pc, implicit>>
        /\ last' = [last EXCEPT ![c] = Remember(c)]
        /\ inFlight' = [inFlight EXCEPT ![c] = FALSE]
        /\ cur' = [cur EXCEPT ![c] = None] /\ sock' = [sock EXCEPT ![c] = "idle"]
    BY <1>3 DEF Reply, AfterError, vars
  <2>2. /\ Remember(c) \in Req \cup {None}
        /\ Remember(c) # None => pc[Remember(c)] = "answered"
    BY <2>1 DEF InStep, SessionsKeepInStep, Remember
  <2> QED BY <2>1, <2>2 DEF InStep, SessionsKeepInStep
<1>4. ASSUME NEW c \in Conn, CloseSocket(c) PROVE InStep'
  BY <1>4 DEF CloseSocket, InStep, SessionsKeepInStep, vars
<1>5. CASE WsRestart
  BY <1>0, <1>5 DEF WsRestart, InStep, SessionsKeepInStep
<1> QED BY <1>1, <1>2, <1>3, <1>4, <1>5 DEF WsNext, Http, WsFinished, wsVars

LEMMA WsHolds == WsSpec => [](Rows /\ InStep)
<1>1. WsInit => Rows /\ InStep
  BY InitRows, InitInStep DEF WsInit
<1>2. Rows /\ InStep /\ [WsNext]_wsVars => Rows' /\ InStep'
  BY NextRows, NextInStep, WsStepsAreSteps
<1> QED BY <1>1, <1>2, PTL DEF WsSpec

\* A connection is in flight exactly while its task runs a create, and remembers
\* only responses that were answered (ws.rs).
THEOREM SessionsStayInStep == WsSpec => []SessionsKeepInStep
<1>1. InStep => SessionsKeepInStep
  BY DEF InStep
<1> QED BY <1>1, WsHolds, PTL

\* To the store, connections are clients like those of POST /v1/responses: whatever
\* is proved of Responses holds beside them, too.
THEOREM ConnectionsAreClients == WsSpec => Spec
<1>1. WsInit => Init
  BY DEF WsInit
<1>2. Rows /\ InStep /\ [WsNext]_wsVars => [Next]_vars
  BY WsStepsAreSteps
<1> QED BY <1>1, <1>2, WsHolds, PTL DEF WsSpec, Spec

\* What a message continues implicitly was complete when the message came; or it was
\* not stored, and then the walk fails at its first step.
FindsPrevious(r) ==
  LET p == prev[r] IN
  /\ p \in Req
  /\ pc[p] = "answered"
  /\ pc[r] # "new"
  /\ stored[p] => p \in before[r]
  /\ ~stored[p] => /\ pc[r] \in {"walk"} \cup Failed
                   /\ pc[r] = "walk" => at[r] = p /\ seen[r] = {}

Implicit == \A r \in implicit : FindsPrevious(r)

LEMMA FindStays ==
  ASSUME Rows, [Next]_vars, NEW r \in Req, FindsPrevious(r)
  PROVE  FindsPrevious(r)'
<1> DEFINE p == prev[r]
<1>1. p \in Req /\ pc[p] = "answered" /\ pc[r] # "new"
  BY DEF FindsPrevious
<1>2. /\ pc'[p] = "answered" /\ stored'[p] = stored[p]
      /\ pc'[r] # "new" /\ prev'[r] = p
  BY <1>1, AnsweredStays, PrevStays
<1> HIDE DEF p
<1>3. before'[r] = before[r]
  <2>1. ASSUME NEW q \in Req, HttpCreate(q) PROVE before'[r] = before[r]
    BY <1>1, <2>1 DEF HttpCreate, Create, Rows, RowsFollowCreates, TypeOK
  <2> QED BY <2>1
      DEF Next, CreateStep, WalkStep, WalkFails, WalkEnds, TurnOk, TurnFails, Persist,
          PersistFails, Disconnect, Delete, Restart, Finished, vars, request
<1>4. ASSUME ~stored[p]
      PROVE  /\ pc'[r] \in {"walk"} \cup Failed
             /\ pc'[r] = "walk" => at'[r] = p /\ seen'[r] = {}
  <2>1. /\ row[p] = Absent /\ pc[r] \in {"walk"} \cup Failed
        /\ pc[r] = "walk" => at[r] = p /\ seen[r] = {}
        /\ pc \in [Req -> {"new"} \cup Running \cup Failed \cup Told]
        /\ p # None
    BY <1>1, <1>4, ResponsesAssumption DEF FindsPrevious, Rows, RowsFollowCreates, TypeOK, p
  <2> USE <2>1 DEF Goto, Running, Failed, Told
  <2>2. ASSUME NEW q \in Req, HttpCreate(q) PROVE UNCHANGED <<pc[r], at[r], seen[r]>>
    BY <1>1, <2>2 DEF HttpCreate, Create, Rows, RowsFollowCreates, TypeOK
  <2>3. ASSUME NEW q \in Req, q # r, CreateStep(q)
        PROVE  UNCHANGED <<pc[r], at[r], seen[r]>>
    BY <2>3 DEF CreateStep, WalkStep, WalkFails, WalkEnds, TurnOk, TurnFails, Persist,
                PersistFails,
                Rows, RowsFollowCreates, TypeOK, walk
  <2>4. ~WalkStep(r) /\ ~WalkEnds(r)
    BY <1>1 DEF WalkStep, WalkEnds
  <2>5. ASSUME WalkFails(r) PROVE pc'[r] = "notfound"
    BY <2>5 DEF WalkFails
  <2>6. ~TurnOk(r) /\ ~TurnFails(r) /\ ~Persist(r) /\ ~PersistFails(r)
    BY DEF TurnOk, TurnFails, Persist, PersistFails
  <2>7. ASSUME NEW q \in Req, Disconnect(q)
        PROVE  UNCHANGED <<at, seen>> /\ pc'[r] \in {pc[r], "gone"}
    BY <2>7 DEF Disconnect, walk
  <2>8. ASSUME NEW q \in Req, Delete(q) PROVE UNCHANGED <<pc, at, seen>>
    BY <2>8 DEF Delete, walk
  <2>9. ASSUME Restart PROVE UNCHANGED <<at, seen>> /\ pc'[r] \in {pc[r], "gone"}
    BY <2>9 DEF Restart, walk
  <2>10. ASSUME UNCHANGED vars PROVE UNCHANGED <<pc, at, seen>>
    BY <2>10 DEF vars
  <2> QED BY <2>2, <2>3, <2>4, <2>5, <2>6, <2>7, <2>8, <2>9, <2>10
          DEF Next, CreateStep, Finished
<1> QED BY <1>1, <1>2, <1>3, <1>4 DEF FindsPrevious, p

LEMMA NextImplicit == Rows /\ InStep /\ Implicit /\ [WsNext]_wsVars => Implicit'
<1> SUFFICES ASSUME Rows, InStep, Implicit, [WsNext]_wsVars PROVE Implicit'
  OBVIOUS
<1>0. [Next]_vars /\ \A r \in implicit : r \in Req
  BY WsStepsAreSteps DEF InStep
<1>1. \A r \in implicit : FindsPrevious(r)'
  BY <1>0, FindStays DEF Implicit
<1>2. CASE implicit' = implicit
  BY <1>1, <1>2 DEF Implicit
<1>3. ASSUME NEW c \in Conn, NEW r \in Req, Accept(c, r) PROVE Implicit'
  <2>1. PICK p \in Known \cup {None}, wish \in BOOLEAN :
           LET q == IF p = None THEN ImplicitPrevious(c) ELSE p IN
           /\ q \in Known \cup {None}
           /\ Create(r, q, wish, FALSE)
           /\ implicit' = IF p = None /\ q # None THEN implicit \cup {r} ELSE implicit
           /\ p = None /\ q # None => q \in Req /\ pc[q] = "answered"
    BY <1>3, AcceptCreates
  <2>2. CASE p = None /\ ImplicitPrevious(c) # None
    <3> DEFINE q == ImplicitPrevious(c)
    <3>1. /\ q \in Req /\ pc[q] = "answered" /\ Create(r, q, wish, FALSE) /\ q # None
          /\ implicit' = implicit \cup {r}
      BY <2>1, <2>2
    <3> HIDE DEF q
    <3>2. /\ pc[r] = "new" /\ prev'[r] = q /\ at'[r] = q /\ seen'[r] = {} /\ pc'[r] = "walk"
          /\ before'[r] = {x \in Req : row[x].body # "none"}
          /\ q # r /\ pc'[q] = "answered" /\ stored'[q] = stored[q]
      BY <3>1 DEF Create, Goto, Rows, RowsFollowCreates, TypeOK, Kept
    <3>3. stored[q] => q \in before'[r]
      BY <3>1, <3>2 DEF Rows, RowsFollowCreates
    <3>4. FindsPrevious(r)'
      BY <3>1, <3>2, <3>3 DEF FindsPrevious
    <3> QED BY <1>1, <3>1, <3>4 DEF Implicit
  <2> QED BY <1>2, <2>1, <2>2
<1> QED BY <1>2, <1>3
        DEF WsNext, Http, Reply, CloseSocket, WsRestart, WsFinished, wsVars, session

\* An implicit continuation that gets as far as its turn has the output of the
\* response it continues, although nothing checks that this was stored (ws.rs).
THEOREM ImplicitContinuationsSee == WsSpec => []ImplicitSeesItsPrevious
<1>1. WsInit => Implicit
  BY DEF WsInit, Implicit
<1>2. WsSpec => []CompletedOutputsReach
  BY ConnectionsAreClients, OutputsReach, PTL
<1>3. Rows /\ InStep /\ Implicit /\ CompletedOutputsReach => ImplicitSeesItsPrevious
  <2> SUFFICES ASSUME Rows, InStep, Implicit, CompletedOutputsReach,
                      NEW r \in implicit, pc[r] \in Given
               PROVE  prev[r] \in ToSet(given[r])
    BY DEF ImplicitSeesItsPrevious
  <2>1. r \in Req /\ FindsPrevious(r)
    BY DEF InStep, Implicit
  <2>2. prev[r] \in Req /\ prev[r] # None /\ prev[r] \in before[r]
    BY <2>1, ResponsesAssumption DEF FindsPrevious, Failed, Given, Told
  <2>3. prev[r] \in Ancestors(r)
    BY <2>1, <2>2 DEF Ancestors
  <2> QED BY <2>1, <2>2, <2>3 DEF CompletedOutputsReach
<1> QED BY <1>1, <1>2, <1>3, WsHolds, NextImplicit, PTL DEF WsSpec
=============================================================================
