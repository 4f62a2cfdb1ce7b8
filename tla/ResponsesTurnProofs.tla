------------------------- MODULE ResponsesTurnProofs -------------------------
(***************************************************************************)
(* Proofs about ResponsesTurn, for all requests, replies and numbers of    *)
(* tool steps: what the agent is told of its calls, in which order they    *)
(* take effect, what the limit cuts off, what a json_schema holds of, what *)
(* a client is streamed, and where the indices of its events point.        *)
(***************************************************************************)
EXTENDS ResponsesTurn, TLAPS, WellFoundedInduction

Over == {"failed", "dropped"}

EventType == [kind : {"delta", "reasoning", "started", "updated"}, id : ToolIds, nr : Nat]

\* The types of what the loop works on.
LoopTypes ==
  /\ req \in Requests
  /\ pc \in {"drain", "tools", "webhooks", "continuation", "schema", "retry",
             "answered"} \cup Over
  /\ seen \in Seq(EventType)
  /\ agentOutputs \in Seq(ItemType)
  /\ replies \in Seq(Replies)
  /\ text \in 0..Len(replies)
  /\ steps \in 0..MaxToolSteps
  /\ DOMAIN answer \subseteq Nat \X Nat
  /\ answer \in [DOMAIN answer -> {"waiting", "head", "ok", "err"}]
  /\ effects \in Seq(DOMAIN answer)
  /\ told \subseteq (DOMAIN answer) \X {"output", "error"}

\* The loop gives a reply a number, and runs the webhooks of the step of that number.
Numbers ==
  /\ pc = "drain" => replies = <<>> /\ text = 0 /\ steps = 0 /\ DOMAIN answer = {}
  /\ pc \notin {"drain"} \cup Over => Len(replies) >= 1
  /\ pc = "tools" => Len(replies) = steps + 1 /\ text = Len(replies)
  /\ pc \in {"webhooks", "continuation"} => Len(replies) = steps
  /\ \A c \in DOMAIN answer : c[1] \in 1..steps /\ c[2] >= 1

\* The calls of the step under way have been POSTed: all at once, or one after another
\* up to the m-th.
PostedTo(m) ==
  /\ \A i \in DOMAIN CallIds :
       /\ CallIds[i] \in DOMAIN answer <=> i <= m
       /\ i < m => answer[CallIds[i]] = "ok"
  /\ m < Len(Calls) => answer[CallIds[m]] # "ok"

Posted ==
  pc = "webhooks" =>
    /\ Calls # <<>> /\ req.mode = "server"
    /\ \A c \in DOMAIN answer : c[1] = Len(replies) => c \in Range(CallIds)
    /\ IF req.parallel THEN Range(CallIds) \subseteq DOMAIN answer
                       ELSE \E m \in DOMAIN CallIds : PostedTo(m)

\* Only calls of the step under way are waited for, and what was answered took effect.
Settled ==
  \A c \in DOMAIN answer :
    /\ answer[c] \in {"ok", "err"} \/ (pc \in {"webhooks"} \cup Over /\ c[1] = steps)
    /\ answer[c] \in {"head", "ok"} => c \in Range(effects)

Loop == LoopTypes /\ Numbers /\ Posted /\ Settled

\* The agent has been told of a call, or of the step that it belongs to.
Heard(c) == <<c, "output">> \in told \/ <<<<c[1], 1>>, "error">> \in told

Telling ==
  /\ \A t \in told : IF t[2] = "output" THEN t[1] \in Range(effects)
                     ELSE req.fallback /\ t[1][2] = 1
  /\ \A c \in DOMAIN answer :
       Heard(c) \/ (pc = "webhooks" /\ c[1] = Len(replies)) \/ pc \in Over

\* Without the fallback, no step follows one in which a call failed.
Less(c, d) == c[1] < d[1] \/ (c[1] = d[1] /\ c[2] < d[2])
Sequential == ~req.parallel /\ ~req.fallback
OneByOne ==
  Sequential =>
    /\ \A c, d \in DOMAIN answer : Less(c, d) => answer[c] = "ok"
    /\ pc \notin {"webhooks"} \cup Over => \A c \in DOMAIN answer : answer[c] = "ok"
    /\ \A i, j \in DOMAIN effects : i < j => Less(effects[i], effects[j])

\* What a call that the answer lists has come to.
Accounted(nr, of) ==
  \/ <<nr, of>> \in DOMAIN answer
  \/ nr = MaxToolSteps + 1
  \/ req.fallback /\ \E j \in 1..of - 1 : <<nr, j>> \in DOMAIN answer /\ answer[<<nr, j>>] = "err"

Listing ==
  req.mode = "server" =>
    \A item \in Range(agentOutputs) : item.type = "call" =>
      \/ Accounted(item.nr, item.of)
      \/ pc = "webhooks" /\ <<item.nr, item.of>> \in Range(CallIds)
      \/ pc \in Over

\* A turn that had to call a tool gets past the tools at the limit only.
Required ==
  /\ req.mode = "server" /\ Tools # {} /\ RequireToolCall(req.choice)
  /\ pc \in {"schema", "retry", "answered"}
  => steps = MaxToolSteps /\ reason # "none"

\* A message is listed with the last text before the check of the schema.
Texts ==
  /\ pc \in {"schema", "retry"} => text \in {0, Len(replies)}
  /\ pc \notin {"schema", "retry", "answered"} \cup Over =>
       \A item \in Range(agentOutputs) : item.type # "message"
  /\ pc \in {"schema", "retry"} =>
       \A item \in Range(agentOutputs) :
         item.type = "message" => item.nr = Len(replies) /\ text = Len(replies)
  /\ SchemaHoldsOfText

(***************************************************************************)
(* Sequences, and the calls of a reply.                                    *)
(***************************************************************************)
LEMMA AppendRange ==
  ASSUME NEW S, NEW q \in Seq(S), NEW x \in S
  PROVE  Append(q, x) \in Seq(S) /\ Range(Append(q, x)) = Range(q) \cup {x}
<1>1. /\ Append(q, x) \in Seq(S)
      /\ \A i \in DOMAIN q : i \in DOMAIN Append(q, x) /\ Append(q, x)[i] = q[i]
      /\ Len(q) + 1 \in DOMAIN Append(q, x) /\ Append(q, x)[Len(q) + 1] = x
      /\ \A i \in DOMAIN Append(q, x) : i \in DOMAIN q \/ i = Len(q) + 1
  OBVIOUS
<1> QED BY <1>1 DEF Range

LEMMA ConcatRange ==
  ASSUME NEW S, NEW p \in Seq(S), NEW q \in Seq(S)
  PROVE  p \o q \in Seq(S) /\ Range(p \o q) \subseteq Range(p) \cup Range(q)
<1>1. p \o q \in Seq(S)
  OBVIOUS
<1>2. ASSUME NEW i \in DOMAIN (p \o q) PROVE (p \o q)[i] \in Range(p) \cup Range(q)
  <2>1. i \in 1..Len(p) + Len(q) /\ DOMAIN p = 1..Len(p) /\ DOMAIN q = 1..Len(q)
    BY <1>2
  <2>2. CASE i <= Len(p)
    BY <2>1, <2>2 DEF Range
  <2>3. CASE i > Len(p)
    <3>1. i - Len(p) \in DOMAIN q /\ (p \o q)[i] = q[i - Len(p)]
      BY <2>1, <2>3
    <3> QED BY <3>1 DEF Range
  <2> QED BY <2>1, <2>2, <2>3
<1> QED BY <1>1, <1>2 DEF Range

LEMMA ReplaceRange ==
  ASSUME NEW S, NEW q \in Seq(S), NEW i \in DOMAIN q, NEW x \in S
  PROVE  [q EXCEPT ![i] = x] \in Seq(S)
         /\ Range([q EXCEPT ![i] = x]) \subseteq Range(q) \cup {x}
<1> DEFINE r == [q EXCEPT ![i] = x]
<1>1. r \in Seq(S)
  OBVIOUS
<1>2. DOMAIN r = DOMAIN q /\ \A j \in DOMAIN q : r[j] \in {q[j], x}
  OBVIOUS
<1> QED BY <1>1, <1>2 DEF Range

LEMMA SmallRanges ==
  ASSUME NEW S, NEW x \in S
  PROVE  /\ <<>> \in Seq(S) /\ Range(<<>>) = {}
         /\ <<x>> \in Seq(S) /\ Range(<<x>>) = {x}
<1>1. DOMAIN <<>> = {} /\ DOMAIN <<x>> = {1} /\ <<x>>[1] = x
  OBVIOUS
<1> QED BY <1>1 DEF Range

\* The calls of the last reply are numbered from 1.
LEMMA CallsAreNumbered ==
  ASSUME LoopTypes, Len(replies) >= 1
  PROVE  /\ Reply \in Replies
         /\ Calls \in Seq(CallObjects)
         /\ DOMAIN CallIds = 1..Len(Calls) /\ Len(Calls) \in Nat
         /\ Calls # <<>> => Len(Calls) >= 1
         /\ \A i \in 1..Len(Calls) :
              CallIds[i] = <<Len(replies), i>> /\ CallIds[i] \in Range(CallIds)
         /\ Range(CallIds) = {<<Len(replies), i>> : i \in 1..Len(Calls)}
         /\ Range(CallIds) \subseteq Nat \X Nat
         /\ Len(replies) \in Nat
<1>1. Len(replies) \in DOMAIN replies /\ replies \in Seq(Replies) /\ Len(replies) \in Nat
  BY DEF LoopTypes
<1>2. Reply \in Replies /\ Reply.calls \in Seq(CallObjects)
  BY <1>1, TurnAssumption DEF Reply, ReplyType
<1>3. Calls \in Seq(CallObjects)
  BY <1>2 DEF Calls, CallsOf
<1> HIDE DEF Calls
<1>4. DOMAIN Calls = 1..Len(Calls) /\ Len(Calls) \in Nat /\ (Calls # <<>> => Len(Calls) >= 1)
  BY <1>3
<1>5. /\ DOMAIN CallIds = 1..Len(Calls)
      /\ \A i \in 1..Len(Calls) : CallIds[i] = <<Len(replies), i>>
  BY <1>4 DEF CallIds
<1>6. Range(CallIds) = {<<Len(replies), i>> : i \in 1..Len(Calls)}
  BY <1>5 DEF Range
<1>7. Range(CallIds) \subseteq Nat \X Nat
  BY <1>1, <1>4, <1>6
<1>8. \A i \in 1..Len(Calls) : CallIds[i] \in Range(CallIds)
  BY <1>5 DEF Range
<1> QED BY <1>1, <1>2, <1>3, <1>4, <1>5, <1>6, <1>7, <1>8

LEMMA CallsStay ==
  ASSUME UNCHANGED <<req, replies>>
  PROVE  /\ Calls' = Calls /\ CallIds' = CallIds /\ Tools' = Tools /\ Reply' = Reply
BY DEF Calls, CallIds, Tools, Reply

(***************************************************************************)
(* Induction over the lengths of sequences.                                *)
(***************************************************************************)
\* A set of naturals that has 0 and the successor of each member has them all.
LEMMA NatInduct ==
  ASSUME NEW S, 0 \in S, \A n \in Nat : n \in S => n + 1 \in S
  PROVE  Nat \subseteq S
<1> SUFFICES ASSUME Nat \ S # {} PROVE FALSE
  OBVIOUS
<1> DEFINE T == Nat \ S
<1>1. PICK n \in T : \A m \in T : ~ (<<m, n>> \in OpToRel(<, Nat))
  <2>1. T \subseteq Nat
    OBVIOUS
  <2> QED BY <2>1, NatLessThanWellFounded, WFMin
<1>2. n - 1 \in Nat /\ n - 1 \in S
  <2>1. n \in Nat /\ n # 0 /\ n - 1 \in Nat /\ n - 1 < n
    OBVIOUS
  <2>2. <<n - 1, n>> \in OpToRel(<, Nat)
    BY <2>1 DEF OpToRel
  <2> QED BY <1>1, <2>1, <2>2
<1>3. n - 1 + 1 \in S
  BY <1>2
<1> QED BY <1>2, <1>3

\* FlattenSeq goes through its argument from the left.
LEMMA FlattenSteps ==
  ASSUME NEW qs, NEW n \in Nat, Len(qs) = n, n > 0
  PROVE  \E flat : /\ FlattenSeq(qs) = flat[n] /\ flat[1] = qs[1]
                   /\ \A m \in 1..n - 1 : flat[m + 1] = flat[m] \o qs[m + 1]
<1> DEFINE Step(f, i) == IF i = 1 THEN qs[i] ELSE f[i - 1] \o qs[i]
           Flattens(f, m) == f = [i \in 1..m |-> Step(f, i)]
           Good == {m \in Nat : m > 0 => \E f : Flattens(f, m)}
<1>1. ASSUME NEW m \in Nat, m \in Good PROVE m + 1 \in Good
  <2>1. CASE m = 0
    <3> DEFINE f == [i \in 1..1 |-> qs[1]]
    <3>1. 1..m + 1 = 1..1 /\ \A i \in 1..1 : i = 1
      BY <2>1
    <3>2. Flattens(f, m + 1)
      BY <3>1
    <3> HIDE DEF f, Flattens
    <3> QED BY <3>2
  <2>2. CASE m > 0
    <3>1. PICK f : Flattens(f, m)
      BY <1>1, <2>2
    <3> DEFINE g == [i \in 1..m + 1 |-> IF i <= m THEN f[i] ELSE f[m] \o qs[m + 1]]
    <3>2. f = [i \in 1..m |-> Step(f, i)]
      BY <3>1
    <3> HIDE DEF Flattens
    <3>3. ASSUME NEW i \in 1..m + 1 PROVE g[i] = Step(g, i)
      <4>1. CASE i = m + 1
        <5>1. i \in 1..m + 1 /\ ~(i <= m) /\ i # 1 /\ i - 1 = m
          BY <2>2, <4>1
        <5>2. g[m] = f[m]
          BY <2>2
        <5>3. g[i] = f[m] \o qs[m + 1]
          BY <5>1
        <5> HIDE DEF g
        <5> QED BY <4>1, <5>1, <5>2, <5>3
      <4>2. CASE i = 1 /\ i <= m
        <5>1. f[1] = qs[1]
          BY <3>2, <4>2
        <5> QED BY <4>2, <5>1
      <4>3. CASE i # 1 /\ i <= m
        <5>1. i \in 1..m /\ i - 1 \in 1..m
          BY <4>3
        <5>2. f[i] = Step(f, i)
          BY <3>2, <5>1
        <5>3. g[i] = f[i] /\ g[i - 1] = f[i - 1]
          BY <5>1
        <5> HIDE DEF g
        <5> QED BY <4>3, <5>2, <5>3
      <4> QED BY <4>1, <4>2, <4>3
    <3>4. g = [i \in 1..m + 1 |-> g[i]]
      OBVIOUS
    <3> HIDE DEF g
    <3>5. g = [i \in 1..m + 1 |-> Step(g, i)]
      <4> HIDE DEF Step
      <4> QED BY <3>3, <3>4
    <3>6. Flattens(g, m + 1)
      BY <3>5 DEF Flattens
    <3> HIDE DEF Step
    <3> QED BY <3>6
  <2> HIDE DEF Good
  <2> QED BY <2>1, <2>2
<1>2. \E f : Flattens(f, n)
  <2>1. 0 \in Good
    OBVIOUS
  <2> HIDE DEF Good
  <2>2. n \in Good
    BY <1>1, <2>1, NatInduct
  <2> QED BY <2>2 DEF Good
<1> DEFINE flat == CHOOSE f : Flattens(f, n)
<1>3. FlattenSeq(qs) = flat[n]
  BY DEF FlattenSeq
<1>4. flat = [i \in 1..n |-> Step(flat, i)]
  BY <1>2
<1> HIDE DEF flat
<1>5. flat[1] = qs[1]
  BY <1>4
<1>6. ASSUME NEW m \in 1..n - 1 PROVE flat[m + 1] = flat[m] \o qs[m + 1]
  <2>1. m + 1 \in 1..n /\ m + 1 # 1 /\ (m + 1) - 1 = m
    OBVIOUS
  <2> QED BY <1>4, <2>1
<1> QED BY <1>3, <1>5, <1>6

\* The elements of flat are those of the sequences of qs, in their order.
Follows(flat, qs) ==
  \A j1, j2 \in DOMAIN flat : j1 <= j2 =>
    \E i1, i2 \in 1..Len(qs) : \E k1 \in DOMAIN qs[i1], k2 \in DOMAIN qs[i2] :
      /\ flat[j1] = qs[i1][k1] /\ flat[j2] = qs[i2][k2]
      /\ i1 < i2 \/ (i1 = i2 /\ k1 <= k2 /\ (j1 < j2 => k1 < k2))

LEMMA FlattenKeepsOrder ==
  ASSUME NEW S, NEW qs \in Seq(Seq(S))
  PROVE  /\ FlattenSeq(qs) \in Seq(S)
         /\ \A i \in 1..Len(qs) : Range(qs[i]) \subseteq Range(FlattenSeq(qs))
         /\ Follows(FlattenSeq(qs), qs)
<1> DEFINE n == Len(qs)
           Behind(s, m, j1, j2) ==
             \E i1, i2 \in 1..m : \E k1 \in DOMAIN qs[i1], k2 \in DOMAIN qs[i2] :
               /\ s[j1] = qs[i1][k1] /\ s[j2] = qs[i2][k2]
               /\ i1 < i2 \/ (i1 = i2 /\ k1 <= k2 /\ (j1 < j2 => k1 < k2))
           Right(s, m) == /\ s \in Seq(S)
                          /\ \A i \in 1..m : Range(qs[i]) \subseteq Range(s)
                          /\ \A j1, j2 \in DOMAIN s : j1 <= j2 => Behind(s, m, j1, j2)
<1>0. n \in Nat /\ DOMAIN qs = 1..n /\ \A i \in 1..n : qs[i] \in Seq(S)
  OBVIOUS
<1>1. CASE n = 0
  <2>1. FlattenSeq(qs) = qs /\ qs = <<>>
    BY <1>1 DEF FlattenSeq
  <2> QED BY <1>0, <1>1, <2>1 DEF Follows
<1>2. CASE n > 0
  <2>1. PICK flat : /\ FlattenSeq(qs) = flat[n] /\ flat[1] = qs[1]
                    /\ \A m \in 1..n - 1 : flat[m + 1] = flat[m] \o qs[m + 1]
    BY <1>0, <1>2, FlattenSteps
  <2>2. Right(flat[1], 1)
    <3>1. 1..1 = {1} /\ qs[1] \in Seq(S)
      BY <1>0, <1>2
    <3>2. ASSUME NEW j1 \in DOMAIN flat[1], NEW j2 \in DOMAIN flat[1], j1 <= j2
          PROVE  Behind(flat[1], 1, j1, j2)
      BY <2>1, <3>1, <3>2
    <3> HIDE DEF Behind
    <3> QED BY <2>1, <3>1, <3>2
  <2>3. ASSUME NEW m \in 1..n - 1, Right(flat[m], m) PROVE Right(flat[m + 1], m + 1)
    <3> DEFINE s == flat[m]
               q == qs[m + 1]
               t == flat[m + 1]
    <3>1. /\ m \in Nat /\ m + 1 \in 1..n /\ q \in Seq(S) /\ s \in Seq(S) /\ t = s \o q
          /\ m + 1 \in 1..m + 1
      <4>1. m \in Nat /\ m + 1 \in 1..n /\ m + 1 \in 1..m + 1
        BY <1>0
      <4> QED BY <1>0, <2>1, <2>3, <4>1
    <3>2. \A i \in 1..m + 1 : i \in 1..m \/ i = m + 1
      BY <3>1
    <3>3. \A i \in 1..m : Range(qs[i]) \subseteq Range(s)
      BY <2>3
    <3>4. \A j1, j2 \in DOMAIN s : j1 <= j2 => Behind(s, m, j1, j2)
      BY <2>3
    <3>5. \A i \in 1..m : i < m + 1 /\ i \in 1..m + 1
      BY <3>1
    <3> HIDE DEF s, q, t
    <3>6. /\ t \in Seq(S) /\ DOMAIN t = 1..Len(s) + Len(q) /\ Len(s) \in Nat /\ Len(q) \in Nat
          /\ DOMAIN s = 1..Len(s) /\ DOMAIN q = 1..Len(q)
          /\ \A j \in DOMAIN s : j \in DOMAIN t /\ t[j] = s[j]
          /\ \A k \in DOMAIN q : Len(s) + k \in DOMAIN t /\ t[Len(s) + k] = q[k]
      BY <3>1
    <3>7. \A j \in DOMAIN t : j \in DOMAIN s \/ (j > Len(s) /\ j - Len(s) \in DOMAIN q /\ t[j] = q[j - Len(s)])
      <4>1. ASSUME NEW j \in DOMAIN t, j \notin DOMAIN s
            PROVE  j > Len(s) /\ j - Len(s) \in DOMAIN q /\ Len(s) + (j - Len(s)) = j
        BY <3>6, <4>1
      <4> QED BY <3>6, <4>1
    <3>8. Range(s) \subseteq Range(t) /\ Range(q) \subseteq Range(t)
      BY <3>6 DEF Range
    <3>9. \A i \in 1..m + 1 : Range(qs[i]) \subseteq Range(t)
      BY <3>2, <3>3, <3>8 DEF q
    <3>10. ASSUME NEW j1 \in DOMAIN t, NEW j2 \in DOMAIN t, j1 <= j2
           PROVE  Behind(t, m + 1, j1, j2)
      <4>1. CASE j1 \in DOMAIN s /\ j2 \in DOMAIN s
        <5>1. Behind(s, m, j1, j2)
          <6> HIDE DEF Behind
          <6> QED BY <3>4, <3>10, <4>1
        <5> QED BY <3>5, <3>6, <4>1, <5>1
      <4>2. CASE j1 \in DOMAIN s /\ j2 \notin DOMAIN s
        <5>1. PICK i1 \in 1..m : \E k1 \in DOMAIN qs[i1] : s[j1] = qs[i1][k1]
          <6>1. Behind(s, m, j1, j1)
            <7>1. j1 <= j1
              BY <3>6, <4>2
            <7> HIDE DEF Behind
            <7> QED BY <3>4, <4>2, <7>1
          <6> QED BY <6>1
        <5>2. j2 - Len(s) \in DOMAIN q /\ t[j2] = q[j2 - Len(s)] /\ t[j1] = s[j1]
          BY <3>6, <3>7, <4>2
        <5> QED BY <3>1, <3>5, <5>1, <5>2 DEF q
      <4>3. CASE j1 \notin DOMAIN s
        <5>1. j2 \notin DOMAIN s
          BY <3>6, <3>7, <3>10, <4>3
        <5>2. /\ j1 - Len(s) \in DOMAIN q /\ t[j1] = q[j1 - Len(s)]
              /\ j2 - Len(s) \in DOMAIN q /\ t[j2] = q[j2 - Len(s)]
          BY <3>7, <4>3, <5>1
        <5>3. /\ j1 - Len(s) <= j2 - Len(s)
              /\ j1 < j2 => j1 - Len(s) < j2 - Len(s)
          BY <3>6, <3>10
        <5> QED BY <3>1, <5>2, <5>3 DEF q
      <4> QED BY <4>1, <4>2, <4>3
    <3> HIDE DEF Behind
    <3> QED BY <3>6, <3>9, <3>10 DEF t
  <2> DEFINE Held == {m \in Nat : m \in 1..n => Right(flat[m], m)}
  <2>4. n \in Held
    <3> HIDE DEF Right
    <3>1. 0 \in Held
      OBVIOUS
    <3>2. ASSUME NEW m \in Nat, m \in Held PROVE m + 1 \in Held
      <4>1. CASE m = 0
        <5>1. m + 1 = 1
          BY <4>1
        <5> QED BY <2>2, <5>1
      <4>2. CASE m # 0 /\ m + 1 \in 1..n
        <5>1. m \in 1..n /\ m \in 1..n - 1
          BY <1>0, <4>2
        <5> QED BY <2>3, <3>2, <5>1
      <4> QED BY <4>1, <4>2
    <3> HIDE DEF Held
    <3> QED BY <1>0, <3>1, <3>2, NatInduct
  <2>5. Right(flat[n], n)
    <3> HIDE DEF Right
    <3> QED BY <1>0, <1>2, <2>4
  <2>6. Right(FlattenSeq(qs), n)
    <3> HIDE DEF Right
    <3> QED BY <2>1, <2>5
  <2> QED BY <2>6 DEF Follows
<1> QED BY <1>0, <1>1, <1>2

\* The largest of a set of indices.
LEMMA MaxIsLast ==
  ASSUME NEW m \in Nat, NEW s \in SUBSET (1..m), m \in s
  PROVE  Max(s) = m
<1>1. \A y \in s : m >= y
  OBVIOUS
<1>2. \A x \in s : (\A y \in s : x >= y) => x = m
  OBVIOUS
<1> QED BY <1>1, <1>2 DEF Max

SyncBody(f, base, p, s) ==
  IF s = {} THEN base ELSE SyncStep(f[s \ {Max(s)}], p[Max(s)])
SyncFolds(f, base, p, m) == f = [s \in SUBSET (1..m) |-> SyncBody(f, base, p, s)]

LEMMA SyncFoldsExist ==
  ASSUME NEW base, NEW p, NEW n \in Nat
  PROVE  \E f : SyncFolds(f, base, p, n)
<1> DEFINE Good == {m \in Nat : \E f : SyncFolds(f, base, p, m)}
<1>1. 0 \in Good
  <2> DEFINE f == [s \in SUBSET (1..0) |-> base]
  <2>1. \A s \in SUBSET (1..0) : SyncBody(f, base, p, s) = base
    BY DEF SyncBody
  <2>2. f = [s \in SUBSET (1..0) |-> SyncBody(f, base, p, s)]
    BY <2>1
  <2> QED BY <2>2 DEF SyncFolds
<1>2. ASSUME NEW m \in Nat, m \in Good PROVE m + 1 \in Good
  <2>1. PICK f : SyncFolds(f, base, p, m)
    BY <1>2
  <2>2. \A s \in SUBSET (1..m) : f[s] = SyncBody(f, base, p, s)
    BY <2>1 DEF SyncFolds
  <2> DEFINE g == [s \in SUBSET (1..m + 1) |->
                     IF m + 1 \in s THEN SyncStep(f[s \ {m + 1}], p[m + 1]) ELSE f[s]]
  <2>3. \A s \in SUBSET (1..m) : g[s] = f[s]
    <3>1. \A s \in SUBSET (1..m) : s \in SUBSET (1..m + 1) /\ m + 1 \notin s
      OBVIOUS
    <3> QED BY <3>1
  <2>4. ASSUME NEW s \in SUBSET (1..m + 1) PROVE g[s] = SyncBody(g, base, p, s)
    <3>1. CASE m + 1 \in s
      <4>1. Max(s) = m + 1 /\ s # {} /\ s \ {m + 1} \in SUBSET (1..m)
        BY <3>1, MaxIsLast
      <4>2. g[s] = SyncStep(f[s \ {m + 1}], p[m + 1])
        BY <3>1
      <4>3. g[s \ {m + 1}] = f[s \ {m + 1}]
        BY <2>3, <4>1
      <4> HIDE DEF g
      <4> QED BY <4>1, <4>2, <4>3 DEF SyncBody
    <3>2. CASE m + 1 \notin s
      <4>0. s \in SUBSET (1..m)
        BY <3>2
      <4>1. s \ {Max(s)} \in SUBSET (1..m)
        BY <4>0
      <4>2. g[s] = f[s] /\ g[s \ {Max(s)}] = f[s \ {Max(s)}] /\ f[s] = SyncBody(f, base, p, s)
        BY <2>2, <2>3, <4>0, <4>1
      <4> HIDE DEF g
      <4> QED BY <4>2 DEF SyncBody
    <3> QED BY <3>1, <3>2
  <2>5. g = [s \in SUBSET (1..m + 1) |-> g[s]]
    OBVIOUS
  <2> HIDE DEF g
  <2>6. SyncFolds(g, base, p, m + 1)
    BY <2>4, <2>5 DEF SyncFolds
  <2> QED BY <2>6
<1> HIDE DEF Good
<1>3. n \in Good
  BY <1>1, <1>2, NatInduct
<1> QED BY <1>3 DEF Good

LEMMA SyncFoldsAgree ==
  ASSUME NEW base, NEW p, NEW q, NEW n \in Nat, NEW k \in Nat, n <= k,
         \A i \in 1..n : p[i] = q[i],
         NEW f, SyncFolds(f, base, p, n), NEW g, SyncFolds(g, base, q, k)
  PROVE  f[1..n] = g[1..n]
<1> DEFINE Good == {m \in Nat : m <= n => \A s \in SUBSET (1..m) : f[s] = g[s]}
<1>1. /\ \A s \in SUBSET (1..n) : f[s] = SyncBody(f, base, p, s)
      /\ \A s \in SUBSET (1..n) : g[s] = SyncBody(g, base, q, s)
  <2>1. \A s \in SUBSET (1..n) : s \in SUBSET (1..k)
    OBVIOUS
  <2> QED BY <2>1 DEF SyncFolds
<1>2. 0 \in Good
  <2>1. \A s \in SUBSET (1..0) : s = {} /\ s \in SUBSET (1..n)
    OBVIOUS
  <2> QED BY <1>1, <2>1 DEF SyncBody
<1>3. ASSUME NEW m \in Nat, m \in Good PROVE m + 1 \in Good
  <2> SUFFICES ASSUME m + 1 <= n, NEW s \in SUBSET (1..m + 1) PROVE f[s] = g[s]
    OBVIOUS
  <2>0. \A t \in SUBSET (1..m) : f[t] = g[t]
    BY <1>3
  <2>1. CASE m + 1 \in s
    <3>1. Max(s) = m + 1 /\ s # {} /\ s \ {m + 1} \in SUBSET (1..m) /\ s \in SUBSET (1..n)
          /\ m + 1 \in 1..n
      BY <2>1, MaxIsLast
    <3>2. f[s \ {m + 1}] = g[s \ {m + 1}] /\ p[m + 1] = q[m + 1]
      BY <2>0, <3>1
    <3>3. f[s] = SyncBody(f, base, p, s) /\ g[s] = SyncBody(g, base, q, s)
      BY <1>1, <3>1
    <3> QED BY <3>1, <3>2, <3>3 DEF SyncBody
  <2>2. CASE m + 1 \notin s
    <3>1. s \in SUBSET (1..m)
      BY <2>2
    <3> QED BY <2>0, <3>1
  <2> QED BY <2>1, <2>2
<1> HIDE DEF Good
<1>4. n \in Good
  BY <1>2, <1>3, NatInduct
<1> QED BY <1>4 DEF Good

SyncFold(base, p) == FoldLeft(SyncStep, base, p)

LEMMA SyncIsFolded ==
  ASSUME NEW base, NEW p, NEW n \in Nat, DOMAIN p = 1..n
  PROVE  \E f : SyncFolds(f, base, p, n) /\ SyncFold(base, p) = f[1..n]
<1> DEFINE f == CHOOSE f : f = [s \in SUBSET (1..n) |-> SyncBody(f, base, p, s)]
<1>1. SyncFold(base, p) = f[1..n]
  BY DEF SyncFold, FoldLeft, MapThenFoldSet, SyncBody
<1>2. SyncFolds(f, base, p, n)
  BY SyncFoldsExist DEF SyncFolds
<1> HIDE DEF f
<1> QED BY <1>1, <1>2

\* FoldLeft folds the last element last.
LEMMA SyncStepsLast ==
  ASSUME NEW base, NEW S, NEW q \in Seq(S), NEW e \in S
  PROVE  /\ SyncFold(base, <<>>) = base
         /\ SyncFold(base, Append(q, e)) = SyncStep(SyncFold(base, q), e)
<1>1. SyncFold(base, <<>>) = base
  <2>1. DOMAIN <<>> = 1..0 /\ 1..0 = {}
    OBVIOUS
  <2>2. PICK f : SyncFolds(f, base, <<>>, 0) /\ SyncFold(base, <<>>) = f[1..0]
    BY <2>1, SyncIsFolded
  <2>3. f[1..0] = SyncBody(f, base, <<>>, 1..0)
    BY <2>2 DEF SyncFolds
  <2> QED BY <2>1, <2>2, <2>3 DEF SyncBody
<1>2. SyncFold(base, Append(q, e)) = SyncStep(SyncFold(base, q), e)
  <2> DEFINE n == Len(q)
             p == Append(q, e)
  <2>1. /\ n \in Nat /\ DOMAIN q = 1..n /\ DOMAIN p = 1..n + 1
        /\ \A i \in 1..n : q[i] = p[i]
        /\ p[n + 1] = e
    OBVIOUS
  <2> HIDE DEF n, p
  <2>2. PICK f : SyncFolds(f, base, q, n) /\ SyncFold(base, q) = f[1..n]
    BY <2>1, SyncIsFolded
  <2>3. PICK g : SyncFolds(g, base, p, n + 1) /\ SyncFold(base, p) = g[1..n + 1]
    BY <2>1, SyncIsFolded
  <2>4. f[1..n] = g[1..n]
    BY <2>1, <2>2, <2>3, SyncFoldsAgree
  <2>5. Max(1..n + 1) = n + 1 /\ 1..n + 1 # {} /\ (1..n + 1) \ {n + 1} = 1..n
    <3>1. n + 1 \in Nat /\ n + 1 \in 1..n + 1 /\ 1..n + 1 \in SUBSET (1..n + 1)
      BY <2>1
    <3>2. Max(1..n + 1) = n + 1
      BY <3>1, MaxIsLast
    <3>3. (1..n + 1) \ {n + 1} = 1..n
      BY <2>1
    <3> QED BY <3>1, <3>2, <3>3
  <2>6. g[1..n + 1] = SyncStep(g[1..n], e)
    <3>1. g[1..n + 1] = SyncBody(g, base, p, 1..n + 1)
      BY <2>3 DEF SyncFolds
    <3> QED BY <2>1, <2>5, <3>1 DEF SyncBody
  <2> QED BY <2>2, <2>3, <2>4, <2>6 DEF p
<1> QED BY <1>1, <1>2

(***************************************************************************)
(* What a step adds to the agent's outputs.                                *)
(***************************************************************************)
ListsCalls == ClientCalls \/ ServerLimit \/ ServerStep
RetryEnds == \E reply \in Replies, finish \in {"stop", "length"} : RetryAnswers(reply, finish)

Gain(item) ==
  \/ pc = "drain" /\ item.type \in {"reasoning", "agent_call"}
  \/ NoCalls /\ item = Message(text)
  \/ ListsCalls /\ \E c \in Range(CallIds) : item = CallItem(c)
  \/ RetryEnds /\ item = Message(Len(replies) + 1)

LEMMA OutputsGain ==
  ASSUME LoopTypes, Numbers, [Next]_vars
  PROVE  /\ agentOutputs' \in Seq(ItemType)
         /\ seen' \in Seq(EventType)
         /\ \A item \in Range(agentOutputs') : item \in Range(agentOutputs) \/ Gain(item)
<1> DEFINE Good == /\ agentOutputs' \in Seq(ItemType)
                   /\ \A item \in Range(agentOutputs') : item \in Range(agentOutputs) \/ Gain(item)
<1>0. /\ agentOutputs \in Seq(ItemType) /\ seen \in Seq(EventType) /\ Len(seen) + 1 \in Nat
      /\ text \in Nat /\ Len(replies) + 1 \in Nat
  BY DEF LoopTypes
<1>1. ASSUME NEW kind \in {"delta", "reasoning", "started", "updated"}, NEW id \in ToolIds,
             AgentEvent(kind, id)
      PROVE  Good /\ seen' \in Seq(EventType)
  <2> DEFINE e == [kind |-> kind, id |-> id, nr |-> Len(seen) + 1]
  <2>1. e \in EventType /\ seen' = Append(seen, e) /\ pc = "drain"
    BY <1>0, <1>1 DEF AgentEvent, EventType
  <2>2. seen' \in Seq(EventType)
    BY <1>0, <2>1
  <2>3. AgentItem(e) \in ItemType /\ AgentItem(e).type = "agent_call"
    BY <2>1 DEF AgentItem, Item, ItemType, EventType
  <2>4. /\ Item("reasoning", e.nr, 0) \in ItemType
        /\ Item("reasoning", e.nr, 0).type = "reasoning"
    BY <2>1 DEF Item, ItemType, EventType
  <2>5. ASSUME agentOutputs' = agentOutputs PROVE Good
    BY <1>0, <2>5
  <2>6. ASSUME agentOutputs' = Append(agentOutputs, Item("reasoning", e.nr, 0)) PROVE Good
    BY <1>0, <2>1, <2>4, <2>6, AppendRange DEF Gain
  <2>7. ASSUME agentOutputs' = ApplyTool(agentOutputs, toolIndex, e).out PROVE Good
    <3> DEFINE place == Place(agentOutputs, toolIndex, e)
    <3>1. ApplyTool(agentOutputs, toolIndex, e).out =
            IF place \in DOMAIN agentOutputs
              THEN [agentOutputs EXCEPT ![place] = AgentItem(e)]
              ELSE Append(agentOutputs, AgentItem(e))
      BY DEF ApplyTool
    <3> HIDE DEF place, e
    <3>2. AgentItem(e) \in ItemType /\ Gain(AgentItem(e))
      BY <2>1, <2>3 DEF Gain
    <3>3. CASE place \in DOMAIN agentOutputs
      <4>1. agentOutputs' = [agentOutputs EXCEPT ![place] = AgentItem(e)]
        BY <2>7, <3>1, <3>3
      <4>2. /\ agentOutputs' \in Seq(ItemType)
            /\ Range(agentOutputs') \subseteq Range(agentOutputs) \cup {AgentItem(e)}
        BY <1>0, <3>2, <3>3, <4>1, ReplaceRange
      <4> QED BY <3>2, <4>2
    <3>4. CASE place \notin DOMAIN agentOutputs
      <4>1. agentOutputs' = Append(agentOutputs, AgentItem(e))
        BY <2>7, <3>1, <3>4
      <4>2. /\ agentOutputs' \in Seq(ItemType)
            /\ Range(agentOutputs') = Range(agentOutputs) \cup {AgentItem(e)}
        BY <1>0, <3>2, <4>1, AppendRange
      <4> QED BY <3>2, <4>2
    <3> QED BY <3>3, <3>4
  <2> HIDE DEF Good
  <2>8. agentOutputs' \in {agentOutputs, Append(agentOutputs, Item("reasoning", e.nr, 0)),
                           ApplyTool(agentOutputs, toolIndex, e).out}
    BY <1>1 DEF AgentEvent, SyncStep, StreamDelta, StreamReasoning, StreamTool
  <2> QED BY <2>2, <2>5, <2>6, <2>7, <2>8
<1>2. CASE AgentSpeaks
  BY <1>1, <1>2 DEF AgentSpeaks
<1>3. CASE NoCalls
  <2>1. Message(text) \in ItemType
    BY <1>0 DEF Message, Item, ItemType
  <2>2. MessageOfText \in {<<>>, <<Message(text)>>}
    BY DEF MessageOfText
  <2>3. MessageOfText \in Seq(ItemType) /\ Range(MessageOfText) \subseteq {Message(text)}
    <3>1. /\ <<>> \in Seq(ItemType) /\ Range(<<>>) = {}
          /\ <<Message(text)>> \in Seq(ItemType) /\ Range(<<Message(text)>>) = {Message(text)}
      BY <2>1, SmallRanges
    <3> QED BY <2>2, <3>1
  <2>4. /\ agentOutputs' \in {agentOutputs, agentOutputs \o MessageOfText} /\ seen' = seen
    BY <1>3 DEF NoCalls, Listed
  <2>5. CASE agentOutputs' = agentOutputs
    BY <1>0, <2>4, <2>5
  <2>6. CASE agentOutputs' = agentOutputs \o MessageOfText
    <3>1. /\ agentOutputs' \in Seq(ItemType)
          /\ Range(agentOutputs') \subseteq Range(agentOutputs) \cup Range(MessageOfText)
      BY <1>0, <2>3, <2>6, ConcatRange
    <3> QED BY <1>0, <1>3, <2>3, <2>4, <3>1 DEF Gain
  <2> QED BY <2>4, <2>5, <2>6
<1>4. CASE ListsCalls
  <2> DEFINE items == [i \in DOMAIN CallIds |-> CallItem(CallIds[i])]
  <2>0. Len(replies) >= 1
    BY <1>4 DEF Numbers, ListsCalls, ClientCalls, ServerLimit, ServerStep, Over
  <2>1. /\ DOMAIN CallIds = 1..Len(Calls) /\ Len(Calls) \in Nat
        /\ \A i \in DOMAIN CallIds : CallIds[i] \in Nat \X Nat /\ CallIds[i] \in Range(CallIds)
    BY <2>0, CallsAreNumbered DEF Range
  <2>2. \A i \in DOMAIN CallIds : CallItem(CallIds[i]) \in ItemType
    BY <2>1 DEF CallItem, Item, ItemType
  <2>3. items \in Seq(ItemType) /\ \A x \in Range(items) : \E c \in Range(CallIds) : x = CallItem(c)
    BY <2>1, <2>2 DEF Range
  <2>4. /\ agentOutputs' \in {agentOutputs, agentOutputs \o items} /\ seen' = seen
    BY <1>4 DEF ListsCalls, ClientCalls, ServerLimit, ServerStep, Listed
  <2> HIDE DEF items
  <2> QED BY <1>0, <1>4, <2>3, <2>4, ConcatRange DEF Gain
<1>5. CASE RetryEnds
  <2>1. Message(Len(replies) + 1) \in ItemType
    BY <1>0 DEF Message, Item, ItemType
  <2>2. agentOutputs' \in {agentOutputs, <<Message(Len(replies) + 1)>>} /\ seen' = seen
    BY <1>5 DEF RetryEnds, RetryAnswers
  <2>3. CASE agentOutputs' = agentOutputs
    BY <1>0, <2>2, <2>3
  <2>4. CASE agentOutputs' = <<Message(Len(replies) + 1)>>
    <3>1. agentOutputs' \in Seq(ItemType) /\ Range(agentOutputs') = {Message(Len(replies) + 1)}
      BY <2>1, <2>4, SmallRanges
    <3> QED BY <1>0, <1>5, <2>2, <3>1 DEF Gain
  <2> QED BY <2>2, <2>3, <2>4
<1>6. CASE UNCHANGED <<agentOutputs, seen>>
  BY <1>0, <1>6
<1> QED BY <1>2, <1>3, <1>4, <1>5, <1>6
        DEF Next, Prompted, Proceed, PostReturns, BodyReturns, ListsCalls, RetryEnds,
            AgentFails, AgentContinues, RetryFails, FirstReply, CallsRefused, StepSucceeds,
            StepFallsBack, StepFails, Answer, SchemaRefuses, Disconnect, Fail, drainVars,
            WebhookResponds, WebhookFails, WebhookAnswers, WebhookTakesEffect, vars

(***************************************************************************)
(* The loop.                                                               *)
(***************************************************************************)
LEMMA SeqGrows ==
  ASSUME NEW S, NEW T, S \subseteq T, NEW q \in Seq(S)
  PROVE  q \in Seq(T)
<1>1. \A i \in 1..Len(q) : q[i] \in T
  OBVIOUS
<1> QED BY <1>1

\* The first call of a step is always POSTed.
LEMMA FirstIsPosted ==
  ASSUME Loop, pc = "webhooks"
  PROVE  /\ 1 \in DOMAIN CallIds /\ CallIds[1] = <<Len(replies), 1>>
         /\ CallIds[1] \in DOMAIN answer
<1>1. Len(replies) >= 1 /\ Calls # <<>>
  BY DEF Loop, Numbers, Posted, Over
<1>2. 1 \in DOMAIN CallIds /\ CallIds[1] = <<Len(replies), 1>>
  BY <1>1, CallsAreNumbered DEF Loop
<1>3. CASE req.parallel
  BY <1>2, <1>3 DEF Loop, Posted, Range
<1>4. CASE ~req.parallel
  <2>1. PICK m \in DOMAIN CallIds : PostedTo(m)
    BY <1>4 DEF Loop, Posted
  <2>2. 1 <= m
    BY <1>1, <2>1, CallsAreNumbered DEF Loop
  <2> QED BY <1>2, <2>1, <2>2 DEF PostedTo
<1> QED BY <1>2, <1>3, <1>4

\* A step in which no call failed has POSTed all its calls.
LEMMA AllArePosted ==
  ASSUME Loop, pc = "webhooks", StepSettled, ~StepFailed
  PROVE  \A c \in Range(CallIds) : c \in DOMAIN answer /\ answer[c] = "ok"
<1>1. \A c \in Range(CallIds) \cap DOMAIN answer : answer[c] = "ok"
  BY DEF StepSettled, StepFailed
<1>2. Len(replies) >= 1
  BY DEF Loop, Numbers, Over
<1>3. CASE req.parallel
  BY <1>1, <1>3 DEF Loop, Posted
<1>4. CASE ~req.parallel
  <2>1. PICK m \in DOMAIN CallIds : PostedTo(m)
    BY <1>4 DEF Loop, Posted
  <2>2. /\ DOMAIN CallIds = 1..Len(Calls) /\ Len(Calls) \in Nat
        /\ CallIds[m] \in Range(CallIds)
    BY <1>2, <2>1, CallsAreNumbered DEF Loop, Range
  <2>3. CallIds[m] \in DOMAIN answer
    BY <2>1, <2>2 DEF PostedTo
  <2>4. answer[CallIds[m]] = "ok"
    BY <1>1, <2>2, <2>3
  <2>5. m = Len(Calls)
    BY <2>1, <2>2, <2>4 DEF PostedTo
  <2>6. \A i \in DOMAIN CallIds : CallIds[i] \in DOMAIN answer
    BY <2>1, <2>2, <2>5 DEF PostedTo
  <2> QED BY <1>1, <2>6 DEF Range
<1> QED BY <1>3, <1>4

LEMMA InitLoop == Init => Loop
<1> SUFFICES ASSUME Init PROVE Loop
  OBVIOUS
<1>1. answer = <<>> /\ DOMAIN answer = {}
  BY DEF Init
<1>2. answer \in [DOMAIN answer -> {"waiting", "head", "ok", "err"}] /\ effects \in Seq(DOMAIN answer)
  BY <1>1 DEF Init
<1>3. LoopTypes
  BY <1>1, <1>2, TurnAssumption DEF Init, LoopTypes, Over
<1> QED BY <1>1, <1>3 DEF Init, Loop, Numbers, Posted, Settled, Over

\* A step that leaves the loop alone, or ends it.
LEMMA LoopStays ==
  ASSUME Loop, UNCHANGED <<req, replies>>, UNCHANGED loopVars,
         agentOutputs' \in Seq(ItemType), seen' \in Seq(EventType),
         \/ UNCHANGED <<pc, text>>
         \/ pc' \in Over /\ text' = text
         \/ pc = "tools" /\ pc' = "schema" /\ text' \in {text, 0}
         \/ pc \in {"schema"} /\ pc' \in {"retry", "answered"} /\ text' = text
  PROVE  Loop'
<1> USE DEF Over
<1>1. /\ LoopTypes /\ Numbers /\ Posted /\ Settled
      /\ UNCHANGED <<steps, answer, effects, told>>
  BY DEF Loop, loopVars
<1>2. LoopTypes'
  <2>1. text' \in 0..Len(replies)
    BY <1>1 DEF LoopTypes
  <2> QED BY <1>1, <2>1 DEF LoopTypes
<1>3. Numbers'
  BY <1>1 DEF Numbers
<1>4. Posted'
  BY <1>1, CallsStay DEF Posted, PostedTo
<1>5. Settled'
  BY <1>1 DEF Settled
<1> QED BY <1>2, <1>3, <1>4, <1>5 DEF Loop

LEMMA StepKeepsLoop ==
  ASSUME Loop, ServerStep, agentOutputs' \in Seq(ItemType), seen' \in Seq(EventType)
  PROVE  Loop'
<1> USE DEF Over
<1>1. /\ LoopTypes /\ Numbers /\ Settled /\ pc = "tools" /\ pc' = "webhooks"
      /\ steps' = steps + 1 /\ answer' = Posts(StartsWith) /\ Calls # <<>>
      /\ UNCHANGED <<req, replies, text, effects, told>> /\ req.mode = "server"
      /\ Len(replies) = steps + 1 /\ Len(replies) >= 1
  BY DEF Loop, ServerStep, Numbers
<1>2. /\ DOMAIN CallIds = 1..Len(Calls) /\ Len(Calls) \in Nat /\ Len(Calls) >= 1
      /\ \A i \in 1..Len(Calls) :
           CallIds[i] = <<Len(replies), i>> /\ CallIds[i] \in Range(CallIds)
      /\ Range(CallIds) = {<<Len(replies), i>> : i \in 1..Len(Calls)}
      /\ Range(CallIds) \subseteq Nat \X Nat
  BY <1>1, CallsAreNumbered
<1>3. StartsWith \subseteq Range(CallIds)
  BY <1>2 DEF StartsWith
<1>4. steps \in Nat /\ steps + 1 \in 0..MaxToolSteps
  BY <1>1, TurnAssumption DEF LoopTypes, ServerStep, AtLimit
<1>5. /\ DOMAIN answer' = DOMAIN answer \cup StartsWith
      /\ \A c \in DOMAIN answer : answer'[c] = answer[c]
      /\ \A c \in StartsWith \ DOMAIN answer : answer'[c] = "waiting"
  BY <1>1 DEF Posts
<1>6. \A c \in Range(CallIds) : c \notin DOMAIN answer /\ c[1] = steps + 1 /\ c[2] >= 1
  <2>1. \A c \in DOMAIN answer : c[1] <= steps
    BY <1>1, <1>4 DEF Numbers
  <2>2. \A c \in Range(CallIds) : c[1] = steps + 1 /\ c[2] >= 1
    BY <1>1, <1>2
  <2> QED BY <1>4, <2>1, <2>2
<1>7. LoopTypes'
  <2>1. DOMAIN answer \subseteq DOMAIN answer'
    BY <1>5
  <2>2. DOMAIN answer' \subseteq Nat \X Nat
    BY <1>1, <1>2, <1>3, <1>5 DEF LoopTypes
  <2>3. answer' \in [DOMAIN answer' -> {"waiting", "head", "ok", "err"}]
    <3>1. answer' = [c \in DOMAIN answer' |-> answer'[c]]
      BY <1>1, <1>5 DEF Posts
    <3>2. \A c \in DOMAIN answer' : answer'[c] \in {"waiting", "head", "ok", "err"}
      BY <1>1, <1>5 DEF LoopTypes
    <3> QED BY <3>1, <3>2
  <2>4. effects' \in Seq(DOMAIN answer')
    BY <1>1, <2>1, SeqGrows DEF LoopTypes
  <2>5. told' \subseteq (DOMAIN answer') \X {"output", "error"}
    BY <1>1, <2>1 DEF LoopTypes
  <2> QED BY <1>1, <1>4, <2>2, <2>3, <2>4, <2>5 DEF LoopTypes
<1>8. Numbers'
  <2>1. \A c \in DOMAIN answer' : c[1] \in 1..steps + 1 /\ c[2] >= 1
    BY <1>1, <1>3, <1>4, <1>5, <1>6 DEF Numbers
  <2> QED BY <1>1, <2>1 DEF Numbers
<1>9. Posted'
  <2>1. Calls' = Calls /\ CallIds' = CallIds
    BY <1>1, CallsStay
  <2>2. \A c \in DOMAIN answer' : c[1] = Len(replies) => c \in Range(CallIds)
    <3>1. \A c \in DOMAIN answer : c[1] # Len(replies)
      BY <1>1, <1>4 DEF Numbers
    <3> QED BY <1>3, <1>5, <3>1
  <2>3. CASE req.parallel
    BY <1>1, <1>5, <2>1, <2>2, <2>3 DEF Posted, StartsWith
  <2>4. CASE ~req.parallel
    <3>1. StartsWith = {CallIds[1]} /\ 1 \in DOMAIN CallIds
      BY <1>2, <2>4 DEF StartsWith
    <3>2. \A i \in DOMAIN CallIds : CallIds[i] \in DOMAIN answer' <=> i <= 1
      <4>1. \A i \in DOMAIN CallIds : CallIds[i] \in Range(CallIds) /\ (CallIds[i] = CallIds[1] <=> i = 1)
        <5>1. \A i \in 1..Len(Calls) : CallIds[i][2] = i
          BY <1>2
        <5> QED BY <1>2, <5>1
      <4> QED BY <1>2, <1>5, <1>6, <3>1, <4>1
    <3>3. answer'[CallIds[1]] = "waiting"
      <4>1. CallIds[1] \in Range(CallIds)
        BY <1>2
      <4> QED BY <1>5, <1>6, <3>1, <4>1
    <3>4. PostedTo(1)'
      BY <1>2, <2>1, <3>2, <3>3 DEF PostedTo
    <3> QED BY <1>1, <2>1, <2>2, <2>4, <3>1, <3>4 DEF Posted
  <2> QED BY <2>3, <2>4
<1>10. Settled'
  <2>1. \A c \in StartsWith : answer'[c] = "waiting" /\ c[1] = steps + 1
    BY <1>3, <1>5, <1>6
  <2> QED BY <1>1, <1>5, <2>1 DEF Settled
<1> QED BY <1>7, <1>8, <1>9, <1>10 DEF Loop

LEMMA EffectKeepsLoop ==
  ASSUME Loop, NEW c \in DOMAIN answer, WebhookTakesEffect(c)
  PROVE  Loop' /\ Range(effects') = Range(effects) \cup {c}
<1>1. /\ LoopTypes /\ Numbers /\ Posted /\ Settled /\ effects' = Append(effects, c)
      /\ UNCHANGED <<req, pc, replies, text, steps, answer, told, seen, agentOutputs>>
  BY DEF Loop, WebhookTakesEffect, drainVars
<1>2. effects' \in Seq(DOMAIN answer) /\ Range(effects') = Range(effects) \cup {c}
  BY <1>1, AppendRange DEF LoopTypes
<1>3. LoopTypes'
  BY <1>1, <1>2 DEF LoopTypes
<1>4. Posted'
  BY <1>1, CallsStay DEF Posted, PostedTo
<1> QED BY <1>1, <1>2, <1>3, <1>4 DEF Loop, Numbers, Settled

\* A call that is waited for is the last one that was POSTed, if they go one by one.
LEMMA WaitedIsLast ==
  ASSUME Loop, pc = "webhooks", NEW c \in DOMAIN answer, answer[c] \in {"waiting", "head"}
  PROVE  /\ c \in Range(CallIds) /\ c[1] = Len(replies) /\ c[1] = steps
         /\ ~req.parallel => \E m \in DOMAIN CallIds : PostedTo(m) /\ c = CallIds[m]
<1>1. c[1] = steps /\ Len(replies) = steps /\ Len(replies) >= 1
  BY DEF Loop, Settled, Numbers, Over
<1>2. c \in Range(CallIds)
  BY <1>1 DEF Loop, Posted
<1>3. ASSUME ~req.parallel PROVE \E m \in DOMAIN CallIds : PostedTo(m) /\ c = CallIds[m]
  <2>1. PICK m \in DOMAIN CallIds : PostedTo(m)
    BY <1>3 DEF Loop, Posted
  <2>2. PICK i \in DOMAIN CallIds : c = CallIds[i]
    BY <1>2 DEF Range
  <2>3. i <= m /\ ~(i < m) /\ i \in Nat /\ m \in Nat
    BY <1>1, <2>1, <2>2, CallsAreNumbered DEF PostedTo, Loop
  <2> QED BY <2>1, <2>2, <2>3
<1> QED BY <1>1, <1>2, <1>3

\* An answer comes, of which the next call need not wait.
LEMMA AnswerKeepsLoop ==
  ASSUME Loop, pc = "webhooks", NEW c \in DOMAIN answer, answer[c] \in {"waiting", "head"},
         NEW a \in {"head", "err"}, answer' = [answer EXCEPT ![c] = a],
         a = "head" => c \in Range(effects),
         UNCHANGED <<req, pc, replies, text, steps, effects, told, seen, agentOutputs>>
  PROVE  Loop'
<1>1. LoopTypes /\ Numbers /\ Posted /\ Settled
  BY DEF Loop
<1>2. DOMAIN answer' = DOMAIN answer /\ answer'[c] = a
      /\ \A d \in DOMAIN answer : d # c => answer'[d] = answer[d]
  BY <1>1 DEF LoopTypes
<1>3. LoopTypes'
  BY <1>1, <1>2 DEF LoopTypes
<1>4. Numbers'
  BY <1>1, <1>2 DEF Numbers
<1>5. c[1] = steps
  BY WaitedIsLast
<1>6. Settled'
  BY <1>1, <1>2, <1>5 DEF Settled
<1>7. Posted'
  <2>1. Calls' = Calls /\ CallIds' = CallIds
    BY CallsStay
  <2>2. CASE req.parallel
    BY <1>1, <1>2, <2>1, <2>2 DEF Posted
  <2>3. CASE ~req.parallel
    <3>1. PICK m \in DOMAIN CallIds : PostedTo(m) /\ c = CallIds[m]
      BY <2>3, WaitedIsLast
    <3>2. \A i \in DOMAIN CallIds : i < m => CallIds[i] # c
      <4>1. Len(replies) >= 1
        BY <1>1 DEF Numbers, Over
      <4> QED BY <3>1, <4>1, CallsAreNumbered DEF Loop
    <3>3. PostedTo(m)'
      BY <1>2, <2>1, <3>1, <3>2 DEF PostedTo
    <3> QED BY <1>1, <1>2, <2>1, <2>3, <3>3 DEF Posted
  <2> QED BY <2>2, <2>3
<1> QED BY <1>3, <1>4, <1>6, <1>7 DEF Loop

\* What WebhookAnswers does: the call's answer is there, and the next call, if there
\* is one that was not POSTed before, is.
LEMMA AnswerPosts ==
  ASSUME Loop, NEW c \in DOMAIN answer, WebhookAnswers(c)
  PROVE  LET next == <<c[1], c[2] + 1>>
             new  == {next} \cap Range(CallIds)
         IN  /\ pc = "webhooks" /\ answer[c] = "head" /\ c \in Range(effects)
             /\ DOMAIN answer' = DOMAIN answer \cup new /\ new \subseteq Nat \X Nat
             /\ answer' = [d \in DOMAIN answer' |-> answer'[d]]
             /\ answer'[c] = "ok"
             /\ \A d \in DOMAIN answer : d # c => answer'[d] = answer[d]
             /\ \A d \in new \ DOMAIN answer : answer'[d] = "waiting"
             /\ UNCHANGED <<req, pc, replies, text, steps, effects, told, seen, agentOutputs>>
<1> DEFINE next == <<c[1], c[2] + 1>>
           new  == {next} \cap Range(CallIds)
<1>1. /\ pc = "webhooks" /\ answer[c] = "head"
      /\ answer' = [Posts(new) EXCEPT ![c] = "ok"]
      /\ UNCHANGED <<req, pc, replies, text, steps, effects, told, seen, agentOutputs>>
  BY DEF WebhookAnswers, drainVars
<1>2. c \in Range(effects)
  BY <1>1 DEF Loop, Settled
<1>3. new \subseteq Nat \X Nat
  <2>1. Len(replies) >= 1
    BY <1>1 DEF Loop, Numbers, Over
  <2> QED BY <2>1, CallsAreNumbered DEF Loop
<1> HIDE DEF new
<1>4. /\ DOMAIN answer' = DOMAIN answer \cup new
      /\ answer' = [d \in DOMAIN answer' |-> answer'[d]]
      /\ answer'[c] = "ok"
      /\ \A d \in DOMAIN answer : d # c => answer'[d] = answer[d]
      /\ \A d \in new \ DOMAIN answer : answer'[d] = "waiting"
  BY <1>1 DEF Posts
<1> QED BY <1>1, <1>2, <1>3, <1>4 DEF new

LEMMA AnswersKeepLoop ==
  ASSUME Loop, NEW c \in DOMAIN answer, WebhookAnswers(c)
  PROVE  Loop'
<1> DEFINE next == <<c[1], c[2] + 1>>
           new  == {next} \cap Range(CallIds)
<1>1. /\ pc = "webhooks" /\ answer[c] = "head" /\ c \in Range(effects)
      /\ DOMAIN answer' = DOMAIN answer \cup new /\ new \subseteq Nat \X Nat
      /\ answer' = [d \in DOMAIN answer' |-> answer'[d]]
      /\ answer'[c] = "ok"
      /\ \A d \in DOMAIN answer : d # c => answer'[d] = answer[d]
      /\ \A d \in new \ DOMAIN answer : answer'[d] = "waiting"
      /\ UNCHANGED <<req, pc, replies, text, steps, effects, told, seen, agentOutputs>>
  BY AnswerPosts
<1>2. LoopTypes /\ Numbers /\ Posted /\ Settled
  BY DEF Loop
<1>3. c \in Range(CallIds) /\ c[1] = Len(replies) /\ c[1] = steps /\ Len(replies) >= 1
  BY <1>1, <1>2, WaitedIsLast DEF Numbers, Over
<1>4. /\ DOMAIN CallIds = 1..Len(Calls) /\ Len(Calls) \in Nat
      /\ \A i \in 1..Len(Calls) :
           CallIds[i] = <<Len(replies), i>> /\ CallIds[i] \in Range(CallIds)
      /\ Range(CallIds) = {<<Len(replies), i>> : i \in 1..Len(Calls)}
  BY <1>2, <1>3, CallsAreNumbered
<1>5. \A d \in new : d = next /\ d \in Range(CallIds)
  OBVIOUS
<1> HIDE DEF new
<1>6. LoopTypes'
  <2>1. DOMAIN answer \subseteq DOMAIN answer'
    BY <1>1
  <2>2. DOMAIN answer' \subseteq Nat \X Nat
    BY <1>1, <1>2 DEF LoopTypes
  <2>3. \A d \in DOMAIN answer' : answer'[d] \in {"waiting", "head", "ok", "err"}
    BY <1>1, <1>2 DEF LoopTypes
  <2>4. answer' \in [DOMAIN answer' -> {"waiting", "head", "ok", "err"}]
    BY <1>1, <2>3
  <2>5. effects' \in Seq(DOMAIN answer')
    BY <1>1, <1>2, <2>1, SeqGrows DEF LoopTypes
  <2>6. told' \subseteq (DOMAIN answer') \X {"output", "error"}
    BY <1>1, <1>2, <2>1 DEF LoopTypes
  <2> QED BY <1>1, <1>2, <2>2, <2>4, <2>5, <2>6 DEF LoopTypes
<1>7. \A d \in new : d[1] = steps /\ d[1] \in 1..steps /\ d[2] >= 1
  <2>1. \A d \in Range(CallIds) : d[1] = Len(replies) /\ d[2] >= 1
    BY <1>4
  <2>2. steps \in Nat /\ steps >= 1
    BY <1>2, <1>3, TurnAssumption DEF LoopTypes
  <2> QED BY <1>3, <1>5, <2>1, <2>2
<1>8. Numbers'
  BY <1>1, <1>2, <1>7 DEF Numbers
<1>9. Settled'
  BY <1>1, <1>2, <1>3, <1>7 DEF Settled
<1>10. Posted'
  <2>1. Calls' = Calls /\ CallIds' = CallIds
    BY <1>1, CallsStay
  <2>2. \A d \in DOMAIN answer' : d[1] = Len(replies) => d \in Range(CallIds)
    BY <1>1, <1>2, <1>5 DEF Posted
  <2>3. CASE req.parallel
    BY <1>1, <1>2, <2>1, <2>2, <2>3 DEF Posted
  <2>4. CASE ~req.parallel
    <3>1. PICK m \in DOMAIN CallIds : PostedTo(m) /\ c = CallIds[m]
      BY <1>1, <2>4, WaitedIsLast
    <3>2. m \in Nat /\ m <= Len(Calls) /\ c = <<Len(replies), m>> /\ next = <<Len(replies), m + 1>>
      BY <1>4, <3>1
    <3> HIDE DEF next
    <3>3. \A i \in DOMAIN CallIds : (CallIds[i] = c <=> i = m) /\ (CallIds[i] = next <=> i = m + 1)
      <4>1. \A i \in DOMAIN CallIds : CallIds[i] = <<Len(replies), i>> /\ i \in Nat
        BY <1>4
      <4> QED BY <3>2, <4>1
    <3>4. \A i \in DOMAIN CallIds : /\ CallIds[i] \in DOMAIN answer <=> i <= m
                                    /\ i < m => answer[CallIds[i]] = "ok"
      BY <3>1 DEF PostedTo
    <3>5. \A i \in DOMAIN CallIds : i < m + 1 => answer'[CallIds[i]] = "ok"
      BY <1>1, <1>4, <3>2, <3>3, <3>4
    <3>6. CASE m = Len(Calls)
      <4>1. \A i \in DOMAIN CallIds : CallIds[i] \notin new
        BY <1>4, <1>5, <3>2, <3>3, <3>6
      <4>2. new = {}
        BY <1>5, <4>1 DEF Range
      <4>3. \A i \in DOMAIN CallIds : CallIds[i] \in DOMAIN answer' <=> i <= m
        BY <1>1, <3>4, <4>2
      <4>4. PostedTo(m)'
        BY <1>4, <2>1, <3>2, <3>5, <3>6, <4>3 DEF PostedTo
      <4> QED BY <1>1, <1>2, <2>1, <2>2, <2>4, <3>1, <4>4 DEF Posted
    <3>7. CASE m # Len(Calls)
      <4>1. m + 1 \in DOMAIN CallIds /\ CallIds[m + 1] = next
        BY <1>4, <3>2, <3>3, <3>7
      <4>2. new = {next}
        BY <1>4, <4>1 DEF new
      <4>3. \A i \in DOMAIN CallIds : CallIds[i] \in DOMAIN answer' <=> i <= m + 1
        BY <1>1, <1>4, <3>2, <3>3, <3>4, <4>2
      <4>4. answer'[CallIds[m + 1]] = "waiting"
        <5>1. next \notin DOMAIN answer
          BY <3>2, <3>4, <4>1
        <5> QED BY <1>1, <4>1, <4>2, <5>1
      <4>5. PostedTo(m + 1)'
        BY <1>4, <2>1, <3>2, <3>5, <4>3, <4>4 DEF PostedTo
      <4> QED BY <1>1, <1>2, <2>1, <2>2, <2>4, <4>1, <4>5 DEF Posted
    <3> QED BY <3>6, <3>7
  <2> QED BY <2>3, <2>4
<1> QED BY <1>6, <1>8, <1>9, <1>10 DEF Loop

LEMMA EndKeepsLoop ==
  ASSUME Loop, StepSucceeds \/ StepFallsBack, agentOutputs' \in Seq(ItemType),
         seen' \in Seq(EventType)
  PROVE  Loop'
<1> USE DEF Over
<1>1. /\ LoopTypes /\ Numbers /\ Settled /\ pc = "webhooks" /\ pc' = "continuation"
      /\ UNCHANGED <<req, replies, text, steps, answer, effects>> /\ StepSettled
  BY DEF Loop, StepSucceeds, StepFallsBack
<1>2. told' \subseteq (DOMAIN answer) \X {"output", "error"}
  <2>1. CASE StepSucceeds
    <3>1. \A c \in Range(CallIds) : c \in DOMAIN answer
      BY <1>1, <2>1, AllArePosted DEF StepSucceeds
    <3> QED BY <1>1, <2>1, <3>1 DEF StepSucceeds, LoopTypes
  <2>2. CASE StepFallsBack
    <3>1. CallIds[1] \in DOMAIN answer
      BY <1>1, FirstIsPosted
    <3> QED BY <1>1, <2>2, <3>1 DEF StepFallsBack, LoopTypes
  <2> QED BY <2>1, <2>2
<1>3. LoopTypes'
  BY <1>1, <1>2 DEF LoopTypes
<1>4. Numbers'
  BY <1>1 DEF Numbers
<1>5. Settled'
  <2>1. \A c \in DOMAIN answer : c[1] = steps => c \in Range(CallIds)
    BY <1>1 DEF Loop, Posted, Numbers
  <2> QED BY <1>1, <2>1 DEF Settled, StepSettled
<1> QED BY <1>1, <1>3, <1>4, <1>5 DEF Loop, Posted

\* A reply is appended, of the agent's after the webhooks or after the retry.
LEMMA ReplyKeepsLoop ==
  ASSUME Loop, NEW reply \in Replies, replies' = Append(replies, reply),
         text' = Len(replies) + 1, req' = req, UNCHANGED loopVars,
         \/ pc = "continuation" /\ pc' = "tools"
         \/ pc = "retry" /\ pc' = "answered",
         agentOutputs' \in Seq(ItemType), seen' \in Seq(EventType)
  PROVE  Loop'
<1> USE DEF Over
<1>1. /\ LoopTypes /\ Numbers /\ Settled /\ UNCHANGED <<steps, answer, effects, told>>
  BY DEF Loop, loopVars
<1>2. replies' \in Seq(Replies) /\ Len(replies') = Len(replies) + 1 /\ Len(replies) \in Nat
  BY <1>1 DEF LoopTypes
<1>3. LoopTypes'
  BY <1>1, <1>2 DEF LoopTypes
<1>4. Numbers'
  BY <1>1, <1>2 DEF Numbers
<1>5. Settled'
  BY <1>1 DEF Settled
<1> QED BY <1>3, <1>4, <1>5 DEF Loop, Posted

LEMMA FirstReplyKeepsLoop ==
  ASSUME Loop, NEW reply \in Replies, NEW finish, FirstReply(reply, finish)
  PROVE  Loop'
<1> USE DEF Over
<1>1. /\ LoopTypes /\ Numbers /\ Settled /\ UNCHANGED <<steps, answer, effects, told>>
      /\ UNCHANGED <<req, seen, agentOutputs>> /\ pc = "drain" /\ pc' = "tools"
      /\ replies' = <<reply>> /\ text' = 1
  BY DEF Loop, loopVars, FirstReply
<1>2. replies' \in Seq(Replies) /\ Len(replies') = 1
  BY <1>1
<1>3. LoopTypes'
  BY <1>1, <1>2 DEF LoopTypes
<1>4. Numbers'
  BY <1>1, <1>2 DEF Numbers
<1>5. Settled'
  BY <1>1 DEF Settled
<1> QED BY <1>1, <1>3, <1>4, <1>5 DEF Loop, Posted

LEMMA NextLoop == Loop /\ [Next]_vars => Loop'
<1> SUFFICES ASSUME Loop, [Next]_vars PROVE Loop'
  OBVIOUS
<1>0. agentOutputs' \in Seq(ItemType) /\ seen' \in Seq(EventType)
  BY OutputsGain DEF Loop
<1>1. CASE AgentSpeaks
  BY <1>0, <1>1, LoopStays DEF AgentSpeaks, AgentEvent
<1>2. CASE AgentFails \/ CallsRefused \/ StepFails \/ \E reply \in Replies : RetryFails(reply)
  BY <1>0, <1>2, LoopStays DEF AgentFails, CallsRefused, StepFails, RetryFails, Fail, Over
<1>3. CASE Disconnect
  BY <1>0, <1>3, LoopStays DEF Disconnect, Over
<1>4. CASE NoCalls \/ ClientCalls \/ ServerLimit
  BY <1>0, <1>4, LoopStays DEF NoCalls, ClientCalls, ServerLimit
<1>5. CASE Answer \/ SchemaRefuses
  BY <1>0, <1>5, LoopStays DEF Answer, SchemaRefuses, Complete
<1>6. CASE ServerStep
  BY <1>0, <1>6, StepKeepsLoop
<1>7. ASSUME NEW c \in DOMAIN answer,
             WebhookResponds(c) \/ WebhookFails(c) \/ WebhookTakesEffect(c) \/ WebhookAnswers(c)
      PROVE  Loop'
  <2>1. CASE WebhookResponds(c)
    BY <2>1, AnswerKeepsLoop DEF WebhookResponds, drainVars
  <2>2. CASE WebhookFails(c)
    BY <2>2, AnswerKeepsLoop DEF WebhookFails, drainVars
  <2> QED BY <1>7, <2>1, <2>2, EffectKeepsLoop, AnswersKeepLoop
<1>8. CASE StepSucceeds \/ StepFallsBack
  BY <1>0, <1>8, EndKeepsLoop
<1>9. ASSUME NEW reply \in Replies, AgentContinues(reply) PROVE Loop'
  BY <1>0, <1>9, ReplyKeepsLoop DEF AgentContinues
<1>10. ASSUME NEW reply \in Replies, NEW finish, RetryAnswers(reply, finish) PROVE Loop'
  BY <1>0, <1>10, ReplyKeepsLoop DEF RetryAnswers, Complete
<1>11. ASSUME NEW reply \in Replies, NEW finish, FirstReply(reply, finish) PROVE Loop'
  BY <1>11, FirstReplyKeepsLoop
<1>12. CASE UNCHANGED vars
  BY <1>0, <1>12, LoopStays DEF vars, loopVars
<1> QED BY <1>1, <1>2, <1>3, <1>4, <1>5, <1>6, <1>7, <1>8, <1>9, <1>10, <1>11, <1>12
        DEF Next, Prompted, Proceed, PostReturns, BodyReturns

LEMMA LoopHolds == Spec => []Loop
BY InitLoop, NextLoop, PTL DEF Spec

(***************************************************************************)
(* What the loop's steps do to the calls.  All other steps leave the calls *)
(* alone, and none of them begins or ends a step of the loop.              *)
(***************************************************************************)
CallsRest ==
  /\ req' = req /\ UNCHANGED loopVars
  /\ \/ UNCHANGED <<pc, replies>>
     \/ pc' \in Over
     \/ pc \notin {"webhooks"} \cup Over /\ pc' \notin {"webhooks"} \cup Over

Returns(c) == WebhookResponds(c) \/ WebhookFails(c) \/ WebhookAnswers(c)

LEMMA StepKinds ==
  ASSUME [Next]_vars
  PROVE  \/ CallsRest
         \/ ServerStep \/ StepSucceeds \/ StepFallsBack
         \/ \E c \in DOMAIN answer : Returns(c) \/ WebhookTakesEffect(c)
<1> USE DEF CallsRest, Over
<1>1. CASE AgentSpeaks \/ Disconnect \/ UNCHANGED vars
  BY <1>1 DEF AgentSpeaks, AgentEvent, Disconnect, vars, loopVars
<1>2. CASE AgentFails \/ CallsRefused \/ StepFails \/ \E reply \in Replies : RetryFails(reply)
  BY <1>2 DEF AgentFails, CallsRefused, StepFails, RetryFails, Fail
<1>3. CASE NoCalls \/ ClientCalls \/ ServerLimit \/ Answer \/ SchemaRefuses
  BY <1>3 DEF NoCalls, ClientCalls, ServerLimit, Answer, SchemaRefuses, Complete
<1>4. ASSUME NEW reply, NEW finish,
             AgentContinues(reply) \/ FirstReply(reply, finish) \/ RetryAnswers(reply, finish)
      PROVE  CallsRest
  BY <1>4 DEF AgentContinues, FirstReply, RetryAnswers, Complete
<1> QED BY <1>1, <1>2, <1>3, <1>4
        DEF Next, Prompted, Proceed, PostReturns, BodyReturns, Returns

\* What a POST's return changes is its own call's answer, and whether the next call
\* of the step is POSTed.
LEMMA ReturnsChange ==
  ASSUME Loop, NEW c \in DOMAIN answer, Returns(c)
  PROVE  /\ pc = "webhooks" /\ answer[c] \in {"waiting", "head"}
         /\ c \in Range(CallIds) /\ c[1] = Len(replies) /\ c[1] = steps
         /\ UNCHANGED <<req, pc, replies, steps, effects, told, agentOutputs, text, reason>>
         /\ DOMAIN answer \subseteq DOMAIN answer'
         /\ \A d \in DOMAIN answer : d # c => answer'[d] = answer[d]
         /\ \A d \in DOMAIN answer' \ DOMAIN answer :
              /\ answer'[c] = "ok" /\ answer'[d] = "waiting"
              /\ d \in Range(CallIds) /\ d[1] = c[1] /\ d[2] = c[2] + 1
<1>1. /\ pc = "webhooks" /\ answer[c] \in {"waiting", "head"}
      /\ UNCHANGED <<req, pc, replies, steps, effects, told, agentOutputs, text, reason>>
  BY DEF Returns, WebhookResponds, WebhookFails, WebhookAnswers, drainVars
<1>2. c \in Range(CallIds) /\ c[1] = Len(replies) /\ c[1] = steps
  BY <1>1, WaitedIsLast
<1>3. CASE WebhookResponds(c) \/ WebhookFails(c)
  <2>1. PICK a \in {"head", "err"} : answer' = [answer EXCEPT ![c] = a]
    BY <1>3 DEF WebhookResponds, WebhookFails
  <2>2. DOMAIN answer' = DOMAIN answer /\ \A d \in DOMAIN answer : d # c => answer'[d] = answer[d]
    BY <2>1 DEF Loop, LoopTypes
  <2> QED BY <1>1, <1>2, <2>2
<1>4. CASE WebhookAnswers(c)
  <2> DEFINE new == {<<c[1], c[2] + 1>>} \cap Range(CallIds)
  <2>1. /\ DOMAIN answer' = DOMAIN answer \cup new
        /\ answer'[c] = "ok"
        /\ \A d \in DOMAIN answer : d # c => answer'[d] = answer[d]
        /\ \A d \in new \ DOMAIN answer : answer'[d] = "waiting"
    BY <1>4, AnswerPosts
  <2>2. \A d \in new : d \in Range(CallIds) /\ d[1] = c[1] /\ d[2] = c[2] + 1
    OBVIOUS
  <2> HIDE DEF new
  <2> QED BY <1>1, <1>2, <2>1, <2>2
<1> QED BY <1>3, <1>4 DEF Returns

\* ServerStep POSTs the first calls of the reply that has the next number.
LEMMA StepPosts ==
  ASSUME Loop, ServerStep
  PROVE  /\ pc = "tools" /\ pc' = "webhooks" /\ Len(replies) = steps + 1 /\ steps < MaxToolSteps
         /\ UNCHANGED <<req, replies, effects, told, text, reason>> /\ steps' = steps + 1
         /\ StartsWith \subseteq Range(CallIds) /\ CallIds' = CallIds
         /\ DOMAIN answer' = DOMAIN answer \cup StartsWith
         /\ \A d \in DOMAIN answer : answer'[d] = answer[d] /\ d[1] <= steps
         /\ \A d \in Range(CallIds) :
              d \notin DOMAIN answer /\ d[1] = steps + 1 /\ (d \in StartsWith => answer'[d] = "waiting")
<1>1. /\ LoopTypes /\ Numbers /\ pc = "tools" /\ pc' = "webhooks"
      /\ steps' = steps + 1 /\ answer' = Posts(StartsWith) /\ Calls # <<>>
      /\ UNCHANGED <<req, replies, effects, told, text, reason>>
      /\ Len(replies) = steps + 1 /\ Len(replies) >= 1
  BY DEF Loop, ServerStep, Numbers, Over
<1>2. /\ DOMAIN CallIds = 1..Len(Calls) /\ Len(Calls) \in Nat /\ Len(Calls) >= 1
      /\ \A i \in 1..Len(Calls) : CallIds[i] \in Range(CallIds)
      /\ Range(CallIds) = {<<Len(replies), i>> : i \in 1..Len(Calls)}
  BY <1>1, CallsAreNumbered
<1>3. StartsWith \subseteq Range(CallIds)
  BY <1>2 DEF StartsWith
<1>4. steps \in Nat /\ steps < MaxToolSteps
  BY <1>1, TurnAssumption DEF LoopTypes, ServerStep, AtLimit
<1>5. /\ DOMAIN answer' = DOMAIN answer \cup StartsWith
      /\ \A d \in DOMAIN answer : answer'[d] = answer[d]
      /\ \A d \in StartsWith \ DOMAIN answer : answer'[d] = "waiting"
  BY <1>1 DEF Posts
<1>6. \A d \in DOMAIN answer : d[1] <= steps
  BY <1>1, <1>4 DEF Numbers
<1>7. \A d \in Range(CallIds) : d[1] = steps + 1
  BY <1>1, <1>2
<1>8. \A d \in Range(CallIds) : d \notin DOMAIN answer
  BY <1>4, <1>6, <1>7
<1> QED BY <1>1, <1>3, <1>4, <1>5, <1>6, <1>7, <1>8, CallsStay

(***************************************************************************)
(* What the agent is told.                                                 *)
(***************************************************************************)
LEMMA TellingKept == Loop /\ Telling /\ [Next]_vars => Telling'
<1> SUFFICES ASSUME Loop, Telling, [Next]_vars PROVE Telling'
  OBVIOUS
<1> USE DEF Over
<1>1. /\ \A t \in told : IF t[2] = "output" THEN t[1] \in Range(effects)
                         ELSE req.fallback /\ t[1][2] = 1
      /\ \A c \in DOMAIN answer : Heard(c) \/ (pc = "webhooks" /\ c[1] = Len(replies)) \/ pc \in Over
  BY DEF Telling
<1>2. CASE CallsRest
  BY <1>1, <1>2 DEF CallsRest, loopVars, Telling, Heard
<1>3. CASE ServerStep
  <2>1. /\ pc = "tools" /\ pc' = "webhooks" /\ Len(replies) = steps + 1
        /\ UNCHANGED <<req, replies, effects, told>>
        /\ \A c \in DOMAIN answer' : c \in DOMAIN answer \/ c[1] = Len(replies)
    <3>1. /\ pc = "tools" /\ pc' = "webhooks" /\ Len(replies) = steps + 1
          /\ UNCHANGED <<req, replies, effects, told>>
          /\ DOMAIN answer' = DOMAIN answer \cup StartsWith
          /\ StartsWith \subseteq Range(CallIds)
          /\ \A d \in Range(CallIds) : d[1] = steps + 1
      BY <1>3, StepPosts
    <3> QED BY <3>1
  <2> QED BY <1>1, <2>1 DEF Telling, Heard
<1>4. CASE StepSucceeds
  <2>1. /\ pc = "webhooks" /\ StepSettled /\ ~StepFailed
        /\ told' = told \cup {<<c, "output">> : c \in Range(CallIds)}
        /\ UNCHANGED <<req, replies, answer, effects>>
    BY <1>4 DEF StepSucceeds
  <2>2. \A c \in Range(CallIds) : c \in Range(effects)
    BY <2>1, AllArePosted DEF Loop, Settled
  <2>3. \A c \in DOMAIN answer : c[1] = Len(replies) => c \in Range(CallIds)
    BY <2>1 DEF Loop, Posted
  <2>4. \A t \in told' : IF t[2] = "output" THEN t[1] \in Range(effects)
                         ELSE req.fallback /\ t[1][2] = 1
    BY <1>1, <2>1, <2>2
  <2>5. \A c \in DOMAIN answer : Heard(c)'
    BY <1>1, <2>1, <2>3 DEF Heard
  <2> QED BY <2>1, <2>4, <2>5 DEF Telling
<1>5. CASE StepFallsBack
  <2>1. /\ pc = "webhooks" /\ req.fallback
        /\ told' = told \cup {<<CallIds[1], "error">>}
        /\ UNCHANGED <<req, replies, answer, effects>>
    BY <1>5 DEF StepFallsBack
  <2>2. CallIds[1] = <<Len(replies), 1>>
    BY <2>1, FirstIsPosted
  <2>3. \A t \in told' : IF t[2] = "output" THEN t[1] \in Range(effects)
                         ELSE req.fallback /\ t[1][2] = 1
    BY <1>1, <2>1, <2>2
  <2>4. \A c \in DOMAIN answer : Heard(c)'
    BY <1>1, <2>1, <2>2 DEF Heard
  <2> QED BY <2>1, <2>3, <2>4 DEF Telling
<1>6. ASSUME NEW c \in DOMAIN answer, Returns(c) PROVE Telling'
  <2>1. /\ pc = "webhooks" /\ c[1] = Len(replies)
        /\ UNCHANGED <<req, pc, replies, effects, told>>
        /\ \A d \in DOMAIN answer' : d \in DOMAIN answer \/ d[1] = c[1]
    BY <1>6, ReturnsChange
  <2> QED BY <1>1, <2>1 DEF Telling, Heard
<1>7. ASSUME NEW c \in DOMAIN answer, WebhookTakesEffect(c) PROVE Telling'
  <2>1. Range(effects') = Range(effects) \cup {c}
    BY <1>7, EffectKeepsLoop
  <2> QED BY <1>1, <1>7, <2>1 DEF Telling, Heard, WebhookTakesEffect
<1> QED BY <1>2, <1>3, <1>4, <1>5, <1>6, <1>7, StepKinds

LEMMA InitTelling == Init => Telling
BY DEF Init, Telling

\* The agent is told the output of a call only if the call took effect, and an error
\* only under the fallback; an answered turn told it of every effect, or of its step's
\* failure (the continuation prompts of tool_loop.rs, whatever the timeouts).
THEOREM AgentsAreToldWhatIsDone == Spec => []ToldIsDone
<1>1. Loop /\ Telling => ToldIsDone
  <2> SUFFICES ASSUME Loop, Telling PROVE ToldIsDone
    OBVIOUS
  <2>1. Range(effects) \subseteq DOMAIN answer
    BY DEF Loop, LoopTypes, Range
  <2>2. pc = "answered" => \A c \in DOMAIN answer : Heard(c)
    BY DEF Telling, Over
  <2> QED BY <2>1, <2>2 DEF Telling, ToldIsDone, Heard
<1>2. Telling /\ Loop /\ [Next]_vars => Telling'
  BY TellingKept
<1> QED BY <1>1, <1>2, InitTelling, LoopHolds, PTL DEF Spec

(***************************************************************************)
(* The order of effects.                                                   *)
(***************************************************************************)
LEMMA OneByOneKept == Loop /\ OneByOne /\ [Next]_vars => OneByOne'
<1> SUFFICES ASSUME Loop, OneByOne, [Next]_vars, Sequential' PROVE OneByOne'
  BY DEF OneByOne
<1> USE DEF Over
<1>0. req' = req /\ Sequential
  <2>1. req' = req
    BY StepKinds, ReturnsChange, StepPosts
    DEF CallsRest, StepSucceeds, StepFallsBack, WebhookTakesEffect
  <2> QED BY <2>1 DEF Sequential
<1>1. /\ \A d, e \in DOMAIN answer : Less(d, e) => answer[d] = "ok"
      /\ pc \notin {"webhooks"} \cup Over => \A d \in DOMAIN answer : answer[d] = "ok"
      /\ \A i, j \in DOMAIN effects : i < j => Less(effects[i], effects[j])
  BY <1>0 DEF OneByOne
<1>2. DOMAIN answer \subseteq Nat \X Nat /\ steps \in Nat
  BY TurnAssumption DEF Loop, LoopTypes
<1>3. CASE CallsRest
  BY <1>1, <1>3 DEF CallsRest, loopVars, OneByOne, Less
<1>4. CASE ServerStep
  <2>1. /\ pc = "tools" /\ pc' = "webhooks" /\ effects' = effects
        /\ StartsWith \subseteq Range(CallIds)
        /\ DOMAIN answer' = DOMAIN answer \cup StartsWith
        /\ \A d \in DOMAIN answer : answer'[d] = answer[d] /\ d[1] <= steps
        /\ \A d \in Range(CallIds) : d[1] = steps + 1
    BY <1>4, StepPosts
  <2>2. \A d \in StartsWith : d = CallIds[1] /\ d[1] = steps + 1
    BY <1>0, <2>1 DEF StartsWith, Sequential
  <2>3. ASSUME NEW d \in DOMAIN answer', NEW e \in DOMAIN answer', Less(d, e)
        PROVE  answer'[d] = "ok"
    <3>1. CASE d \in DOMAIN answer
      BY <1>1, <2>1, <3>1
    <3>2. CASE d \in StartsWith /\ e \in StartsWith
      <4>1. e[2] = d[2] /\ e[1] = d[1] /\ e[1] \in Int /\ CallIds[1] = e
        BY <1>2, <2>2, <3>2
      <4>2. e[2] \in Nat
        BY <1>4, <3>2, <2>1, CallsAreNumbered DEF Loop, Numbers, ServerStep
      <4> QED BY <2>3, <4>1, <4>2 DEF Less
    <3>3. CASE d \in StartsWith /\ e \in DOMAIN answer
      <4>1. d[1] = steps + 1 /\ e[1] <= steps /\ e[1] \in Nat
        BY <1>2, <2>1, <2>2, <3>3
      <4> QED BY <1>2, <2>3, <4>1 DEF Less
    <3> QED BY <2>1, <3>1, <3>2, <3>3
  <2> QED BY <1>1, <2>1, <2>3 DEF OneByOne, Less
<1>5. CASE StepSucceeds
  <2>1. /\ pc = "webhooks" /\ StepSettled /\ ~StepFailed /\ UNCHANGED <<answer, effects>>
    BY <1>5 DEF StepSucceeds
  <2>2. ASSUME NEW d \in DOMAIN answer PROVE answer[d] = "ok"
    <3>1. d[1] \in Nat /\ d[1] <= steps /\ Len(replies) = steps
      BY <1>2, <2>1 DEF Loop, Numbers
    <3>2. CASE d[1] = steps
      BY <2>1, <3>1, <3>2, AllArePosted DEF Loop, Posted
    <3>3. CASE d[1] < steps
      <4>1. CallIds[1] = <<steps, 1>> /\ CallIds[1] \in DOMAIN answer
        BY <2>1, <3>1, FirstIsPosted
      <4> QED BY <1>1, <3>3, <4>1 DEF Less
    <3> QED BY <1>2, <3>1, <3>2, <3>3
  <2> QED BY <1>1, <2>1, <2>2 DEF OneByOne, Less
<1>6. CASE StepFallsBack
  BY <1>0, <1>6 DEF StepFallsBack, Sequential
<1>7. ASSUME NEW c \in DOMAIN answer, Returns(c) PROVE OneByOne'
  <2>1. /\ answer[c] # "ok" /\ pc' = "webhooks" /\ effects' = effects
        /\ DOMAIN answer \subseteq DOMAIN answer'
        /\ \A d \in DOMAIN answer : d # c => answer'[d] = answer[d]
        /\ \A d \in DOMAIN answer' \ DOMAIN answer :
             answer'[c] = "ok" /\ d[1] = c[1] /\ d[2] = c[2] + 1
    BY <1>7, ReturnsChange
  <2>2. c[1] \in Nat /\ c[2] \in Nat
    BY <1>2
  <2>3. \A d \in DOMAIN answer : ~Less(c, d)
    BY <1>1, <2>1
  <2>4. ASSUME NEW d \in DOMAIN answer', NEW e \in DOMAIN answer', Less(d, e)
        PROVE  answer'[d] = "ok"
    <3>1. CASE d \in DOMAIN answer /\ e \in DOMAIN answer
      BY <1>1, <2>1, <2>3, <2>4, <3>1
    <3>2. CASE d \in DOMAIN answer /\ e \notin DOMAIN answer
      <4>1. d[1] \in Nat /\ d[2] \in Nat /\ d = <<d[1], d[2]>> /\ c = <<c[1], c[2]>>
        BY <1>2, <3>2
      <4>2. d = c \/ Less(d, c)
        BY <2>1, <2>2, <2>4, <3>2, <4>1 DEF Less
      <4> QED BY <1>1, <2>1, <3>2, <4>2
    <3>3. CASE d \notin DOMAIN answer
      <4>1. d[1] = c[1] /\ d[2] = c[2] + 1
        BY <2>1, <3>3
      <4>2. CASE e \in DOMAIN answer
        <5>1. e[1] \in Nat /\ e[2] \in Nat
          BY <1>2, <4>2
        <5> QED BY <2>2, <2>3, <2>4, <4>1, <4>2, <5>1 DEF Less
      <4>3. CASE e \notin DOMAIN answer
        BY <2>1, <2>2, <2>4, <4>1, <4>3 DEF Less
      <4> QED BY <4>2, <4>3
    <3> QED BY <3>1, <3>2, <3>3
  <2> QED BY <1>1, <2>1, <2>4 DEF OneByOne, Less
<1>8. ASSUME NEW c \in DOMAIN answer, WebhookTakesEffect(c) PROVE OneByOne'
  <2>1. /\ c \notin Range(effects) /\ effects' = Append(effects, c)
        /\ UNCHANGED <<pc, answer>>
    BY <1>8 DEF WebhookTakesEffect
  <2>2. effects \in Seq(DOMAIN answer)
    BY DEF Loop, LoopTypes
  <2>3. ASSUME NEW i \in DOMAIN effects PROVE Less(effects[i], c)
    <3>1. effects[i] \in DOMAIN answer /\ effects[i] # c
      BY <2>1, <2>2 DEF Range
    <3>2. ~Less(c, effects[i])
      BY <1>1, <2>1, <3>1 DEF Loop, Settled
    <3>3. \A d \in DOMAIN answer : d[1] \in Nat /\ d[2] \in Nat /\ d = <<d[1], d[2]>>
      BY <1>2
    <3> QED BY <3>1, <3>2, <3>3 DEF Less
  <2>4. \A i, j \in DOMAIN effects' : i < j => Less(effects'[i], effects'[j])
    <3>1. /\ DOMAIN effects' = 1..Len(effects) + 1 /\ DOMAIN effects = 1..Len(effects)
          /\ \A i \in DOMAIN effects : effects'[i] = effects[i]
          /\ effects'[Len(effects) + 1] = c /\ Len(effects) \in Nat
      BY <2>1, <2>2
    <3>2. ASSUME NEW i \in DOMAIN effects', NEW j \in DOMAIN effects', i < j
          PROVE  Less(effects'[i], effects'[j])
      <4>1. i \in DOMAIN effects /\ (j \in DOMAIN effects \/ j = Len(effects) + 1)
        BY <3>1, <3>2
      <4> QED BY <1>1, <2>3, <3>1, <3>2, <4>1
    <3> QED BY <3>2
  <2> QED BY <1>1, <2>1, <2>4 DEF OneByOne, Less
<1> QED BY <1>3, <1>4, <1>5, <1>6, <1>7, <1>8, StepKinds

\* One after another and without the fallback, webhooks take effect in the order the
\* agent asked for them (execute_calls), however late the effect of a POST is.
THEOREM EffectsStayInOrder == Spec => []EffectsKeepOrder
<1>1. OneByOne => EffectsKeepOrder
  BY DEF OneByOne, EffectsKeepOrder, Sequential, Less
<1>2. Init => OneByOne
  BY DEF Init, OneByOne
<1>3. Loop /\ OneByOne /\ [Next]_vars => OneByOne'
  BY OneByOneKept
<1> QED BY <1>1, <1>2, <1>3, LoopHolds, PTL DEF Spec

(***************************************************************************)
(* What the limit cuts off.                                                *)
(***************************************************************************)
ListingOf(item) ==
  \/ Accounted(item.nr, item.of)
  \/ pc = "webhooks" /\ <<item.nr, item.of>> \in Range(CallIds)
  \/ pc \in Over

\* A call that is accounted for stays so: answers that came are final.
LEMMA AccountedStays ==
  ASSUME NEW nr, NEW of, Accounted(nr, of), req' = req,
         DOMAIN answer \subseteq DOMAIN answer',
         \A d \in DOMAIN answer : answer[d] = "err" => answer'[d] = "err"
  PROVE  Accounted(nr, of)'
BY DEF Accounted

LEMMA FallbackAccounts ==
  ASSUME Loop, StepFallsBack, NEW c \in Range(CallIds)
  PROVE  Accounted(c[1], c[2])
<1>1. /\ pc = "webhooks" /\ StepFailed /\ req.fallback /\ Len(replies) >= 1
  BY DEF StepFallsBack, Loop, Numbers, Over
<1>2. /\ DOMAIN CallIds = 1..Len(Calls) /\ Len(Calls) \in Nat
      /\ \A i \in 1..Len(Calls) : CallIds[i] = <<Len(replies), i>>
  BY <1>1, CallsAreNumbered DEF Loop
<1>3. PICK i \in 1..Len(Calls) : c = CallIds[i]
  BY <1>2 DEF Range
<1>4. c = <<c[1], c[2]>> /\ c[1] = Len(replies) /\ c[2] = i
  BY <1>2, <1>3
<1>5. CASE c \in DOMAIN answer
  BY <1>4, <1>5 DEF Accounted
<1>6. CASE c \notin DOMAIN answer
  <2>1. ~req.parallel
    BY <1>1, <1>6 DEF Loop, Posted
  <2>2. PICK m \in DOMAIN CallIds : PostedTo(m)
    BY <1>1, <2>1 DEF Loop, Posted
  <2>3. m < i /\ m \in Nat
    BY <1>2, <1>3, <1>6, <2>2 DEF PostedTo
  <2>4. PICK k \in DOMAIN CallIds : CallIds[k] \in DOMAIN answer /\ answer[CallIds[k]] = "err"
    BY <1>1 DEF StepFailed, Range
  <2>5. k = m
    BY <1>2, <2>2, <2>3, <2>4 DEF PostedTo
  <2>6. <<c[1], m>> \in DOMAIN answer /\ answer[<<c[1], m>>] = "err" /\ m \in 1..c[2] - 1
    BY <1>2, <1>4, <2>3, <2>4, <2>5
  <2> QED BY <1>1, <2>6 DEF Accounted
<1> QED BY <1>5, <1>6

LEMMA ListingStays ==
  ASSUME Loop, [Next]_vars, NEW item \in ItemType, ListingOf(item)
  PROVE  ListingOf(item)'
<1> USE DEF Over, ListingOf
<1> DEFINE c == <<item.nr, item.of>>
<1>1. CASE CallsRest
  <2>1. UNCHANGED <<req, answer>>
    BY <1>1 DEF CallsRest, loopVars
  <2>2. CASE Accounted(item.nr, item.of)
    BY <2>1, <2>2, AccountedStays
  <2>3. CASE pc = "webhooks" /\ c \in Range(CallIds)
    BY <1>1, <2>3, CallsStay DEF CallsRest
  <2>4. CASE pc \in Over
    BY <1>1, <2>4 DEF CallsRest
  <2> QED BY <2>2, <2>3, <2>4
<1>2. CASE ServerStep
  <2>1. /\ pc = "tools" /\ req' = req /\ DOMAIN answer \subseteq DOMAIN answer'
        /\ \A d \in DOMAIN answer : answer'[d] = answer[d]
    BY <1>2, StepPosts
  <2> QED BY <2>1, AccountedStays
<1>3. CASE StepSucceeds
  <2>1. /\ pc = "webhooks" /\ StepSettled /\ ~StepFailed /\ UNCHANGED <<req, answer>>
    BY <1>3 DEF StepSucceeds
  <2>2. Accounted(item.nr, item.of)
    BY <2>1, AllArePosted DEF Accounted
  <2> QED BY <2>1, <2>2, AccountedStays
<1>4. CASE StepFallsBack
  <2>1. pc = "webhooks" /\ UNCHANGED <<req, answer>>
    BY <1>4 DEF StepFallsBack
  <2>2. Accounted(item.nr, item.of)
    <3>1. CASE c \in Range(CallIds)
      <4>1. Accounted(c[1], c[2])
        BY <1>4, <3>1, FallbackAccounts
      <4> QED BY <4>1
    <3> QED BY <2>1, <3>1
  <2> QED BY <2>1, <2>2, AccountedStays
<1>5. ASSUME NEW d \in DOMAIN answer, Returns(d) PROVE ListingOf(item)'
  <2>1. /\ pc = "webhooks" /\ answer[d] # "err" /\ UNCHANGED <<req, pc, replies>>
        /\ DOMAIN answer \subseteq DOMAIN answer'
        /\ \A e \in DOMAIN answer : e # d => answer'[e] = answer[e]
    BY <1>5, ReturnsChange
  <2> QED BY <2>1, AccountedStays, CallsStay
<1>6. ASSUME NEW d \in DOMAIN answer, WebhookTakesEffect(d) PROVE ListingOf(item)'
  <2>1. UNCHANGED <<req, pc, replies, answer>>
    BY <1>6 DEF WebhookTakesEffect
  <2> QED BY <2>1, AccountedStays, CallsStay
<1> QED BY <1>1, <1>2, <1>3, <1>4, <1>5, <1>6, StepKinds

LEMMA ListingKept == Loop /\ Listing /\ [Next]_vars => Listing'
<1> SUFFICES ASSUME Loop, Listing, [Next]_vars, req'.mode = "server",
                    NEW item \in Range(agentOutputs'), item.type = "call"
             PROVE  ListingOf(item)'
  BY DEF Listing, ListingOf
<1>0. req' = req
  BY StepKinds, ReturnsChange, StepPosts
  DEF CallsRest, StepSucceeds, StepFallsBack, WebhookTakesEffect
<1>1. item \in Range(agentOutputs) \/ Gain(item)
  BY OutputsGain DEF Loop
<1>2. CASE item \in Range(agentOutputs)
  <2>1. item \in ItemType
    BY <1>2 DEF Loop, LoopTypes, Range
  <2>2. ListingOf(item)
    BY <1>0, <1>2 DEF Listing, ListingOf
  <2> QED BY <2>1, <2>2, ListingStays
<1>3. CASE Gain(item)
  <2>1. ListsCalls /\ \E c \in Range(CallIds) : item = CallItem(c)
    BY <1>3 DEF Gain, Message, Item
  <2>2. PICK c \in Range(CallIds) : item = CallItem(c)
    BY <2>1
  <2>3. pc = "tools" /\ Len(replies) = steps + 1 /\ Len(replies) >= 1 /\ ~ClientCalls
    BY <1>0, <2>1 DEF ListsCalls, ClientCalls, ServerLimit, ServerStep, Loop, Numbers, Over
  <2>4. c = <<c[1], c[2]>> /\ c[1] = Len(replies)
    BY <2>2, <2>3, CallsAreNumbered DEF Loop
  <2>5. item.nr = c[1] /\ item.of = c[2]
    BY <2>2 DEF CallItem, Item
  <2>6. CASE ServerStep
    <3>1. pc' = "webhooks" /\ CallIds' = CallIds
      BY <2>6, StepPosts
    <3> QED BY <2>2, <2>4, <2>5, <3>1 DEF ListingOf
  <2>7. CASE ServerLimit
    <3>1. steps = MaxToolSteps
      BY <2>7, TurnAssumption DEF ServerLimit, AtLimit, Loop, LoopTypes
    <3> QED BY <2>3, <2>4, <2>5, <3>1 DEF ListingOf, Accounted
  <2> QED BY <2>1, <2>3, <2>6, <2>7 DEF ListsCalls
<1> QED BY <1>1, <1>2, <1>3

LEMMA RequiredKept == Loop /\ Required /\ [Next]_vars => Required'
<1> SUFFICES ASSUME Loop, Required, [Next]_vars, req'.mode = "server", Tools' # {},
                    RequireToolCall(req'.choice), pc' \in {"schema", "retry", "answered"}
             PROVE  steps' = MaxToolSteps /\ reason' # "none"
  BY DEF Required
<1> USE DEF Over, loopVars
<1>1. CASE UNCHANGED <<req, steps, reason>> /\ pc \in {"schema", "retry", "answered"}
  BY <1>1 DEF Required, Tools
<1>2. CASE NoCalls
  <2>1. /\ req' = req /\ Tools # {} /\ CallsAccepted(Reply, Tools, req.choice) /\ Calls = <<>>
    BY <1>2 DEF NoCalls, Tools
  <2>2. FilterTools(Tools, req.choice) = Tools
    <3>1. req.choice.kind \in {"required", "named"}
      BY <2>1 DEF RequireToolCall
    <3> QED BY <3>1 DEF FilterTools, Tools
  <2>3. Reply.calls = <<>> /\ ValidatesCalls(Reply.calls, req.choice, Tools)
    BY <2>1, <2>2 DEF CallsAccepted, Calls, CallsOf
  <2> QED BY <2>1, <2>3 DEF ValidatesCalls
<1>3. CASE ClientCalls
  BY <1>3 DEF ClientCalls
<1>4. CASE ServerLimit
  BY <1>4, TurnAssumption DEF ServerLimit, AtLimit, Loop, LoopTypes
<1>5. ASSUME NEW reply, NEW finish, RetryAnswers(reply, finish)
      PROVE  steps' = MaxToolSteps /\ reason' # "none"
  BY <1>5 DEF RetryAnswers, Required, Tools
<1>6. CASE Answer \/ SchemaRefuses \/ Disconnect \/ UNCHANGED vars
  BY <1>1, <1>6 DEF Answer, SchemaRefuses, Disconnect, vars
<1>7. ASSUME NEW c \in DOMAIN answer, Returns(c) \/ WebhookTakesEffect(c)
      PROVE  steps' = MaxToolSteps /\ reason' # "none"
  <2>1. UNCHANGED <<req, pc, steps, reason>>
    BY <1>7, ReturnsChange DEF WebhookTakesEffect
  <2> QED BY <1>1, <2>1
<1> QED BY <1>2, <1>3, <1>4, <1>5, <1>6, <1>7
        DEF Next, Prompted, Proceed, PostReturns, BodyReturns, Returns, AgentSpeaks, AgentEvent,
            AgentFails, AgentContinues, RetryFails, FirstReply, CallsRefused, ServerStep,
            StepSucceeds, StepFallsBack, StepFails, Fail

\* A call that an answer lists and that was not POSTed is of the step at the limit or
\* comes after a call that failed; and a turn that must call a tool does not end before
\* the limit (the tests at the head of tool_loop.rs's loop).
THEOREM LimitsCutOff == Spec => []LimitCutsOff
<1>1. Loop /\ Listing /\ Required => LimitCutsOff
  <2> SUFFICES ASSUME Loop, Listing, Required PROVE LimitCutsOff
    OBVIOUS
  <2>1. ASSUME NEW c \in DOMAIN answer PROVE c[1] <= MaxToolSteps
    BY TurnAssumption DEF Loop, LoopTypes, Numbers
  <2>2. ASSUME pc = "answered", req.mode = "server", NEW i \in DOMAIN agentOutputs,
               agentOutputs[i].type = "call",
               <<agentOutputs[i].nr, agentOutputs[i].of>> \notin DOMAIN answer
        PROVE  \/ agentOutputs[i].nr = MaxToolSteps + 1
               \/ req.fallback /\ \E j \in 1..agentOutputs[i].of - 1 :
                                     answer[<<agentOutputs[i].nr, j>>] = "err"
    <3>1. agentOutputs[i] \in Range(agentOutputs)
      BY DEF Range
    <3> QED BY <2>2, <3>1 DEF Listing, Accounted, Over
  <2>3. RequiredTurnsEndAtLimit
    BY DEF Required, RequiredTurnsEndAtLimit, RequireToolCall
  <2> QED BY <2>1, <2>2, <2>3 DEF LimitCutsOff, UnsentCallsAreLast
<1>2. Init => Listing /\ Required
  BY SmallRanges DEF Init, Listing, Required, Range
<1>3. Loop /\ Listing /\ Required /\ [Next]_vars => Listing' /\ Required'
  BY ListingKept, RequiredKept
<1> QED BY <1>1, <1>2, <1>3, LoopHolds, PTL DEF Spec

(***************************************************************************)
(* What a json_schema holds of.                                            *)
(***************************************************************************)
TextVars == <<req, pc, replies, text, agentOutputs>>

LEMMA TextsKept == Loop /\ Texts /\ [Next]_vars => Texts'
<1> SUFFICES ASSUME Loop, Texts, [Next]_vars PROVE Texts'
  OBVIOUS
<1> USE DEF Over
<1>0. /\ LoopTypes /\ Numbers /\ replies \in Seq(Replies) /\ Len(replies) \in Nat
      /\ \A item \in Range(agentOutputs') : item \in Range(agentOutputs) \/ Gain(item)
  BY OutputsGain DEF Loop, LoopTypes
<1>1. CASE UNCHANGED TextVars
  BY <1>1 DEF TextVars, Texts, SchemaHoldsOfText, TextFits
<1>2. ASSUME pc \notin {"schema", "retry", "answered"} \cup Over, ~NoCalls, ~RetryEnds,
             pc' \notin {"schema", "retry", "answered"}
      PROVE  Texts'
  <2>1. \A item \in Range(agentOutputs') : item.type # "message"
    BY <1>0, <1>2 DEF Texts, Gain, CallItem, Item
  <2> QED BY <1>2, <2>1 DEF Texts, SchemaHoldsOfText
<1>3. ASSUME pc' \in Over PROVE Texts'
  BY <1>3 DEF Texts, SchemaHoldsOfText
<1>4. CASE NoCalls
  <2>1. /\ pc = "tools" /\ pc' = "schema" /\ UNCHANGED <<replies, text>> /\ text = Len(replies)
        /\ ~ListsCalls /\ ~RetryEnds
    BY <1>0, <1>4 DEF NoCalls, Numbers, ListsCalls, ClientCalls, ServerLimit, ServerStep,
                      RetryEnds, RetryAnswers
  <2>2. \A item \in Range(agentOutputs') :
          item.type = "message" => item.nr = Len(replies) /\ text = Len(replies)
    BY <1>0, <2>1 DEF Texts, Gain, Message, Item
  <2> QED BY <2>1, <2>2 DEF Texts, SchemaHoldsOfText
<1>5. CASE ClientCalls \/ ServerLimit
  <2>1. /\ pc = "tools" /\ pc' = "schema" /\ replies' = replies /\ text' \in {0, Len(replies)}
        /\ ~NoCalls /\ ~RetryEnds
    BY <1>0, <1>5 DEF Numbers, ClientCalls, ServerLimit, NoCalls, RetryEnds, RetryAnswers
  <2>2. \A item \in Range(agentOutputs') : item.type # "message"
    BY <1>0, <2>1 DEF Texts, Gain, CallItem, Item
  <2> QED BY <2>1, <2>2 DEF Texts, SchemaHoldsOfText
<1>6. CASE SchemaRefuses
  BY <1>6 DEF SchemaRefuses, drainVars, Texts, SchemaHoldsOfText
<1>7. CASE Answer
  <2>1. /\ pc = "schema" /\ pc' = "answered" /\ (req.schema => TextFits)
        /\ UNCHANGED <<req, replies, text, agentOutputs>>
    BY <1>7 DEF Answer, Complete
  <2>2. \A i \in DOMAIN agentOutputs :
          agentOutputs[i].type = "message" => agentOutputs[i].nr = text
    <3>1. \A i \in DOMAIN agentOutputs : agentOutputs[i] \in Range(agentOutputs)
      BY DEF Range
    <3> QED BY <2>1, <3>1 DEF Texts
  <2>3. (req.schema => TextFits)'
    BY <2>1 DEF TextFits
  <2>4. SchemaHoldsOfText'
    BY <2>1, <2>2, <2>3 DEF SchemaHoldsOfText, TextFits
  <2> QED BY <2>1, <2>4 DEF Texts
<1>8. ASSUME NEW reply \in Replies, NEW finish \in {"stop", "length"}, RetryAnswers(reply, finish)
      PROVE  Texts'
  <2>1. /\ pc = "retry" /\ pc' = "answered" /\ reply.json
        /\ replies' = Append(replies, reply) /\ text' = Len(replies) + 1
        /\ ~NoCalls /\ ~ListsCalls
    BY <1>8 DEF RetryAnswers, RetryAccepted, Complete, NoCalls, ListsCalls, ClientCalls,
                ServerLimit, ServerStep
  <2>2. /\ replies'[Len(replies) + 1] = reply /\ Len(replies') = Len(replies) + 1
    BY <1>0, <2>1
  <2>3. ASSUME NEW i \in DOMAIN agentOutputs', agentOutputs'[i].type = "message"
        PROVE  replies'[agentOutputs'[i].nr].json \/ agentOutputs'[i].nr = Len(replies') - 1
    <3> DEFINE item == agentOutputs'[i]
    <3>1. item \in Range(agentOutputs')
      BY DEF Range
    <3>2. CASE item \in Range(agentOutputs)
      <4>1. item.nr = Len(replies)
        BY <2>1, <2>3, <3>2 DEF Texts
      <4> QED BY <1>0, <2>2, <4>1
    <3>3. CASE item = Message(Len(replies) + 1)
      <4>1. item.nr = Len(replies) + 1
        BY <3>3 DEF Message, Item
      <4> QED BY <2>1, <2>2, <4>1
    <3> QED BY <1>0, <2>1, <3>1, <3>2, <3>3 DEF Gain
  <2>4. text' # 0 /\ replies'[text'].json
    BY <1>0, <2>1, <2>2
  <2> QED BY <2>1, <2>3, <2>4 DEF Texts, SchemaHoldsOfText, TextFits
<1>9. CASE AgentSpeaks \/ AgentFails \/ CallsRefused \/ ServerStep \/ StepSucceeds
           \/ StepFallsBack \/ StepFails \/ Disconnect
  BY <1>2, <1>3, <1>9
  DEF AgentSpeaks, AgentEvent, AgentFails, CallsRefused, ServerStep, StepSucceeds, StepFallsBack,
      StepFails, Disconnect, Fail, NoCalls, RetryEnds, RetryAnswers
<1>10. ASSUME NEW reply \in Replies, NEW finish \in {"stop", "length"},
              FirstReply(reply, finish) \/ AgentContinues(reply) \/ RetryFails(reply)
       PROVE  Texts'
  BY <1>2, <1>3, <1>10
  DEF FirstReply, AgentContinues, RetryFails, Fail, NoCalls, RetryEnds, RetryAnswers
<1>11. ASSUME NEW c \in DOMAIN answer, Returns(c) \/ WebhookTakesEffect(c) PROVE Texts'
  BY <1>1, <1>11, ReturnsChange DEF WebhookTakesEffect, TextVars, drainVars
<1>12. CASE UNCHANGED vars
  BY <1>1, <1>12 DEF vars, TextVars
<1> QED BY <1>4, <1>5, <1>6, <1>7, <1>8, <1>9, <1>10, <1>11, <1>12
        DEF Next, Prompted, Proceed, PostReturns, BodyReturns, Returns

\* The text of an answer satisfies the json_schema of its request, and so does a message
\* it lists, unless it was listed before the retry (the check of execute_responses_turn).
THEOREM SchemasHold == Spec => []SchemaHoldsOfText
<1>1. Init => Texts
  BY SmallRanges DEF Init, Texts, SchemaHoldsOfText, Over
<1>2. Loop /\ Texts /\ [Next]_vars => Texts'
  BY TextsKept
<1>3. Texts => SchemaHoldsOfText
  BY DEF Texts
<1> QED BY <1>1, <1>2, <1>3, LoopHolds, PTL DEF Spec

(***************************************************************************)
(* The stream.                                                             *)
(***************************************************************************)
DrainItem == {x \in ItemType : x.type \in {"message", "reasoning", "agent_call"}}
DrainTypes == {"added", "part", "delta", "reasoning", "done"}
CallTypes == {"added", "args", "args_done", "done"}
LastTypes == {"completed", "failed"}
EventTypes == {"created", "in_progress"} \cup DrainTypes \cup CallTypes \cup LastTypes
SentType  == [type : EventTypes, index : Nat, item : ItemType, held : ItemType]

\* What is streamed of the first reply has its types; once there is text, there is an item.
StreamTypes ==
  /\ sent \in Seq(SentType)
  /\ output \in Seq(DrainItem)
  /\ toolIndex \in [ToolIds -> Nat]
  /\ \A id \in ToolIds : toolIndex[id] <= Len(agentOutputs)
  /\ req.streaming /\ pc = "drain" /\ TextStarted => output # <<>>

LEMMA ConcatAssociates ==
  ASSUME NEW S, NEW p \in Seq(S), NEW q \in Seq(S), NEW r \in Seq(S)
  PROVE  (p \o q) \o r = p \o (q \o r)
OBVIOUS

LEMMA FourConcat ==
  ASSUME NEW S, NEW p \in Seq(S), NEW q \in Seq(S), NEW r \in Seq(S), NEW t \in Seq(S)
  PROVE  ((p \o q) \o r) \o t = p \o ((q \o r) \o t)
<1>1. q \o r \in Seq(S)
  OBVIOUS
<1>2. (p \o q) \o r = p \o (q \o r)
  OBVIOUS
<1>3. (p \o (q \o r)) \o t = p \o ((q \o r) \o t)
  BY <1>1
<1> QED BY <1>2, <1>3, Zenon

\* Events about the items of the first reply.
AboutAgent(q) ==
  /\ q \in Seq(SentType)
  /\ \A i \in DOMAIN q : q[i].item \in DrainItem /\ q[i].type \in DrainTypes

LEMMA EventsAreSent ==
  ASSUME NEW type \in EventTypes, NEW index \in Nat, NEW item \in ItemType,
         NEW out \in Seq(ItemType)
  PROVE  /\ Event(type, index, item, out) \in SentType
         /\ Event(type, index, item, out).type = type
         /\ Event(type, index, item, out).item = item
<1>1. NoItem \in ItemType
  BY DEF NoItem, Item, ItemType
<1>2. index \in DOMAIN out => out[index] \in ItemType
  OBVIOUS
<1> QED BY <1>1, <1>2 DEF Event, SentType

LEMMA DrainItemsAreItems ==
  /\ DrainItem \subseteq ItemType
  /\ \A q \in Seq(DrainItem) : q \in Seq(ItemType)
<1>1. DrainItem \subseteq ItemType
  BY DEF DrainItem
<1> QED BY <1>1, SeqGrows

LEMMA AboutAgentEvents ==
  ASSUME NEW type \in DrainTypes, NEW index \in Nat, NEW item \in DrainItem,
         NEW out \in Seq(DrainItem)
  PROVE  AboutAgent(<<Event(type, index, item, out)>>)
<1> DEFINE e == Event(type, index, item, out)
<1>1. e \in SentType /\ e.type = type /\ e.item = item
  <2>1. item \in ItemType /\ out \in Seq(ItemType) /\ type \in EventTypes
    BY DrainItemsAreItems DEF EventTypes
  <2> QED BY <2>1, EventsAreSent
<1> HIDE DEF e
<1>2. <<e>> \in Seq(SentType) /\ DOMAIN <<e>> = {1} /\ <<e>>[1] = e
  BY <1>1
<1>3. AboutAgent(<<e>>)
  BY <1>1, <1>2 DEF AboutAgent
<1> QED BY <1>3 DEF e

LEMMA AboutAgentConcat ==
  ASSUME NEW p, NEW q, AboutAgent(p), AboutAgent(q)
  PROVE  AboutAgent(p \o q) /\ AboutAgent(<<>>)
<1>1. p \o q \in Seq(SentType) /\ <<>> \in Seq(SentType)
  BY DEF AboutAgent
<1>2. \A i \in DOMAIN (p \o q) : \/ i \in DOMAIN p /\ (p \o q)[i] = p[i]
                                 \/ i - Len(p) \in DOMAIN q /\ (p \o q)[i] = q[i - Len(p)]
  BY DEF AboutAgent
<1> QED BY <1>1, <1>2 DEF AboutAgent

LEMMA AgentItems ==
  ASSUME NEW nr \in Nat, NEW id \in ToolIds, NEW kind
  PROVE  LET e == [kind |-> kind, id |-> id, nr |-> nr] IN
         /\ AgentItem(e) \in DrainItem /\ AgentItem(e).type = "agent_call" /\ AgentItem(e).nr = nr
         /\ Item("reasoning", nr, 0) \in DrainItem /\ Item("reasoning", nr, 0).type = "reasoning"
         /\ Message(nr) \in DrainItem /\ Message(nr).type = "message"
BY DEF AgentItem, Item, Message, ItemType, DrainItem

\* An event of the agent appends its events to the stream, and an item at the end of
\* the response at most.
LEMMA AgentEventSends ==
  ASSUME Loop, StreamTypes, NEW kind \in {"delta", "reasoning", "started", "updated"},
         NEW id \in ToolIds, AgentEvent(kind, id)
  PROVE  /\ \E q : AboutAgent(q) /\ sent' = sent \o q
         /\ output' \in Seq(DrainItem)
         /\ toolIndex' \in [ToolIds -> Nat]
         /\ \A i \in ToolIds : toolIndex'[i] <= Len(agentOutputs')
         /\ req.streaming /\ TextStarted' => output' # <<>>
<1> DEFINE e == [kind |-> kind, id |-> id, nr |-> Len(seen) + 1]
           place == Place(agentOutputs, toolIndex, e)
           applied == ApplyTool(agentOutputs, toolIndex, e)
           Sends == \E q : AboutAgent(q) /\ sent' = sent \o q
           Indexed == /\ toolIndex' \in [ToolIds -> Nat]
                      /\ \A i \in ToolIds : toolIndex'[i] <= Len(agentOutputs')
<1>0. /\ agentOutputs \in Seq(ItemType) /\ seen \in Seq(EventType) /\ Len(seen) + 1 \in Nat
      /\ output \in Seq(DrainItem) /\ sent \in Seq(SentType)
      /\ toolIndex \in [ToolIds -> Nat]
      /\ \A i \in ToolIds : toolIndex[i] <= Len(agentOutputs)
      /\ e \in EventType /\ pc = "drain" /\ seen' = Append(seen, e)
  BY DEF Loop, LoopTypes, StreamTypes, AgentEvent, EventType
<1>1. /\ AgentItem(e) \in DrainItem /\ Item("reasoning", e.nr, 0) \in DrainItem
      /\ Message(0) \in DrainItem
  BY <1>0, AgentItems
<1>2. place \in Nat /\ place <= Len(agentOutputs) + 1
  BY <1>0 DEF Place
<1>3. /\ applied.out = IF place \in DOMAIN agentOutputs
                         THEN [agentOutputs EXCEPT ![place] = AgentItem(e)]
                         ELSE Append(agentOutputs, AgentItem(e))
      /\ applied.index = [toolIndex EXCEPT ![id] = place]
  BY DEF ApplyTool
<1>4. applied.out \in Seq(ItemType) /\ Len(applied.out) >= Len(agentOutputs)
      /\ Len(applied.out) >= place
  <2>1. AgentItem(e) \in ItemType
    BY <1>1, DrainItemsAreItems
  <2> HIDE DEF place, applied
  <2> QED BY <1>0, <1>2, <1>3, <2>1
<1>5. ASSUME UNCHANGED <<agentOutputs, toolIndex>> PROVE Indexed
  BY <1>0, <1>5
<1>6. ASSUME agentOutputs' = applied.out, toolIndex' = applied.index PROVE Indexed
  <2> HIDE DEF place, applied
  <2>1. toolIndex' = [toolIndex EXCEPT ![id] = place]
    BY <1>3, <1>6
  <2>2. \A i \in ToolIds : toolIndex'[i] = IF i = id THEN place ELSE toolIndex[i]
    BY <1>0, <2>1
  <2>3. Len(agentOutputs) \in Nat /\ Len(agentOutputs') \in Nat
    BY <1>0, <1>4, <1>6
  <2> QED BY <1>0, <1>2, <1>4, <1>6, <2>1, <2>2, <2>3
<1>7. TextStarted' <=> TextStarted \/ kind = "delta"
  <2>1. \A i \in DOMAIN seen' : (i \in DOMAIN seen /\ seen'[i] = seen[i])
                                \/ (i = Len(seen) + 1 /\ seen'[i] = e)
    BY <1>0
  <2>2. \A i \in DOMAIN seen : i \in DOMAIN seen' /\ seen'[i] = seen[i]
    BY <1>0
  <2>3. Len(seen) + 1 \in DOMAIN seen' /\ seen'[Len(seen) + 1] = e
    BY <1>0
  <2> QED BY <2>1, <2>2, <2>3 DEF TextStarted
<1>8. AboutAgent(<<>>)
  BY DEF AboutAgent
<1>9. CASE ~req.streaming
  <2>1. /\ UNCHANGED <<output, sent>>
        /\ LET acc == SyncStep([out |-> agentOutputs, index |-> toolIndex], e)
           IN  agentOutputs' = acc.out /\ toolIndex' = acc.index
    BY <1>9 DEF AgentEvent
  <2>2. sent' = sent \o <<>>
    BY <1>0, <2>1
  <2>3. CASE kind = "delta"
    BY <1>0, <1>5, <1>8, <1>9, <2>1, <2>2, <2>3 DEF SyncStep
  <2>4. CASE kind = "reasoning"
    <3>1. /\ toolIndex' = toolIndex
          /\ agentOutputs' = Append(agentOutputs, Item("reasoning", e.nr, 0))
      BY <2>1, <2>4 DEF SyncStep
    <3>2. Len(agentOutputs') = Len(agentOutputs) + 1 /\ Len(agentOutputs) \in Nat
      BY <1>0, <3>1
    <3>3. Indexed
      BY <1>0, <3>1, <3>2
    <3> QED BY <1>0, <1>8, <1>9, <2>1, <2>2, <3>3
  <2>5. CASE kind \notin {"delta", "reasoning"}
    <3>1. agentOutputs' = applied.out /\ toolIndex' = applied.index
      BY <2>1, <2>5 DEF SyncStep
    <3>2. Indexed
      BY <1>6, <3>1
    <3> QED BY <1>0, <1>8, <1>9, <2>1, <2>2, <3>2
  <2> QED BY <2>3, <2>4, <2>5
<1>10. CASE req.streaming /\ kind = "delta"
  <2> DEFINE out == IF TextStarted THEN output ELSE Append(output, Message(0))
             q1 == IF TextStarted THEN <<>> ELSE <<Event("added", 1, Message(0), out)>>
             q2 == IF TextStarted \/ out[1].type # "message" THEN <<>>
                   ELSE <<Event("part", 1, Message(0), out)>>
             q3 == <<Event("delta", 1, Message(0), out)>>
  <2>1. output' = out /\ sent' = sent \o q1 \o q2 \o q3 /\ UNCHANGED <<agentOutputs, toolIndex>>
    BY <1>10 DEF AgentEvent, StreamDelta
  <2>2. out \in Seq(DrainItem) /\ out # <<>>
    <3>1. output \in Seq(DrainItem) /\ Message(0) \in DrainItem
      BY <1>0, <1>1
    <3>2. Append(output, Message(0)) \in Seq(DrainItem) /\ Append(output, Message(0)) # <<>>
      BY <3>1
    <3>3. TextStarted => output # <<>>
      BY <1>0, <1>10 DEF StreamTypes
    <3> QED BY <3>1, <3>2, <3>3
  <2> HIDE DEF out
  <2>3. AboutAgent(q1) /\ AboutAgent(q2) /\ AboutAgent(q3)
    <3>1. \A type \in {"added", "part", "delta"} : AboutAgent(<<Event(type, 1, Message(0), out)>>)
      BY <1>1, <2>2, AboutAgentEvents DEF DrainTypes
    <3> QED BY <1>8, <3>1
  <2> HIDE DEF q1, q2, q3
  <2>4. AboutAgent((q1 \o q2) \o q3)
    BY <2>3, AboutAgentConcat
  <2>5. sent' = sent \o ((q1 \o q2) \o q3)
    <3>1. /\ q1 \in Seq(SentType) /\ q2 \in Seq(SentType) /\ q3 \in Seq(SentType)
          /\ q1 \o q2 \in Seq(SentType)
      BY <2>3 DEF AboutAgent
    <3>2. sent \in Seq(SentType)
      BY <1>0
    <3>3. (sent \o q1) \o q2 = sent \o (q1 \o q2)
      BY <3>1, <3>2
    <3>4. (sent \o (q1 \o q2)) \o q3 = sent \o ((q1 \o q2) \o q3)
      <4> DEFINE q12 == q1 \o q2
      <4>1. q12 \in Seq(SentType)
        BY <3>1
      <4> HIDE DEF q12
      <4>2. (sent \o q12) \o q3 = sent \o (q12 \o q3)
        BY <3>1, <3>2, <4>1
      <4> QED BY <4>2 DEF q12
    <3> QED BY <2>1, <3>3, <3>4
  <2> QED BY <1>5, <2>1, <2>2, <2>4, <2>5
<1>11. CASE req.streaming /\ kind = "reasoning"
  <2> DEFINE item == Item("reasoning", e.nr, 0)
             out == Append(output, item)
             q1 == <<Event("added", Len(out), item, out), Event("reasoning", Len(out), item, out)>>
  <2>1. output' = out /\ sent' = sent \o q1 /\ UNCHANGED <<agentOutputs, toolIndex>>
    BY <1>11 DEF AgentEvent, StreamReasoning
  <2>2. out \in Seq(DrainItem) /\ out # <<>> /\ Len(out) \in Nat /\ item \in DrainItem
    <3>1. output \in Seq(DrainItem) /\ item \in DrainItem
      BY <1>0, <1>1
    <3> HIDE DEF item
    <3> QED BY <3>1
  <2> HIDE DEF out, item
  <2>3. AboutAgent(<<Event("added", Len(out), item, out)>>)
        /\ AboutAgent(<<Event("reasoning", Len(out), item, out)>>)
    BY <2>2, AboutAgentEvents DEF DrainTypes
  <2>4. q1 = <<Event("added", Len(out), item, out)>> \o <<Event("reasoning", Len(out), item, out)>>
    BY <2>3 DEF AboutAgent
  <2>5. AboutAgent(q1)
    BY <2>3, <2>4, AboutAgentConcat
  <2> HIDE DEF q1
  <2> QED BY <1>5, <1>7, <2>1, <2>2, <2>5
<1>12. CASE req.streaming /\ kind \in {"started", "updated"}
  <2> DEFINE item == AgentItem(e)
             out == IF kind = "started" THEN Append(output, item)
                    ELSE IF place \in DOMAIN output THEN [output EXCEPT ![place] = item]
                    ELSE output
             q1 == IF kind = "started" THEN <<Event("added", place, item, out)>> ELSE <<>>
             q2 == <<Event("done", place, item, out)>>
  <2>1. /\ output' = out /\ sent' = sent \o q1 \o q2
        /\ agentOutputs' = applied.out /\ toolIndex' = applied.index
    BY <1>12 DEF AgentEvent, StreamTool
  <2>2. out \in Seq(DrainItem) /\ (out = <<>> => output = <<>>) /\ item \in DrainItem
    <3> HIDE DEF place, item
    <3>1. item \in DrainItem
      BY <1>1 DEF item
    <3>2. Append(output, item) \in Seq(DrainItem) /\ Append(output, item) # <<>>
      <4>1. output \in Seq(DrainItem)
        BY <1>0
      <4> QED BY <3>1, <4>1
    <3>3. ASSUME place \in DOMAIN output
          PROVE  [output EXCEPT ![place] = item] \in Seq(DrainItem) /\ output # <<>>
                 /\ [output EXCEPT ![place] = item] # <<>>
      <4> DEFINE r == [output EXCEPT ![place] = item]
      <4>1. r \in Seq(DrainItem)
        BY <1>0, <3>1, <3>3, ReplaceRange
      <4>2. Len(r) = Len(output) /\ output # <<>> /\ Len(output) # 0
        BY <1>0, <3>3
      <4> HIDE DEF r
      <4>3. r # <<>>
        BY <4>1, <4>2
      <4> QED BY <4>1, <4>2, <4>3 DEF r
    <3> QED BY <1>0, <3>1, <3>2, <3>3
  <2> HIDE DEF out, item, place, applied
  <2>3. AboutAgent(q1) /\ AboutAgent(q2)
    <3>1. \A type \in {"added", "done"} : AboutAgent(<<Event(type, place, item, out)>>)
      BY <1>2, <2>2, AboutAgentEvents DEF DrainTypes
    <3> QED BY <1>8, <3>1
  <2> HIDE DEF q1, q2
  <2>4. AboutAgent(q1 \o q2)
    BY <2>3, AboutAgentConcat
  <2>5. sent' = sent \o (q1 \o q2)
    <3>1. q1 \in Seq(SentType) /\ q2 \in Seq(SentType)
      BY <2>3 DEF AboutAgent
    <3>2. sent \in Seq(SentType)
      BY <1>0
    <3>3. sent \o q1 \o q2 = sent \o (q1 \o q2)
      BY <3>1, <3>2
    <3> QED BY <2>1, <3>3
  <2>6. Indexed
    BY <1>6, <2>1
  <2>7. TextStarted' => output' # <<>>
    BY <1>0, <1>7, <1>12, <2>1, <2>2 DEF StreamTypes
  <2> QED BY <2>1, <2>2, <2>4, <2>5, <2>6, <2>7
<1> QED BY <1>9, <1>10, <1>11, <1>12

\* The reply that ends the drain finishes the message, if the stream has one.
LEMMA FirstReplySends ==
  ASSUME Loop, StreamTypes, NEW reply, NEW finish, FirstReply(reply, finish)
  PROVE  /\ \E q : AboutAgent(q) /\ sent' = sent \o q
         /\ output' = <<>> /\ UNCHANGED <<agentOutputs, toolIndex>>
<1> DEFINE out == IF TextStarted /\ output[1].type = "message"
                  THEN [output EXCEPT ![1] = Message(1)] ELSE output
<1>1. /\ output \in Seq(DrainItem) /\ sent \in Seq(SentType) /\ pc = "drain"
      /\ output' = <<>> /\ UNCHANGED <<agentOutputs, toolIndex>>
      /\ sent' = IF req.streaming /\ TextStarted
                 THEN Append(sent, Event("done", 1, out[1], out)) ELSE sent
  BY DEF StreamTypes, FirstReply
<1>2. CASE req.streaming /\ TextStarted
  <2>1. output # <<>>
    BY <1>1, <1>2 DEF StreamTypes
  <2>2. Message(1) \in DrainItem
    BY DEF Message, Item, ItemType, DrainItem
  <2>3. 1 \in DOMAIN output
    BY <1>1, <2>1
  <2>4. [output EXCEPT ![1] = Message(1)] \in Seq(DrainItem)
        /\ DOMAIN [output EXCEPT ![1] = Message(1)] = DOMAIN output
    BY <1>1, <2>2, <2>3, ReplaceRange
  <2>5. out \in Seq(DrainItem) /\ 1 \in DOMAIN out
    BY <1>1, <2>3, <2>4
  <2> HIDE DEF out
  <2>6. out[1] \in DrainItem
    BY <2>5
  <2>7. AboutAgent(<<Event("done", 1, out[1], out)>>)
    BY <2>5, <2>6, AboutAgentEvents DEF DrainTypes
  <2> DEFINE e == Event("done", 1, out[1], out)
  <2>8. sent' = Append(sent, e)
    BY <1>1, <1>2
  <2>9. <<e>> \in Seq(SentType) /\ e \in SentType
    BY <2>7 DEF AboutAgent
  <2>10. AboutAgent(<<e>>)
    BY <2>7
  <2> HIDE DEF e
  <2>11. sent' = sent \o <<e>>
    BY <1>1, <2>8, <2>9
  <2> QED BY <1>1, <2>10, <2>11
<1>3. CASE ~(req.streaming /\ TextStarted)
  <2>1. AboutAgent(<<>>) /\ sent' = sent \o <<>>
    BY <1>1, <1>3 DEF AboutAgent
  <2> QED BY <1>1, <2>1
<1> QED BY <1>2, <1>3

LEMMA Lifecycles ==
  ASSUME NEW type \in EventTypes
  PROVE  /\ Lifecycle(type) \in SentType
         /\ Lifecycle(type).type = type /\ Lifecycle(type).item.type = "none"
         /\ Lifecycle(type).item = NoItem /\ NoItem.type = "none"
<1>1. <<>> \in Seq(ItemType) /\ NoItem \in ItemType /\ NoItem.type = "none"
  BY DEF NoItem, Item, ItemType
<1>2. /\ Event(type, 0, NoItem, <<>>) \in SentType
      /\ Event(type, 0, NoItem, <<>>).type = type /\ Event(type, 0, NoItem, <<>>).item = NoItem
  <2>1. Event(type, 0, NoItem, <<>>) = [type |-> type, index |-> 0, item |-> NoItem, held |-> NoItem]
    BY DEF Event
  <2> QED BY <1>1, <2>1 DEF SentType
<1> QED BY <1>1, <1>2 DEF Lifecycle

\* The turn's end sends one event.
SendsEnd == \E type \in LastTypes : sent' = SendIfStreaming(<<Lifecycle(type)>>)

\* The stream grows in four ways.
LEMMA StreamGrows ==
  ASSUME Loop, StreamTypes, [Next]_vars
  PROVE  \/ /\ pc = "drain" /\ pc' \in {"drain", "tools"} /\ req' = req
            /\ (pc' = "drain" => \E kind \in {"delta", "reasoning", "started", "updated"},
                                    id \in ToolIds : AgentEvent(kind, id))
            /\ (pc' = "tools" => /\ UNCHANGED <<seen, agentOutputs>>
                                 /\ \E reply, finish : FirstReply(reply, finish))
            /\ \E q : AboutAgent(q) /\ sent' = sent \o q
         \/ ClientCalls
         \/ /\ pc \notin {"answered"} \cup Over /\ pc' \in {"answered", "failed"} /\ req' = req
            /\ SendsEnd
         \/ /\ UNCHANGED <<req, sent>>
            /\ pc' = pc \/ (~Ended /\ ~Ended') \/ (~req.streaming /\ ~Ended)
<1>1. ASSUME NEW kind \in {"delta", "reasoning", "started", "updated"}, NEW id \in ToolIds,
             AgentEvent(kind, id)
      PROVE  /\ pc = "drain" /\ pc' = "drain" /\ req' = req
             /\ \E q : AboutAgent(q) /\ sent' = sent \o q
  BY <1>1, AgentEventSends DEF AgentEvent
<1>2. ASSUME NEW reply \in Replies, NEW finish \in {"stop", "length"}, FirstReply(reply, finish)
      PROVE  /\ pc = "drain" /\ pc' = "tools" /\ req' = req /\ UNCHANGED <<seen, agentOutputs>>
             /\ \E q : AboutAgent(q) /\ sent' = sent \o q
  BY <1>2, FirstReplySends DEF FirstReply
<1>3. ASSUME Fail \/ Answer \/ RetryEnds
      PROVE  pc' \in {"answered", "failed"} /\ req' = req /\ SendsEnd
  BY <1>3 DEF Fail, Answer, RetryEnds, RetryAnswers, Complete, SendsEnd, LastTypes
<1> USE DEF Ended, Over
<1>4. CASE AgentSpeaks
  BY <1>1, <1>4 DEF AgentSpeaks
<1>5. CASE AgentFails \/ RetryEnds \/ Answer \/ CallsRefused \/ StepFails
           \/ \E reply \in Replies : RetryFails(reply)
  BY <1>3, <1>5 DEF AgentFails, RetryEnds, RetryAnswers, Answer, CallsRefused, StepFails, RetryFails
<1>6. CASE \E reply \in Replies, finish \in {"stop", "length"} : FirstReply(reply, finish)
  BY <1>2, <1>6
<1>7. CASE ClientCalls
  BY <1>7
<1>8. CASE \/ NoCalls \/ ServerLimit \/ ServerStep \/ StepSucceeds \/ StepFallsBack
           \/ SchemaRefuses \/ Disconnect \/ \E reply \in Replies : AgentContinues(reply)
  BY <1>8 DEF NoCalls, ServerLimit, ServerStep, StepSucceeds, StepFallsBack, SchemaRefuses,
              Disconnect, AgentContinues, drainVars
<1>9. CASE PostReturns \/ BodyReturns \/ UNCHANGED vars
           \/ \E c \in DOMAIN answer : WebhookTakesEffect(c)
  BY <1>9 DEF PostReturns, BodyReturns, WebhookResponds, WebhookFails, WebhookAnswers,
              WebhookTakesEffect, vars, drainVars
<1> QED BY <1>4, <1>5, <1>6, <1>7, <1>8, <1>9
        DEF Next, Prompted, Proceed, RetryEnds

\* The events of the calls of a client's tools, call by call.
EventsOf(qs) ==
  \A i \in 1..Len(Calls) :
    /\ DOMAIN qs[i] = 1..4
    /\ \A k \in 1..4 : /\ qs[i][k].type = CallOrder[k]
                       /\ qs[i][k].item = StreamedItem(CallIds[i])
                       /\ qs[i][k].held = StreamedItem(CallIds[i])
AlikeButType(qs) ==
  \A i \in 1..Len(Calls), k \in 1..4 : qs[i][k] = [qs[i][1] EXCEPT !.type = CallOrder[k]]

LEMMA CallsAreStreamed ==
  ASSUME Loop, StreamTypes, ClientCalls, req.streaming
  PROVE  \E qs \in Seq(Seq(SentType)) :
           /\ Len(qs) = Len(Calls) /\ EventsOf(qs) /\ AlikeButType(qs)
           /\ sent' = sent \o FlattenSeq(qs)
<1> DEFINE items == [i \in DOMAIN CallIds |-> StreamedItem(CallIds[i])]
           start == Len(output)
           out(i) == output \o SubSeq(items, 1, i)
           qs == [i \in DOMAIN CallIds |-> CallEvents(CallIds[i], start + i, out(i))]
<1>1. Len(replies) >= 1 /\ output \in Seq(ItemType) /\ start \in Nat
  <2>1. output \in Seq(DrainItem)
    BY DEF StreamTypes
  <2> QED BY <2>1, DrainItemsAreItems DEF ClientCalls, Loop, Numbers, Over
<1>2. /\ DOMAIN CallIds = 1..Len(Calls) /\ Len(Calls) \in Nat
      /\ \A i \in 1..Len(Calls) : CallIds[i] \in Nat \X Nat
  BY <1>1, CallsAreNumbered DEF Loop
<1>3. \A i \in 1..Len(Calls) : StreamedItem(CallIds[i]) \in ItemType
  BY <1>2 DEF StreamedItem, Item, ItemType
<1>4. items \in Seq(ItemType) /\ Len(items) = Len(Calls)
      /\ \A i \in 1..Len(Calls) : items[i] = StreamedItem(CallIds[i])
  BY <1>2, <1>3
<1>5. sent' = sent \o FlattenSeq(qs)
  BY DEF ClientCalls, SendIfStreaming
<1> HIDE DEF items, start
<1>6. ASSUME NEW i \in 1..Len(Calls)
      PROVE  /\ out(i) \in Seq(ItemType) /\ start + i \in DOMAIN out(i)
             /\ out(i)[start + i] = StreamedItem(CallIds[i])
  <2> DEFINE s == SubSeq(items, 1, i)
  <2>1. s \in Seq(ItemType) /\ Len(s) = i /\ i \in Nat /\ i \in 1..i /\ s[i] = items[i]
    BY <1>2, <1>4
  <2> HIDE DEF s
  <2>2. /\ output \o s \in Seq(ItemType) /\ start + i \in DOMAIN (output \o s)
        /\ (output \o s)[start + i] = s[i]
    BY <1>1, <2>1 DEF start
  <2> QED BY <1>4, <2>1, <2>2 DEF s
<1> HIDE DEF out
<1>7. ASSUME NEW i \in 1..Len(Calls), NEW type \in CallTypes
      PROVE  LET e == Event(type, start + i, StreamedItem(CallIds[i]), out(i)) IN
             /\ e \in SentType /\ e.type = type
             /\ e.item = StreamedItem(CallIds[i]) /\ e.held = StreamedItem(CallIds[i])
  <2> DEFINE e == Event(type, start + i, StreamedItem(CallIds[i]), out(i))
  <2>1. start + i \in Nat /\ type \in EventTypes
    BY <1>1, <1>2 DEF EventTypes
  <2>2. e \in SentType /\ e.type = type /\ e.item = StreamedItem(CallIds[i])
    BY <1>3, <1>6, <2>1, EventsAreSent
  <2>3. e.held = StreamedItem(CallIds[i])
    BY <1>6 DEF Event
  <2> QED BY <2>2, <2>3
<1>8. ASSUME NEW i \in 1..Len(Calls)
      PROVE  /\ qs[i] \in Seq(SentType) /\ DOMAIN qs[i] = 1..4
             /\ \A k \in 1..4 : /\ qs[i][k].type = CallOrder[k]
                                /\ qs[i][k].item = StreamedItem(CallIds[i])
                                /\ qs[i][k].held = StreamedItem(CallIds[i])
             /\ \A k \in 1..4 : qs[i][k] = [qs[i][1] EXCEPT !.type = CallOrder[k]]
  <2> DEFINE e(type) == Event(type, start + i, StreamedItem(CallIds[i]), out(i))
  <2>1. \A type \in CallTypes : /\ e(type) \in SentType /\ e(type).type = type
                                /\ e(type).item = StreamedItem(CallIds[i])
                                /\ e(type).held = StreamedItem(CallIds[i])
    BY <1>7
  <2>2. qs[i] = <<e("added"), e("args"), e("args_done"), e("done")>>
    BY <1>2 DEF CallEvents
  <2>8. \A t, u : e(u) = [e(t) EXCEPT !.type = u]
    BY DEF Event
  <2> HIDE DEF e, qs
  <2>3. {"added", "args", "args_done", "done"} \subseteq CallTypes
    BY DEF CallTypes
  <2>4. qs[i] \in Seq(SentType) /\ DOMAIN qs[i] = 1..4
    BY <2>1, <2>2, <2>3
  <2>5. /\ qs[i][1] = e("added") /\ qs[i][2] = e("args") /\ qs[i][3] = e("args_done")
        /\ qs[i][4] = e("done")
    BY <2>2
  <2>6. /\ CallOrder[1] = "added" /\ CallOrder[2] = "args" /\ CallOrder[3] = "args_done"
        /\ CallOrder[4] = "done"
    BY DEF CallOrder
  <2>7. \A k \in 1..4 : k = 1 \/ k = 2 \/ k = 3 \/ k = 4
    OBVIOUS
  <2>9. \A k \in 1..4 : qs[i][k] = e(CallOrder[k]) /\ CallOrder[k] \in CallTypes
    BY <2>3, <2>5, <2>6, <2>7
  <2>10. \A k \in 1..4 : qs[i][k] = [qs[i][1] EXCEPT !.type = CallOrder[k]]
    BY <2>5, <2>8, <2>9
  <2> QED BY <2>1, <2>4, <2>9, <2>10
<1>9. qs \in Seq(Seq(SentType)) /\ Len(qs) = Len(Calls)
  <2>1. DOMAIN qs = 1..Len(Calls)
    BY <1>2
  <2> HIDE DEF qs
  <2>2. qs = [i \in 1..Len(Calls) |-> qs[i]]
    BY <1>2, <2>1 DEF qs
  <2>3. \A i \in 1..Len(Calls) : qs[i] \in Seq(SentType)
    BY <1>8
  <2> QED BY <1>2, <2>2, <2>3
<1> HIDE DEF qs
<1>10. EventsOf(qs)
  BY <1>8 DEF EventsOf
<1>11. AlikeButType(qs)
  BY <1>8 DEF AlikeButType
<1> QED BY <1>5, <1>9, <1>10, <1>11

\* The other steps leave the response and the index alone.
LEMMA OutputsOnlyGrow ==
  ASSUME Loop, [Next]_vars
  PROVE  \/ AgentSpeaks
         \/ \E reply \in Replies, finish \in {"stop", "length"} : FirstReply(reply, finish)
         \/ /\ UNCHANGED <<output, toolIndex, seen, req>>
            /\ pc' = "drain" => pc = "drain"
            /\ Len(agentOutputs) <= Len(agentOutputs')
<1> DEFINE Rests == /\ UNCHANGED <<output, toolIndex, seen, req>>
                    /\ pc' = "drain" => pc = "drain"
                    /\ Len(agentOutputs) <= Len(agentOutputs')
           items == [i \in DOMAIN CallIds |-> CallItem(CallIds[i])]
<1>0. agentOutputs \in Seq(ItemType) /\ Len(agentOutputs) \in Nat /\ text \in Nat
  BY DEF Loop, LoopTypes
<1>1. CASE NoCalls
  <2>1. MessageOfText \in Seq(ItemType)
    <3>1. Message(text) \in ItemType
      BY <1>0 DEF Message, Item, ItemType
    <3> QED BY <3>1 DEF MessageOfText
  <2>2. Len(agentOutputs \o MessageOfText) >= Len(agentOutputs)
    BY <1>0, <2>1
  <2> QED BY <1>0, <1>1, <2>2 DEF NoCalls, Listed
<1>2. CASE ListsCalls
  <2>1. Len(replies) >= 1
    BY <1>2 DEF Loop, Numbers, ListsCalls, ClientCalls, ServerLimit, ServerStep, Over
  <2>2. /\ DOMAIN CallIds = 1..Len(Calls) /\ Len(Calls) \in Nat
        /\ \A i \in 1..Len(Calls) : CallIds[i] \in Nat \X Nat
    BY <2>1, CallsAreNumbered DEF Loop
  <2>3. \A i \in 1..Len(Calls) : CallItem(CallIds[i]) \in ItemType
    BY <2>2 DEF CallItem, Item, ItemType
  <2>4. items \in Seq(ItemType)
    BY <2>2, <2>3
  <2>5. agentOutputs' \in {agentOutputs, agentOutputs \o items}
        /\ UNCHANGED <<output, toolIndex, seen, req>> /\ pc' # "drain"
    BY <1>2 DEF ListsCalls, ClientCalls, ServerLimit, ServerStep, Listed
  <2> HIDE DEF items
  <2>6. Len(agentOutputs \o items) >= Len(agentOutputs)
    BY <1>0, <2>4
  <2> QED BY <1>0, <2>5, <2>6
<1>3. CASE RetryEnds
  <2>1. /\ agentOutputs' = agentOutputs \/ agentOutputs = <<>>
        /\ agentOutputs' \in {agentOutputs, <<Message(text')>>}
        /\ UNCHANGED <<output, toolIndex, seen, req>> /\ pc' # "drain"
    BY <1>3 DEF RetryEnds, RetryAnswers, Complete
  <2>2. Len(<<Message(text')>>) = 1 /\ (agentOutputs = <<>> => Len(agentOutputs) = 0)
    OBVIOUS
  <2> QED BY <1>0, <2>1, <2>2
<1>4. CASE UNCHANGED <<output, toolIndex, seen, req, agentOutputs>> /\ (pc' = "drain" => pc = "drain")
  BY <1>0, <1>4
<1>5. ASSUME Fail PROVE Rests
  BY <1>0, <1>5 DEF Fail
<1>6. CASE PostReturns \/ BodyReturns \/ UNCHANGED vars
           \/ \E c \in DOMAIN answer : WebhookTakesEffect(c)
  BY <1>4, <1>6 DEF PostReturns, BodyReturns, WebhookResponds, WebhookFails, WebhookAnswers,
              WebhookTakesEffect, vars, drainVars
<1>7. CASE StepSucceeds \/ StepFallsBack \/ Answer \/ SchemaRefuses \/ Disconnect
           \/ \E reply \in Replies : AgentContinues(reply)
  BY <1>4, <1>7 DEF StepSucceeds, StepFallsBack, Answer, SchemaRefuses, Disconnect,
              AgentContinues, drainVars, Complete
<1>8. CASE AgentFails \/ CallsRefused \/ StepFails \/ \E reply \in Replies : RetryFails(reply)
  BY <1>5, <1>8 DEF AgentFails, CallsRefused, StepFails, RetryFails
<1> HIDE DEF items
<1> QED BY <1>1, <1>2, <1>3, <1>6, <1>7, <1>8
        DEF Next, Prompted, Proceed, RetryEnds, ListsCalls

LEMMA InitStreamTypes == Init => StreamTypes
<1> SUFFICES ASSUME Init PROVE StreamTypes
  OBVIOUS
<1>1. Lifecycle("created") \in SentType /\ Lifecycle("in_progress") \in SentType
  BY Lifecycles DEF EventTypes
<1>2. sent \in Seq(SentType)
  <2> DEFINE c == Lifecycle("created")
             p == Lifecycle("in_progress")
  <2>1. sent = <<>> \/ sent = <<c, p>>
    BY DEF Init
  <2>2. c \in SentType /\ p \in SentType
    BY <1>1
  <2> HIDE DEF c, p
  <2>3. <<c, p>> \in Seq(SentType) /\ <<>> \in Seq(SentType)
    BY <2>2
  <2> QED BY <2>1, <2>3
<1>3. output \in Seq(DrainItem) /\ toolIndex \in [ToolIds -> Nat]
      /\ \A id \in ToolIds : toolIndex[id] <= Len(agentOutputs)
  BY DEF Init
<1>4. ~TextStarted
  BY DEF Init, TextStarted
<1> QED BY <1>2, <1>3, <1>4 DEF StreamTypes

LEMMA NextStreamTypes == Loop /\ StreamTypes /\ [Next]_vars => StreamTypes'
<1> SUFFICES ASSUME Loop, StreamTypes, [Next]_vars PROVE StreamTypes'
  OBVIOUS
<1>1. sent' \in Seq(SentType)
  <2>0. sent \in Seq(SentType)
    BY DEF StreamTypes
  <2>1. ASSUME NEW q, AboutAgent(q), sent' = sent \o q PROVE sent' \in Seq(SentType)
    BY <2>0, <2>1 DEF AboutAgent
  <2>2. CASE ClientCalls /\ req.streaming
    <3>1. PICK qs \in Seq(Seq(SentType)) : sent' = sent \o FlattenSeq(qs)
      BY <2>2, CallsAreStreamed
    <3>2. FlattenSeq(qs) \in Seq(SentType)
      BY FlattenKeepsOrder
    <3> QED BY <2>0, <3>1, <3>2
  <2>3. CASE ClientCalls /\ ~req.streaming
    BY <2>0, <2>3 DEF ClientCalls, SendIfStreaming
  <2>4. CASE SendsEnd
    <3>1. PICK type \in LastTypes : sent' = SendIfStreaming(<<Lifecycle(type)>>)
      BY <2>4 DEF SendsEnd
    <3>2. Lifecycle(type) \in SentType
      BY Lifecycles DEF EventTypes
    <3> DEFINE q == <<Lifecycle(type)>>
    <3>3. q \in Seq(SentType)
      BY <3>2
    <3> HIDE DEF q
    <3>4. sent' \in {sent, sent \o q}
      BY <3>1 DEF SendIfStreaming, q
    <3>5. sent \o q \in Seq(SentType)
      BY <2>0, <3>3
    <3> QED BY <2>0, <3>4, <3>5
  <2> QED BY <2>0, <2>1, <2>2, <2>3, <2>4, StreamGrows
<1>2. CASE AgentSpeaks
  <2>1. PICK kind \in {"delta", "reasoning", "started", "updated"}, id \in ToolIds :
          AgentEvent(kind, id)
    BY <1>2 DEF AgentSpeaks
  <2>2. req' = req
    BY <2>1 DEF AgentEvent
  <2> QED BY <1>1, <2>1, <2>2, AgentEventSends DEF StreamTypes
<1>3. CASE \E reply \in Replies, finish \in {"stop", "length"} : FirstReply(reply, finish)
  <2>1. /\ output' = <<>> /\ UNCHANGED <<agentOutputs, toolIndex>> /\ pc' = "tools"
    BY <1>3 DEF FirstReply
  <2> QED BY <1>1, <2>1 DEF StreamTypes
<1>4. CASE /\ UNCHANGED <<output, toolIndex, seen, req>>
           /\ pc' = "drain" => pc = "drain"
           /\ Len(agentOutputs) <= Len(agentOutputs')
  <2>1. \A id \in ToolIds : toolIndex'[id] <= Len(agentOutputs')
    <3>1. Len(agentOutputs) \in Nat /\ Len(agentOutputs') \in Nat
      <4>1. agentOutputs' \in Seq(ItemType)
        BY OutputsGain DEF Loop
      <4> QED BY <4>1 DEF Loop, LoopTypes
    <3> QED BY <1>4, <3>1 DEF StreamTypes
  <2> QED BY <1>1, <1>4, <2>1 DEF StreamTypes, TextStarted
<1> QED BY <1>2, <1>3, <1>4, OutputsOnlyGrow

LEMMA ConcatParts ==
  ASSUME NEW S, NEW p \in Seq(S), NEW q \in Seq(S)
  PROVE  /\ p \o q \in Seq(S) /\ Len(p \o q) = Len(p) + Len(q) /\ Len(p) \in Nat /\ Len(q) \in Nat
         /\ \A i \in DOMAIN p : i \in DOMAIN (p \o q) /\ (p \o q)[i] = p[i] /\ i <= Len(p)
         /\ \A k \in DOMAIN q : /\ Len(p) + k \in DOMAIN (p \o q) /\ (p \o q)[Len(p) + k] = q[k]
                                /\ k \in Nat /\ k >= 1
         /\ \A i \in DOMAIN (p \o q) :
              i \in Nat /\ (i \in DOMAIN p \/ \E k \in DOMAIN q : i = Len(p) + k)
<1>1. ASSUME NEW i \in DOMAIN (p \o q), i \notin DOMAIN p
      PROVE  \E k \in DOMAIN q : i = Len(p) + k
  <2>1. i - Len(p) \in DOMAIN q /\ i = Len(p) + (i - Len(p))
    BY <1>1
  <2> QED BY <2>1
<1> QED BY <1>1

\* FlattenSeq of the calls' events has these events only.
LEMMA StreamedAreCalls ==
  ASSUME Loop, StreamTypes, ClientCalls, req.streaming,
         NEW qs \in Seq(Seq(SentType)), Len(qs) = Len(Calls), EventsOf(qs),
         NEW j \in DOMAIN FlattenSeq(qs)
  PROVE  \E i \in 1..Len(Calls), k \in 1..4 : FlattenSeq(qs)[j] = qs[i][k]
<1>1. FlattenSeq(qs) \in Seq(SentType)
  BY FlattenKeepsOrder
<1>2. j <= j
  BY <1>1
<1>3. Follows(FlattenSeq(qs), qs)
  BY FlattenKeepsOrder
<1>4. \E i1 \in 1..Len(qs) : \E k1 \in DOMAIN qs[i1] : FlattenSeq(qs)[j] = qs[i1][k1]
  BY <1>2, <1>3 DEF Follows
<1> QED BY <1>4 DEF EventsOf

(***************************************************************************)
(* The calls of the client's tools in the stream and in the answer.        *)
(***************************************************************************)

NoneOf(seq, type) == \A i \in DOMAIN seq : seq[i].type # type
NoCallsSent == \A i \in DOMAIN sent : sent[i].item.type # "streamed_call"

\* Calls are streamed in client mode, in the step that lists them.
Streamed ==
  req.streaming =>
    /\ StreamedCallsAreWhole
    /\ req.mode = "server" \/ pc \in {"drain", "tools"} => NoCallsSent
    /\ req.mode = "client" /\ pc \in {"drain", "tools"} => NoneOf(agentOutputs, "call")
    /\ req.mode = "client" => pc \notin {"webhooks", "continuation"}
    /\ req.mode = "client" /\ pc \in {"schema", "retry", "answered"} =>
         \A type \in CallTypes : SameOrder(CallEventsSent(type), CallsListed)

\* What a step that sends q leaves in the stream.
LEMMA SentParts ==
  ASSUME NEW S, sent \in Seq(S), NEW q \in Seq(S), sent' = sent \o q
  PROVE  /\ \A i \in DOMAIN sent : i \in DOMAIN sent' /\ sent'[i] = sent[i]
         /\ \A k \in DOMAIN q : Len(sent) + k \in DOMAIN sent' /\ sent'[Len(sent) + k] = q[k]
         /\ \A i \in DOMAIN sent' : i \in DOMAIN sent \/ \E k \in DOMAIN q : i = Len(sent) + k
<1>1. /\ Len(sent) \in Nat /\ DOMAIN sent = 1..Len(sent)
      /\ Len(q) \in Nat /\ DOMAIN q = 1..Len(q)
      /\ DOMAIN sent' = 1..(Len(sent) + Len(q))
  OBVIOUS
<1>2. \A i \in DOMAIN sent : sent'[i] = sent[i]
  OBVIOUS
<1>3. \A k \in DOMAIN q : sent'[Len(sent) + k] = q[k]
  OBVIOUS
<1>4. \A k \in DOMAIN q : Len(sent) + k \in DOMAIN sent'
  BY <1>1
<1>5. ASSUME NEW i \in DOMAIN sent', i \notin DOMAIN sent
      PROVE  \E k \in DOMAIN q : i = Len(sent) + k
  <2>1. i - Len(sent) \in DOMAIN q /\ i = Len(sent) + (i - Len(sent))
    BY <1>1, <1>5
  <2> QED BY <2>1
<1>6. \A i \in DOMAIN sent : i \in DOMAIN sent'
  BY <1>1
<1> QED BY <1>2, <1>3, <1>4, <1>5, <1>6

LEMMA OtherEventsCallNothing ==
  ASSUME StreamTypes, NEW q \in Seq(SentType), sent' = sent \o q,
         \A i \in DOMAIN q : q[i].item.type # "streamed_call"
  PROVE  /\ NoCallsSent => NoCallsSent'
         /\ StreamedCallsAreWhole => StreamedCallsAreWhole'
         /\ \A type : CallEventsSent(type)' = CallEventsSent(type)
<1>0. sent \in Seq(SentType)
  BY DEF StreamTypes
<1>1. /\ \A i \in DOMAIN sent : i \in DOMAIN sent' /\ sent'[i] = sent[i]
      /\ \A i \in DOMAIN sent' : i \in DOMAIN sent \/ sent'[i].item.type # "streamed_call"
  <2>1. /\ \A i \in DOMAIN sent : i \in DOMAIN sent' /\ sent'[i] = sent[i]
        /\ \A k \in DOMAIN q : sent'[Len(sent) + k] = q[k]
        /\ \A i \in DOMAIN sent' : i \in DOMAIN sent \/ \E k \in DOMAIN q : i = Len(sent) + k
    BY <1>0, SentParts
  <2>2. ASSUME NEW i \in DOMAIN sent', i \notin DOMAIN sent PROVE sent'[i].item.type # "streamed_call"
    <3>1. PICK k \in DOMAIN q : i = Len(sent) + k
      BY <2>1, <2>2
    <3>2. sent'[i] = q[k]
      BY <2>1, <3>1
    <3> QED BY <3>2
  <2> QED BY <2>1, <2>2
<1>2. NoCallsSent => NoCallsSent'
  BY <1>1 DEF NoCallsSent
<1>3. ASSUME NEW type PROVE CallEventsSent(type)' = CallEventsSent(type)
  <2> DEFINE dom == {n \in DOMAIN sent : sent[n].type = type /\ sent[n].item.type = "streamed_call"}
             domP == {n \in DOMAIN sent' : sent'[n].type = type /\ sent'[n].item.type = "streamed_call"}
  <2>1. domP = dom
    BY <1>1
  <2>2. \A i \in dom : CallOf(sent'[i].item) = CallOf(sent[i].item)
    BY <1>1
  <2>3. CallEventsSent(type) = [i \in dom |-> CallOf(sent[i].item)]
        /\ CallEventsSent(type)' = [i \in domP |-> CallOf(sent'[i].item)]
    BY DEF CallEventsSent
  <2> HIDE DEF dom, domP
  <2> QED BY <2>1, <2>2, <2>3
<1>4. ASSUME StreamedCallsAreWhole PROVE StreamedCallsAreWhole'
  <2> SUFFICES ASSUME NEW i \in DOMAIN sent', sent'[i].type = "added",
                      sent'[i].item.type = "streamed_call", NEW k \in 2..4
               PROVE  /\ i + k - 1 \in DOMAIN sent'
                      /\ sent'[i + k - 1] = [sent'[i] EXCEPT !.type = CallOrder[k]]
    BY DEF StreamedCallsAreWhole
  <2>1. i \in DOMAIN sent /\ sent'[i] = sent[i]
    BY <1>1
  <2>2. i + k - 1 \in DOMAIN sent /\ sent[i + k - 1] = [sent[i] EXCEPT !.type = CallOrder[k]]
    BY <1>4, <2>1 DEF StreamedCallsAreWhole
  <2> QED BY <1>1, <2>1, <2>2
<1> QED BY <1>2, <1>3, <1>4

\* F has the elements of n quadruples, in their order, and no two are the same: those
\* of each are next to each other.
HasQuads(F, n, qs) ==
  /\ \A j \in DOMAIN F : \E i \in 1..n, k \in 1..4 : F[j] = qs[i][k]
  /\ \A i \in 1..n, k \in 1..4 : \E j \in DOMAIN F : F[j] = qs[i][k]
OrdersQuads(F, n, qs) ==
  \A j1, j2 \in DOMAIN F : j1 <= j2 =>
    \E i1, i2 \in 1..n : \E k1, k2 \in 1..4 :
      /\ F[j1] = qs[i1][k1] /\ F[j2] = qs[i2][k2]
      /\ i1 < i2 \/ (i1 = i2 /\ k1 <= k2 /\ (j1 < j2 => k1 < k2))
QuadsDiffer(n, qs) ==
  \A i1, i2 \in 1..n, k1, k2 \in 1..4 : qs[i1][k1] = qs[i2][k2] => i1 = i2 /\ k1 = k2

LEMMA NextIsNext ==
  ASSUME NEW S, NEW F \in Seq(S), NEW n \in Nat, NEW qs,
         HasQuads(F, n, qs), OrdersQuads(F, n, qs), QuadsDiffer(n, qs),
         NEW j \in DOMAIN F, NEW i \in 1..n, NEW k \in 1..3, F[j] = qs[i][k]
  PROVE  j + 1 \in DOMAIN F /\ F[j + 1] = qs[i][k + 1]
<1>0. k \in 1..4 /\ k + 1 \in 1..4 /\ k \in Nat /\ i \in Nat
      /\ DOMAIN F = 1..Len(F) /\ Len(F) \in Nat /\ j \in Nat
  OBVIOUS
<1>1. ASSUME NEW j1 \in DOMAIN F, NEW j2 \in DOMAIN F, NEW i1 \in 1..n, NEW i2 \in 1..n,
             NEW k1 \in 1..4, NEW k2 \in 1..4, j1 < j2, F[j1] = qs[i1][k1], F[j2] = qs[i2][k2]
      PROVE  i1 < i2 \/ (i1 = i2 /\ k1 < k2)
  <2>1. j1 <= j2
    BY <1>0, <1>1
  <2>2. PICK x1 \in 1..n, x2 \in 1..n, l1 \in 1..4, l2 \in 1..4 :
          /\ F[j1] = qs[x1][l1] /\ F[j2] = qs[x2][l2]
          /\ x1 < x2 \/ (x1 = x2 /\ l1 <= l2 /\ (j1 < j2 => l1 < l2))
    BY <2>1 DEF OrdersQuads
  <2>3. qs[x1][l1] = qs[i1][k1] /\ qs[x2][l2] = qs[i2][k2]
    BY <1>1, <2>2
  <2>4. \A a \in 1..n, c \in 1..4 : qs[x1][l1] = qs[a][c] => x1 = a /\ l1 = c
    BY ONLY QuadsDiffer(n, qs), x1 \in 1..n, l1 \in 1..4, SMTT(30) DEF QuadsDiffer
  <2>5. \A a \in 1..n, c \in 1..4 : qs[x2][l2] = qs[a][c] => x2 = a /\ l2 = c
    BY ONLY QuadsDiffer(n, qs), x2 \in 1..n, l2 \in 1..4, SMTT(30) DEF QuadsDiffer
  <2>6. x1 = i1 /\ l1 = k1 /\ x2 = i2 /\ l2 = k2
    BY <2>3, <2>4, <2>5
  <2> QED BY <1>1, <2>2, <2>6
<1>2. PICK y \in DOMAIN F : F[y] = qs[i][k + 1]
  BY <1>0 DEF HasQuads
<1>3. j < y
  <2>1. j # y
    <3>1. j = y => qs[i][k] = qs[i][k + 1]
      BY <1>2
    <3>2. qs[i][k] = qs[i][k + 1] => k = k + 1
      BY <1>0 DEF QuadsDiffer
    <3> QED BY <1>0, <3>1, <3>2
  <2>2. ASSUME y < j PROVE FALSE
    <3>1. i < i \/ (i = i /\ k + 1 < k)
      BY <1>0, <1>1, <1>2, <2>2
    <3> QED BY <1>0, <3>1
  <2> QED BY <1>0, <2>1, <2>2
<1>4. j + 1 \in DOMAIN F
  BY <1>0, <1>3
<1>5. ASSUME j + 1 < y PROVE FALSE
  <2>1. PICK x \in 1..n, l \in 1..4 : F[j + 1] = qs[x][l]
    BY <1>4 DEF HasQuads
  <2>2. j < j + 1
    BY <1>0
  <2>3. i < x \/ (i = x /\ k < l)
    BY <1>0, <1>1, <1>4, <2>1, <2>2
  <2>4. x < i \/ (x = i /\ l < k + 1)
    BY <1>0, <1>1, <1>2, <1>4, <1>5, <2>1
  <2>5. x \in Nat /\ l \in Nat
    OBVIOUS
  <2> QED BY <1>0, <2>3, <2>4, <2>5
<1>6. y = j + 1
  BY <1>0, <1>3, <1>5
<1> QED BY <1>2, <1>4, <1>6

\* The calls are streamed one after another, each whole.
LEMMA ClientCallsAreStreamed ==
  ASSUME Loop, StreamTypes, Streamed, ClientCalls, req.streaming, NEW type \in CallTypes
  PROVE  SameOrder(CallEventsSent(type), CallsListed)' /\ StreamedCallsAreWhole'
<1> DEFINE items == [i \in DOMAIN CallIds |-> CallItem(CallIds[i])]
           n == Len(Calls)
           ns == Len(sent)
           na == Len(agentOutputs)
<1>0. /\ sent \in Seq(SentType) /\ agentOutputs \in Seq(ItemType)
      /\ NoCallsSent /\ NoneOf(agentOutputs, "call")
  BY DEF StreamTypes, Loop, LoopTypes, Streamed, ClientCalls
<1>1. Len(replies) >= 1
  BY DEF ClientCalls, Loop, Numbers, Over
<1>2. /\ DOMAIN CallIds = 1..n /\ n \in Nat
      /\ \A i \in 1..n : CallIds[i] = <<Len(replies), i>> /\ CallIds[i] \in Nat \X Nat
  BY <1>1, CallsAreNumbered DEF Loop
<1>3. \A i \in 1..n : /\ CallItem(CallIds[i]) \in ItemType /\ CallItem(CallIds[i]).type = "call"
                      /\ StreamedItem(CallIds[i]).type = "streamed_call"
                      /\ StreamedItem(CallIds[i]).of = i
                      /\ CallOf(CallItem(CallIds[i])) = CallIds[i]
                      /\ CallOf(StreamedItem(CallIds[i])) = CallIds[i]
  BY <1>2 DEF CallItem, StreamedItem, CallOf, Item, ItemType
<1>4. items \in Seq(ItemType) /\ DOMAIN items = 1..n
      /\ \A i \in 1..n : items[i] = CallItem(CallIds[i])
  BY <1>2, <1>3
<1>5. agentOutputs' = agentOutputs \o items
  BY DEF ClientCalls
<1>6. PICK qs \in Seq(Seq(SentType)) :
        /\ Len(qs) = n /\ EventsOf(qs) /\ AlikeButType(qs)
        /\ sent' = sent \o FlattenSeq(qs)
  BY CallsAreStreamed
<1> DEFINE F == FlattenSeq(qs)
<1>7. F \in Seq(SentType) /\ \A i \in 1..n : Range(qs[i]) \subseteq Range(F)
  BY <1>6, FlattenKeepsOrder
<1>8. \A j \in DOMAIN F : \E i \in 1..n, k \in 1..4 : F[j] = qs[i][k]
  BY <1>6, StreamedAreCalls
<1>9. \A j1, j2 \in DOMAIN F : j1 <= j2 =>
        \E i1, i2 \in 1..n : \E k1, k2 \in 1..4 :
          /\ F[j1] = qs[i1][k1] /\ F[j2] = qs[i2][k2]
          /\ i1 < i2 \/ (i1 = i2 /\ k1 <= k2 /\ (j1 < j2 => k1 < k2))
  <2> SUFFICES ASSUME NEW j1 \in DOMAIN F, NEW j2 \in DOMAIN F, j1 <= j2
               PROVE  \E i1, i2 \in 1..n : \E k1, k2 \in 1..4 :
                        /\ F[j1] = qs[i1][k1] /\ F[j2] = qs[i2][k2]
                        /\ i1 < i2 \/ (i1 = i2 /\ k1 <= k2 /\ (j1 < j2 => k1 < k2))
    OBVIOUS
  <2>1. \A i \in 1..n : DOMAIN qs[i] = 1..4
    BY <1>6 DEF EventsOf
  <2>2. \E i1, i2 \in 1..Len(qs) : \E k1 \in DOMAIN qs[i1], k2 \in DOMAIN qs[i2] :
          /\ F[j1] = qs[i1][k1] /\ F[j2] = qs[i2][k2]
          /\ i1 < i2 \/ (i1 = i2 /\ k1 <= k2 /\ (j1 < j2 => k1 < k2))
    <3>1. Follows(FlattenSeq(qs), qs)
      BY <1>6, FlattenKeepsOrder
    <3> QED BY <3>1 DEF Follows
  <2> HIDE DEF F, n
  <2>3. Len(qs) = n
    BY <1>6
  <2>4. PICK i1 \in 1..n, i2 \in 1..n : \E k1 \in DOMAIN qs[i1], k2 \in DOMAIN qs[i2] :
          /\ F[j1] = qs[i1][k1] /\ F[j2] = qs[i2][k2]
          /\ i1 < i2 \/ (i1 = i2 /\ k1 <= k2 /\ (j1 < j2 => k1 < k2))
    BY <2>2, <2>3
  <2>5. DOMAIN qs[i1] = 1..4 /\ DOMAIN qs[i2] = 1..4
    BY <2>1
  <2> QED BY <2>4, <2>5
<1>10. \A i \in 1..n, k \in 1..4 : /\ qs[i][k].type = CallOrder[k]
                                   /\ qs[i][k].item = StreamedItem(CallIds[i])
  BY <1>6 DEF EventsOf
<1>11. /\ \A k, l \in 1..4 : CallOrder[k] = CallOrder[l] => k = l
       /\ \E k \in 1..4 : CallOrder[k] = type
  <2>1. /\ CallOrder[1] = "added" /\ CallOrder[2] = "args" /\ CallOrder[3] = "args_done"
        /\ CallOrder[4] = "done"
    BY DEF CallOrder
  <2>2. \A k \in 1..4 : k = 1 \/ k = 2 \/ k = 3 \/ k = 4
    OBVIOUS
  <2> QED BY <2>1, <2>2 DEF CallTypes
<1>12. \A i \in 1..n : DOMAIN qs[i] = 1..4
  BY <1>6 DEF EventsOf
<1>13. sent' = sent \o F
  BY <1>6
<1>21. HasQuads(F, n, qs) /\ OrdersQuads(F, n, qs) /\ QuadsDiffer(n, qs)
  <2>1. HasQuads(F, n, qs)
    <3>1. ASSUME NEW i \in 1..n, NEW k \in 1..4 PROVE \E j \in DOMAIN F : F[j] = qs[i][k]
      <4>1. qs[i][k] \in Range(qs[i])
        BY <1>12 DEF Range
      <4>2. qs[i][k] \in Range(F)
        BY <1>7, <4>1
      <4> QED BY <4>2 DEF Range
    <3> QED BY <1>8, <3>1 DEF HasQuads
  <2>2. OrdersQuads(F, n, qs)
    BY <1>9 DEF OrdersQuads
  <2>3. ASSUME NEW i1 \in 1..n, NEW i2 \in 1..n, NEW k1 \in 1..4, NEW k2 \in 1..4,
               qs[i1][k1] = qs[i2][k2]
        PROVE  i1 = i2 /\ k1 = k2
    <3>0. /\ qs[i1][k1].type = CallOrder[k1] /\ qs[i1][k1].item = StreamedItem(CallIds[i1])
          /\ qs[i2][k2].type = CallOrder[k2] /\ qs[i2][k2].item = StreamedItem(CallIds[i2])
      BY <1>10
    <3>1. StreamedItem(CallIds[i1]).of = StreamedItem(CallIds[i2]).of
      BY <2>3, <3>0
    <3>2. CallOrder[k1] = CallOrder[k2]
      BY <2>3, <3>0
    <3> QED BY <1>3, <1>11, <3>1, <3>2
  <2> QED BY <2>1, <2>2, <2>3 DEF QuadsDiffer
<1>22. \A j \in DOMAIN F, i \in 1..n, k \in 1..3 :
         F[j] = qs[i][k] => j + 1 \in DOMAIN F /\ F[j + 1] = qs[i][k + 1]
  <2>1. F \in Seq(SentType) /\ n \in Nat
    BY <1>2, <1>7
  <2> HIDE DEF F, items, n
  <2> SUFFICES ASSUME NEW j \in DOMAIN F, NEW i \in 1..n, NEW k \in 1..3, F[j] = qs[i][k]
               PROVE  j + 1 \in DOMAIN F /\ F[j + 1] = qs[i][k + 1]
    OBVIOUS
  <2> QED BY <1>21, <2>1, NextIsNext, SMTT(30)
<1>23. \A i \in 1..n, l \in 1..4 : qs[i][l] = [qs[i][1] EXCEPT !.type = CallOrder[l]]
  BY <1>6 DEF AlikeButType
<1> HIDE DEF F, items, n
<1> DEFINE f == CallEventsSent(type)'
           g == CallsListed'
<1>14. /\ \A a \in DOMAIN f : \E j \in DOMAIN F : a = ns + j /\ F[j].type = type /\ f[a] = CallOf(F[j].item)
       /\ \A j \in DOMAIN F : F[j].type = type => ns + j \in DOMAIN f /\ f[ns + j] = CallOf(F[j].item)
  <2>1. f = [i \in {x \in DOMAIN sent' : sent'[x].type = type /\ sent'[x].item.type = "streamed_call"} |->
               CallOf(sent'[i].item)]
    BY DEF CallEventsSent
  <2>0. F \in Seq(SentType) /\ sent \in Seq(SentType)
    BY <1>0, <1>7
  <2>2. \A a \in DOMAIN sent' : a \in DOMAIN sent \/ \E j \in DOMAIN F : a = ns + j
    <3> SUFFICES ASSUME NEW a \in DOMAIN sent', a \notin DOMAIN sent
                 PROVE  \E j \in DOMAIN F : a = ns + j
      OBVIOUS
    <3>1. a - ns \in DOMAIN F /\ a = ns + (a - ns)
      BY <1>13, <2>0
    <3> QED BY <3>1
  <2>3. \A a \in DOMAIN sent : sent'[a] = sent[a] /\ sent[a].item.type # "streamed_call"
    BY <1>0, <1>13, <2>0, SentParts DEF NoCallsSent
  <2>4. \A j \in DOMAIN F : ns + j \in DOMAIN sent' /\ sent'[ns + j] = F[j]
    BY <1>13, <2>0, SentParts
  <2>5. \A j \in DOMAIN F : F[j].item.type = "streamed_call"
    <3> SUFFICES ASSUME NEW j \in DOMAIN F PROVE F[j].item.type = "streamed_call"
      OBVIOUS
    <3>1. PICK i \in 1..n, k \in 1..4 : F[j] = qs[i][k]
      BY <1>8
    <3>2. F[j].item = StreamedItem(CallIds[i])
      BY <1>10, <3>1
    <3> QED BY <1>3, <3>2
  <2> HIDE DEF f, ns
  <2> QED BY <2>1, <2>2, <2>3, <2>4, <2>5
<1>15. /\ \A c \in DOMAIN g : \E i \in 1..n : c = na + i /\ g[c] = CallIds[i]
       /\ \A i \in 1..n : na + i \in DOMAIN g /\ g[na + i] = CallIds[i]
  <2>1. g = [i \in {x \in DOMAIN agentOutputs' : agentOutputs'[x].type = "call"} |->
               CallOf(agentOutputs'[i])]
    BY DEF CallsListed
  <2>0. /\ \A c \in DOMAIN agentOutputs' : c \in DOMAIN agentOutputs \/ \E i \in DOMAIN items : c = na + i
        /\ \A i \in DOMAIN items : na + i \in DOMAIN agentOutputs' /\ agentOutputs'[na + i] = items[i]
    <3>1. agentOutputs \in Seq(ItemType) /\ items \in Seq(ItemType)
      BY <1>0, <1>4
    <3>2. \A c \in DOMAIN (agentOutputs \o items) :
            c \in DOMAIN agentOutputs \/ \E i \in DOMAIN items : c = na + i
      BY <3>1, ConcatParts
    <3>3. \A i \in DOMAIN items : /\ na + i \in DOMAIN (agentOutputs \o items)
                                  /\ (agentOutputs \o items)[na + i] = items[i]
      BY <3>1, ConcatParts
    <3> QED BY <1>5, <3>2, <3>3
  <2>2. \A c \in DOMAIN agentOutputs' : c \in DOMAIN agentOutputs \/ \E i \in 1..n : c = na + i
    BY <1>4, <2>0
  <2>3. \A c \in DOMAIN agentOutputs : agentOutputs'[c] = agentOutputs[c]
                                       /\ agentOutputs[c].type # "call"
    BY <1>0, <1>4, <1>5, ConcatParts DEF NoneOf
  <2>4. \A i \in 1..n : na + i \in DOMAIN agentOutputs' /\ agentOutputs'[na + i] = CallItem(CallIds[i])
    BY <1>4, <2>0
  <2>5. \A i \in 1..n : /\ agentOutputs'[na + i].type = "call"
                        /\ CallOf(agentOutputs'[na + i]) = CallIds[i]
    BY <1>3, <2>4
  <2> HIDE DEF g, na
  <2> QED BY <2>1, <2>2, <2>3, <2>4, <2>5
<1> HIDE DEF f, g
<1>16. \A j1, j2 \in DOMAIN F, a, b \in 1..n :
         F[j1].type = type /\ F[j2].type = type /\ j1 <= j2
         /\ F[j1].item = StreamedItem(CallIds[a]) /\ F[j2].item = StreamedItem(CallIds[b])
         => a <= b /\ (j1 < j2 => a < b) /\ (j1 = j2 => a = b)
  <2> SUFFICES ASSUME NEW j1 \in DOMAIN F, NEW j2 \in DOMAIN F, NEW a \in 1..n, NEW b \in 1..n,
                      F[j1].type = type, F[j2].type = type, j1 <= j2,
                      F[j1].item = StreamedItem(CallIds[a]), F[j2].item = StreamedItem(CallIds[b])
               PROVE  a <= b /\ (j1 < j2 => a < b) /\ (j1 = j2 => a = b)
    OBVIOUS
  <2>1. PICK i1 \in 1..n, i2 \in 1..n, k1 \in 1..4, k2 \in 1..4 :
          /\ F[j1] = qs[i1][k1] /\ F[j2] = qs[i2][k2]
          /\ i1 < i2 \/ (i1 = i2 /\ k1 <= k2 /\ (j1 < j2 => k1 < k2))
    BY <1>9
  <2>2. i1 = a /\ i2 = b
    <3>1. F[j1].item = StreamedItem(CallIds[i1]) /\ F[j2].item = StreamedItem(CallIds[i2])
      <4>1. qs[i1][k1].item = StreamedItem(CallIds[i1]) /\ qs[i2][k2].item = StreamedItem(CallIds[i2])
        BY <1>10
      <4> QED BY <2>1, <4>1
    <3>2. /\ StreamedItem(CallIds[i1]).of = i1 /\ StreamedItem(CallIds[a]).of = a
          /\ StreamedItem(CallIds[i2]).of = i2 /\ StreamedItem(CallIds[b]).of = b
      BY <1>3
    <3>3. StreamedItem(CallIds[i1]) = StreamedItem(CallIds[a]) /\ StreamedItem(CallIds[i2]) = StreamedItem(CallIds[b])
      BY <3>1
    <3> HIDE DEF F
    <3> QED BY <3>2, <3>3
  <2>3. k1 = k2
    <3>1. F[j1].type = CallOrder[k1] /\ F[j2].type = CallOrder[k2]
      <4>1. qs[i1][k1].type = CallOrder[k1] /\ qs[i2][k2].type = CallOrder[k2]
        BY <1>10
      <4> QED BY <2>1, <4>1
    <3> QED BY <1>11, <3>1
  <2>4. j1 = j2 => a = b
    BY <1>3
  <2> QED BY <1>2, <2>1, <2>2, <2>3, <2>4
<1>17. Range(f) = Range(g)
  <2>1. ASSUME NEW a \in DOMAIN f PROVE \E c \in DOMAIN g : g[c] = f[a]
    <3>1. PICK j \in DOMAIN F : F[j].type = type /\ f[a] = CallOf(F[j].item)
      BY <1>14
    <3>2. PICK i \in 1..n : F[j].item = StreamedItem(CallIds[i])
      <4>1. PICK i \in 1..n, k \in 1..4 : F[j] = qs[i][k]
        BY <1>8
      <4>2. F[j].item = StreamedItem(CallIds[i])
        BY <1>10, <4>1
      <4> QED BY <4>2
    <3> QED BY <1>3, <1>15, <3>1, <3>2
  <2>2. ASSUME NEW c \in DOMAIN g PROVE \E a \in DOMAIN f : f[a] = g[c]
    <3>1. PICK i \in 1..n : g[c] = CallIds[i]
      BY <1>15
    <3>2. PICK k \in 1..4 : CallOrder[k] = type
      BY <1>11
    <3>3. qs[i][k] \in Range(F)
      BY <1>7, <1>12 DEF Range
    <3>4. PICK j \in DOMAIN F : F[j] = qs[i][k]
      BY <3>3 DEF Range
    <3>5. F[j].type = type /\ CallOf(F[j].item) = g[c]
      <4>1. qs[i][k].type = CallOrder[k] /\ qs[i][k].item = StreamedItem(CallIds[i])
        BY <1>10
      <4> QED BY <1>3, <3>1, <3>2, <3>4, <4>1
    <3> QED BY <1>14, <3>5
  <2> QED BY <2>1, <2>2 DEF Range
<1>18. ASSUME NEW a \in DOMAIN f, NEW b \in DOMAIN f, NEW c \in DOMAIN g, NEW d \in DOMAIN g,
              f[a] = g[c], f[b] = g[d]
       PROVE  a < b <=> c < d
  <2>1. PICK j1 \in DOMAIN F : a = ns + j1 /\ F[j1].type = type /\ f[a] = CallOf(F[j1].item)
    BY <1>14
  <2>2. PICK j2 \in DOMAIN F : b = ns + j2 /\ F[j2].type = type /\ f[b] = CallOf(F[j2].item)
    BY <1>14
  <2>3. PICK i1 \in 1..n : c = na + i1 /\ g[c] = CallIds[i1]
    BY <1>15
  <2>4. PICK i2 \in 1..n : d = na + i2 /\ g[d] = CallIds[i2]
    BY <1>15
  <2>5. ns \in Nat /\ na \in Nat /\ j1 \in Nat /\ j2 \in Nat /\ i1 \in Nat /\ i2 \in Nat
    BY <1>0, <1>2, <1>7
  <2>6. F[j1].item = StreamedItem(CallIds[i1]) /\ F[j2].item = StreamedItem(CallIds[i2])
    <3>1. PICK x1 \in 1..n, k1 \in 1..4 : F[j1] = qs[x1][k1]
      BY <1>8
    <3>2. PICK x2 \in 1..n, k2 \in 1..4 : F[j2] = qs[x2][k2]
      BY <1>8
    <3>3. F[j1].item = StreamedItem(CallIds[x1]) /\ F[j2].item = StreamedItem(CallIds[x2])
      <4>1. /\ qs[x1][k1].item = StreamedItem(CallIds[x1])
            /\ qs[x2][k2].item = StreamedItem(CallIds[x2])
        BY <1>10
      <4> QED BY <3>1, <3>2, <4>1
    <3>4. CallIds[x1] = CallIds[i1] /\ CallIds[x2] = CallIds[i2]
      BY <1>3, <1>18, <2>1, <2>2, <2>3, <2>4, <3>3
    <3> QED BY <3>3, <3>4
  <2>7. j1 < j2 => i1 < i2
    BY <1>16, <2>1, <2>2, <2>5, <2>6
  <2>8. j2 <= j1 => i2 <= i1
    BY <1>16, <2>1, <2>2, <2>5, <2>6
  <2> HIDE DEF ns, na
  <2> QED BY <2>1, <2>2, <2>3, <2>4, <2>5, <2>7, <2>8
<1>19. SameOrder(f, g)
  BY <1>17, <1>18 DEF SameOrder
<1>20. StreamedCallsAreWhole'
  <2>1. /\ \A a \in DOMAIN sent : sent'[a] = sent[a] /\ sent[a].item.type # "streamed_call"
        /\ \A j \in DOMAIN F : ns + j \in DOMAIN sent' /\ sent'[ns + j] = F[j]
        /\ \A a \in DOMAIN sent' : a \in DOMAIN sent \/ \E j \in DOMAIN F : a = ns + j
    <3>1. F \in Seq(SentType) /\ sent \in Seq(SentType) /\ sent' = sent \o F
      BY <1>0, <1>7, <1>13
    <3>2. \A a \in DOMAIN sent : sent'[a] = sent[a]
      BY ONLY <3>1, SentParts
    <3>3. \A j \in DOMAIN F : ns + j \in DOMAIN sent' /\ sent'[ns + j] = F[j]
      <4>1. \A j \in DOMAIN F : Len(sent) + j \in DOMAIN sent' /\ sent'[Len(sent) + j] = F[j]
        BY ONLY <3>1, SentParts
      <4> QED BY <4>1
    <3>4. \A a \in DOMAIN sent' : a \in DOMAIN sent \/ \E j \in DOMAIN F : a = ns + j
      <4>1. \A a \in DOMAIN sent' : a \in DOMAIN sent \/ \E j \in DOMAIN F : a = Len(sent) + j
        BY ONLY <3>1, SentParts
      <4> QED BY <4>1
    <3> QED BY <1>0, <3>2, <3>3, <3>4 DEF NoCallsSent
  <2>2. ASSUME NEW j \in DOMAIN F, F[j].type = "added"
        PROVE  \A k \in 2..4 : j + k - 1 \in DOMAIN F
                              /\ F[j + k - 1] = [F[j] EXCEPT !.type = CallOrder[k]]
    <3>1. PICK i \in 1..n, k \in 1..4 : F[j] = qs[i][k]
      BY <1>8
    <3>2. k = 1
      <4>1. CallOrder[k] = "added" /\ CallOrder[1] = "added"
        BY <1>10, <2>2, <3>1 DEF CallOrder
      <4> QED BY <1>11, <4>1
    <3>3. /\ j + 1 \in DOMAIN F /\ F[j + 1] = qs[i][2]
          /\ j + 2 \in DOMAIN F /\ F[j + 2] = qs[i][3]
          /\ j + 3 \in DOMAIN F /\ F[j + 3] = qs[i][4]
      <4>0. j \in Nat /\ j + 1 + 1 = j + 2 /\ j + 2 + 1 = j + 3
        BY <1>7
      <4>1. j + 1 \in DOMAIN F /\ F[j + 1] = qs[i][2]
        <5>1. F[j] = qs[i][1] /\ 1 \in 1..3 /\ 1 + 1 = 2
          BY <3>1, <3>2
        <5> QED BY <1>22, <5>1
      <4>2. j + 2 \in DOMAIN F /\ F[j + 2] = qs[i][3]
        BY <1>22, <4>0, <4>1
      <4>3. j + 3 \in DOMAIN F /\ F[j + 3] = qs[i][4]
        BY <1>22, <4>0, <4>2
      <4> QED BY <4>1, <4>2, <4>3
    <3>4. \A l \in 1..4 : qs[i][l] = [qs[i][1] EXCEPT !.type = CallOrder[l]]
      BY <1>23
    <3>5. \A l \in 2..4 : (l = 2 \/ l = 3 \/ l = 4) /\ l \in 1..4
      OBVIOUS
    <3>6. j + 2 - 1 = j + 1 /\ j + 3 - 1 = j + 2 /\ j + 4 - 1 = j + 3
      BY <1>7
    <3>7. F[j] = qs[i][1]
      BY <3>1, <3>2
    <3>8. \A l \in 2..4 : qs[i][l] = [F[j] EXCEPT !.type = CallOrder[l]]
      BY <3>4, <3>5, <3>7
    <3>9. \A l \in 2..4 : j + l - 1 \in DOMAIN F /\ F[j + l - 1] = qs[i][l]
      BY <3>3, <3>5, <3>6
    <3> QED BY <3>8, <3>9
  <2> SUFFICES ASSUME NEW a \in DOMAIN sent', sent'[a].type = "added",
                      sent'[a].item.type = "streamed_call", NEW k \in 2..4
               PROVE  /\ a + k - 1 \in DOMAIN sent'
                      /\ sent'[a + k - 1] = [sent'[a] EXCEPT !.type = CallOrder[k]]
    BY DEF StreamedCallsAreWhole
  <2>3. PICK j \in DOMAIN F : a = ns + j
    BY <2>1
  <2>4. /\ j + k - 1 \in DOMAIN F /\ F[j + k - 1] = [F[j] EXCEPT !.type = CallOrder[k]]
        /\ sent'[a] = F[j]
    BY <2>1, <2>2, <2>3
  <2>5. a + k - 1 = ns + (j + k - 1)
    <3>1. ns \in Nat /\ j \in Nat
      BY <1>0, <1>7
    <3> HIDE DEF ns
    <3> QED BY <2>3, <3>1
  <2> QED BY <2>1, <2>4, <2>5
<1> QED BY <1>19, <1>20 DEF f, g

\* How a turn moves on.
LEMMA TurnMoves ==
  ASSUME [Next]_vars
  PROVE  /\ req' = req
         /\ pc' \in {"webhooks", "continuation"} =>
              pc \in {"webhooks", "continuation"} \/ ServerStep
         /\ pc' \in {"drain", "tools"} => pc \in {"drain", "tools", "continuation"}
         /\ pc' \in {"schema", "retry", "answered"} =>
              \/ NoCalls \/ ClientCalls \/ ServerLimit
              \/ pc \in {"schema", "retry", "answered"} /\ (agentOutputs' = agentOutputs \/ RetryEnds)
<1>1. CASE AgentSpeaks \/ Disconnect \/ UNCHANGED vars
  BY <1>1 DEF AgentSpeaks, AgentEvent, Disconnect, vars
<1>2. CASE AgentFails \/ CallsRefused \/ StepFails \/ \E reply \in Replies : RetryFails(reply)
  BY <1>2 DEF AgentFails, CallsRefused, StepFails, RetryFails, Fail
<1>3. CASE NoCalls \/ ClientCalls \/ ServerLimit \/ ServerStep
  BY <1>3 DEF NoCalls, ClientCalls, ServerLimit, ServerStep
<1>4. CASE Answer \/ SchemaRefuses \/ StepSucceeds \/ StepFallsBack
  BY <1>4 DEF Answer, SchemaRefuses, Complete, StepSucceeds, StepFallsBack, drainVars
<1>5. CASE RetryEnds
  BY <1>5 DEF RetryEnds, RetryAnswers, Complete
<1>6. ASSUME NEW reply, NEW finish, AgentContinues(reply) \/ FirstReply(reply, finish)
      PROVE  req' = req /\ pc \in {"drain", "continuation"} /\ pc' = "tools"
  BY <1>6 DEF AgentContinues, FirstReply
<1>7. CASE PostReturns \/ BodyReturns \/ \E c \in DOMAIN answer : WebhookTakesEffect(c)
  BY <1>7 DEF PostReturns, BodyReturns, WebhookResponds, WebhookFails, WebhookAnswers,
              WebhookTakesEffect, drainVars
<1> QED BY <1>1, <1>2, <1>3, <1>4, <1>5, <1>6, <1>7 DEF Next, Prompted, Proceed, RetryEnds

LEMMA NextStreamed == Loop /\ StreamTypes /\ Streamed /\ [Next]_vars => Streamed'
<1> SUFFICES ASSUME Loop, StreamTypes, Streamed, [Next]_vars, req'.streaming PROVE Streamed'
  BY DEF Streamed
<1>0. /\ req' = req /\ req.streaming /\ req.mode \in {"client", "server"}
  <2>1. req' = req
    BY TurnMoves
  <2>2. req \in RequestType
    BY TurnAssumption DEF Loop, LoopTypes
  <2> QED BY <2>1, <2>2 DEF RequestType
<1>1. /\ StreamedCallsAreWhole
      /\ req.mode = "server" \/ pc \in {"drain", "tools"} => NoCallsSent
      /\ req.mode = "client" /\ pc \in {"drain", "tools"} => NoneOf(agentOutputs, "call")
      /\ req.mode = "client" => pc \notin {"webhooks", "continuation"}
      /\ req.mode = "client" /\ pc \in {"schema", "retry", "answered"} =>
           \A type \in CallTypes : SameOrder(CallEventsSent(type), CallsListed)
  BY <1>0 DEF Streamed
<1>2. \/ ClientCalls
      \/ /\ NoCallsSent => NoCallsSent'
         /\ StreamedCallsAreWhole => StreamedCallsAreWhole'
         /\ \A type : CallEventsSent(type)' = CallEventsSent(type)
  <2>1. ASSUME NEW q, AboutAgent(q), sent' = sent \o q
        PROVE  /\ NoCallsSent => NoCallsSent'
               /\ StreamedCallsAreWhole => StreamedCallsAreWhole'
               /\ \A type : CallEventsSent(type)' = CallEventsSent(type)
    <3>1. q \in Seq(SentType) /\ \A i \in DOMAIN q : q[i].item.type # "streamed_call"
      BY <2>1 DEF AboutAgent, DrainItem
    <3> QED BY <2>1, <3>1, OtherEventsCallNothing
  <2>2. CASE SendsEnd
    <3>1. PICK type \in LastTypes : sent' = sent \o <<Lifecycle(type)>>
      BY <1>0, <2>2 DEF SendsEnd, SendIfStreaming
    <3> DEFINE e == Lifecycle(type)
               q == <<e>>
    <3>2. e \in SentType /\ e.item.type # "streamed_call"
      BY Lifecycles DEF EventTypes
    <3>3. sent' = sent \o q
      BY <3>1
    <3> HIDE DEF e
    <3>4. q \in Seq(SentType) /\ \A i \in DOMAIN q : q[i].item.type # "streamed_call"
      BY <3>2
    <3> HIDE DEF q
    <3> QED BY <3>3, <3>4, OtherEventsCallNothing
  <2>3. CASE sent' = sent
    BY <2>3 DEF NoCallsSent, CallEventsSent, StreamedCallsAreWhole
  <2> QED BY <2>1, <2>2, <2>3, StreamGrows
<1>3. req.mode = "server" \/ pc' \in {"drain", "tools"} => NoCallsSent'
  BY <1>0, <1>1, <1>2, TurnMoves DEF ClientCalls
<1>4. ASSUME req.mode = "client", pc \in {"drain", "tools"}, ~ListsCalls
      PROVE  NoneOf(agentOutputs', "call")
  <2>1. \A item \in Range(agentOutputs') : item \in Range(agentOutputs) \/ Gain(item)
    BY OutputsGain DEF Loop
  <2>2. \A item \in Range(agentOutputs') : item.type # "call"
    BY <1>1, <1>4, <2>1 DEF NoneOf, Range, Gain, Message, Item
  <2> QED BY <2>2 DEF NoneOf, Range
<1>5. req.mode = "client" /\ pc' \in {"drain", "tools"} => NoneOf(agentOutputs', "call")
  <2>1. ListsCalls => pc' \notin {"drain", "tools"}
    BY DEF ListsCalls, ClientCalls, ServerLimit, ServerStep
  <2> QED BY <1>1, <1>4, <2>1, TurnMoves
<1>6. req.mode = "client" => pc' \notin {"webhooks", "continuation"}
  BY <1>1, TurnMoves DEF ServerStep
<1>7. ASSUME req.mode = "client", pc' \in {"schema", "retry", "answered"}, NEW type \in CallTypes
      PROVE  SameOrder(CallEventsSent(type), CallsListed)'
  <2>1. CASE ClientCalls
    BY <1>0, <2>1, ClientCallsAreStreamed
  <2>2. CASE NoCalls
    <3>1. ~ListsCalls /\ pc = "tools" /\ ~ClientCalls
      BY <1>7, <2>2 DEF NoCalls, ListsCalls, ClientCalls, ServerLimit, ServerStep
    <3>2. NoneOf(agentOutputs', "call") /\ NoCallsSent'
      BY <1>1, <1>2, <1>4, <1>7, <3>1
    <3> DEFINE f == CallEventsSent(type)'
               g == CallsListed'
    <3>3. DOMAIN f = {} /\ DOMAIN g = {}
      BY <3>2 DEF NoneOf, NoCallsSent, CallEventsSent, CallsListed
    <3> HIDE DEF f, g
    <3>4. SameOrder(f, g)
      BY <3>3 DEF SameOrder, Range
    <3> QED BY <3>4 DEF f, g
  <2>3. CASE /\ pc \in {"schema", "retry", "answered"}
             /\ agentOutputs' = agentOutputs \/ RetryEnds
    <3>1. CallEventsSent(type)' = CallEventsSent(type)
      BY <1>2, <2>3 DEF ClientCalls
    <3>2. CallsListed' = CallsListed
      <4>1. CASE agentOutputs' = agentOutputs
        BY <4>1 DEF CallsListed
      <4>2. CASE agentOutputs = <<>> /\ agentOutputs' = <<Message(text')>>
        <5> DEFINE m == Message(text')
        <5>1. m.type # "call"
          BY DEF Message, Item
        <5> HIDE DEF m
        <5>2. /\ {i \in DOMAIN <<m>> : <<m>>[i].type = "call"} = {}
              /\ {i \in DOMAIN <<>> : <<>>[i].type = "call"} = {}
          BY <5>1
        <5>3. CallsListed = [i \in {} |-> CallOf(agentOutputs[i])]
              /\ CallsListed' = [i \in {} |-> CallOf(agentOutputs'[i])]
          BY <4>2, <5>2 DEF CallsListed, m
        <5> QED BY <5>3
      <4> QED BY <2>3, <4>1, <4>2 DEF RetryEnds, RetryAnswers
    <3>3. SameOrder(CallEventsSent(type), CallsListed)
      BY <1>1, <1>7, <2>3
    <3> QED BY <3>1, <3>2, <3>3 DEF SameOrder
  <2> QED BY <1>7, <2>1, <2>2, <2>3, TurnMoves DEF ServerLimit
<1>8. StreamedCallsAreWhole'
  <2>1. CASE ClientCalls
    <3>1. "added" \in CallTypes
      BY DEF CallTypes
    <3> QED BY <1>0, <2>1, <3>1, ClientCallsAreStreamed
  <2> QED BY <1>1, <1>2, <2>1
<1> QED BY <1>0, <1>3, <1>5, <1>6, <1>7, <1>8 DEF Streamed

LEMMA InitStreamed == Init => Streamed
<1> SUFFICES ASSUME Init, req.streaming PROVE Streamed
  BY DEF Streamed
<1> DEFINE c == Lifecycle("created")
           p == Lifecycle("in_progress")
<1>1. c.item.type # "streamed_call" /\ p.item.type # "streamed_call"
  BY Lifecycles DEF EventTypes
<1>2. sent = <<c, p>> /\ pc = "drain" /\ agentOutputs = <<>>
  BY DEF Init
<1> HIDE DEF c, p
<1>3. \A i \in DOMAIN <<c, p>> : <<c, p>>[i] = c \/ <<c, p>>[i] = p
  OBVIOUS
<1>4. NoCallsSent
  BY <1>1, <1>2, <1>3 DEF NoCallsSent
<1>5. StreamedCallsAreWhole
  BY <1>4 DEF NoCallsSent, StreamedCallsAreWhole
<1> QED BY <1>2, <1>4, <1>5 DEF Streamed, NoneOf

\* StreamedCallsAreListed, from Streamed.
LEMMA StreamedSuffices == Loop /\ Streamed => StreamedCallsAreListed
<1> SUFFICES ASSUME Loop, Streamed, req.streaming, pc = "answered",
                    NEW type \in {"added", "args", "args_done", "done"}
             PROVE  SameOrder(CallEventsSent(type), IF req.mode = "server" THEN <<>> ELSE CallsListed)
  BY DEF StreamedCallsAreListed
<1>1. req.mode \in {"client", "server"}
  BY TurnAssumption DEF Loop, LoopTypes, RequestType
<1>2. CASE req.mode = "server"
  <2>1. NoCallsSent
    BY <1>2 DEF Streamed
  <2> DEFINE f == CallEventsSent(type)
  <2>2. DOMAIN f = {} /\ DOMAIN <<>> = {}
    BY <2>1 DEF CallEventsSent, NoCallsSent
  <2> HIDE DEF f
  <2>3. SameOrder(f, <<>>)
    BY <2>2 DEF SameOrder, Range
  <2> QED BY <1>2, <2>3 DEF f
<1>3. CASE req.mode = "client"
  BY <1>3 DEF Streamed, CallTypes
<1> QED BY <1>1, <1>2, <1>3

(***************************************************************************)
(* The tool items of drain_stream and of drain_sync.                       *)
(***************************************************************************)

\* Both drains know the same ids, and at the index each has for one is the same item.
SameIndex(id) ==
  /\ toolIndex[id] = 0 <=> Synced.index[id] = 0
  /\ toolIndex[id] # 0 => /\ Synced.index[id] \in DOMAIN Synced.out
                          /\ Synced.out[Synced.index[id]] = agentOutputs[toolIndex[id]]
Agreement ==
  req.streaming /\ pc = "drain" =>
    /\ Synced \in [out : Seq(ItemType), index : [ToolIds -> Nat]]
    /\ \A i \in DOMAIN Synced.out : Synced.out[i].nr <= Len(seen)
    /\ \A i \in DOMAIN agentOutputs :
         agentOutputs[i].nr <= Len(seen) /\ agentOutputs[i].type = "agent_call"
    /\ SameOrder(agentOutputs, SyncedTools)
    /\ \A id \in ToolIds : SameIndex(id)

\* x takes the place a in f, or comes after all of f.
Replaced(h, f, a, x) ==
  /\ DOMAIN f \subseteq Nat /\ a \in DOMAIN f
  /\ DOMAIN h = DOMAIN f /\ h[a] = x /\ \A i \in DOMAIN f : i # a => h[i] = f[i]
Extended(h, f, a, x) ==
  /\ DOMAIN f \subseteq Nat /\ a \in Nat /\ \A i \in DOMAIN f : i < a
  /\ DOMAIN h = DOMAIN f \cup {a} /\ h[a] = x /\ \A i \in DOMAIN f : h[i] = f[i]

\* The same item, new to both, takes the place of one that both have, ...
LEMMA SameOrderReplaced ==
  ASSUME NEW f, NEW g, SameOrder(f, g), NEW x, \A i \in DOMAIN f : f[i] # x,
         NEW h, NEW a, Replaced(h, f, a, x), NEW k, NEW s, Replaced(k, g, s, x), f[a] = g[s]
  PROVE  /\ SameOrder(h, k)
         /\ \A i \in DOMAIN f, j \in DOMAIN g : f[i] = g[j] => (i = a <=> j = s)
<1>0. /\ DOMAIN f \subseteq Nat /\ a \in DOMAIN f
      /\ DOMAIN h = DOMAIN f /\ h[a] = x /\ \A i \in DOMAIN f : i # a => h[i] = f[i]
      /\ DOMAIN g \subseteq Nat /\ s \in DOMAIN g
      /\ DOMAIN k = DOMAIN g /\ k[s] = x /\ \A i \in DOMAIN g : i # s => k[i] = g[i]
  BY DEF Replaced
<1>1. /\ \A i \in DOMAIN f : \E j \in DOMAIN g : g[j] = f[i]
      /\ \A j \in DOMAIN g : \E i \in DOMAIN f : g[j] = f[i]
  <2>1. Range(f) = Range(g)
    BY DEF SameOrder
  <2>2. ASSUME NEW i \in DOMAIN f PROVE \E j \in DOMAIN g : g[j] = f[i]
    <3>1. f[i] \in Range(f)
      BY DEF Range
    <3>2. f[i] \in Range(g)
      BY <1>0, <2>1, <3>1
    <3> QED BY <1>0, <3>2 DEF Range
  <2>3. ASSUME NEW j \in DOMAIN g PROVE \E i \in DOMAIN f : g[j] = f[i]
    <3>1. g[j] \in Range(g)
      BY DEF Range
    <3>2. g[j] \in Range(f)
      BY <1>0, <2>1, <3>1
    <3> QED BY <1>0, <3>2 DEF Range
  <2> QED BY <1>0, <2>2, <2>3
<1>2. \A i, j \in DOMAIN f, m, l \in DOMAIN g : f[i] = g[m] /\ f[j] = g[l] => (i < j <=> m < l)
  BY DEF SameOrder
<1>3. \A i \in DOMAIN f, j \in DOMAIN g : f[i] = g[j] => (i = a <=> j = s)
  BY <1>0, <1>2
<1>4. \A j \in DOMAIN g : g[j] # x
  BY <1>0, <1>1
<1>5. \A i \in DOMAIN f, j \in DOMAIN g : h[i] = k[j] => f[i] = g[j]
  BY <1>0, <1>4
<1>6. \A i \in DOMAIN f, j \in DOMAIN g : f[i] = g[j] => h[i] = k[j]
  BY <1>0, <1>3
<1>7. Range(h) = Range(k)
  BY <1>0, <1>1, <1>6 DEF Range
<1>8. \A i, j \in DOMAIN h, m, l \in DOMAIN k : h[i] = k[m] /\ h[j] = k[l] => (i < j <=> m < l)
  BY <1>0, <1>2, <1>5
<1> QED BY <1>0, <1>3, <1>7, <1>8 DEF SameOrder

\* ... or comes after all of both.
LEMMA SameOrderExtended ==
  ASSUME NEW f, NEW g, SameOrder(f, g), NEW x, \A i \in DOMAIN f : f[i] # x,
         NEW h, NEW a, Extended(h, f, a, x), NEW k, NEW s, Extended(k, g, s, x)
  PROVE  SameOrder(h, k)
<1>0. /\ DOMAIN f \subseteq Nat /\ a \in Nat /\ \A i \in DOMAIN f : i < a
      /\ DOMAIN h = DOMAIN f \cup {a} /\ h[a] = x /\ \A i \in DOMAIN f : h[i] = f[i]
      /\ DOMAIN g \subseteq Nat /\ s \in Nat /\ \A i \in DOMAIN g : i < s
      /\ DOMAIN k = DOMAIN g \cup {s} /\ k[s] = x /\ \A i \in DOMAIN g : k[i] = g[i]
  BY DEF Extended
<1>1. Range(f) = Range(g)
  BY DEF SameOrder
<1>2. Range(h) = Range(f) \cup {x} /\ Range(k) = Range(g) \cup {x}
  BY <1>0 DEF Range
<1>3. \A j \in DOMAIN g : g[j] # x
  <2>1. x \notin Range(f)
    BY DEF Range
  <2> QED BY <1>0, <1>1, <2>1 DEF Range
<1>4. \A i, j \in DOMAIN f, m, l \in DOMAIN g : f[i] = g[m] /\ f[j] = g[l] => (i < j <=> m < l)
  BY DEF SameOrder
<1>5. ASSUME NEW i \in DOMAIN h, NEW j \in DOMAIN h, NEW m \in DOMAIN k, NEW l \in DOMAIN k,
             h[i] = k[m], h[j] = k[l]
      PROVE  i < j <=> m < l
  <2>1. (i = a <=> m = s) /\ (j = a <=> l = s)
    BY <1>0, <1>3, <1>5
  <2>2. CASE i # a /\ j # a
    BY <1>0, <1>4, <1>5, <2>1, <2>2
  <2>3. CASE i = a /\ j = a
    BY <1>0, <2>1, <2>3
  <2>4. CASE i = a /\ j # a
    <3>1. j < a /\ l < s /\ m = s /\ j \in Nat /\ l \in Nat
      BY <1>0, <2>1, <2>4
    <3> QED BY <1>0, <2>4, <3>1
  <2>5. CASE i # a /\ j = a
    <3>1. i < a /\ m < s /\ l = s
      BY <1>0, <2>1, <2>5
    <3> QED BY <1>0, <2>5, <3>1
  <2> QED BY <1>0, <2>2, <2>3, <2>4, <2>5
<1> QED BY <1>0, <1>1, <1>2, <1>5 DEF SameOrder

\* While the drain lasts, the response changes with the agent's events only.
LEMMA DrainSteps ==
  ASSUME [Next]_vars, pc' = "drain"
  PROVE  /\ pc = "drain" /\ req' = req
         /\ \/ UNCHANGED <<seen, output, agentOutputs, toolIndex, sent>>
            \/ \E kind \in {"delta", "reasoning", "started", "updated"}, id \in ToolIds :
                 AgentEvent(kind, id)
<1>1. CASE AgentSpeaks
  <2>1. PICK kind \in {"delta", "reasoning", "started", "updated"}, id \in ToolIds :
          AgentEvent(kind, id)
    BY <1>1 DEF AgentSpeaks
  <2> QED BY <2>1 DEF AgentEvent
<1>2. CASE AgentFails \/ CallsRefused \/ StepFails \/ \E reply \in Replies : RetryFails(reply)
  BY <1>2 DEF AgentFails, CallsRefused, StepFails, RetryFails, Fail
<1>3. CASE NoCalls \/ ClientCalls \/ ServerLimit \/ ServerStep \/ Disconnect
  BY <1>3 DEF NoCalls, ClientCalls, ServerLimit, ServerStep, Disconnect
<1>4. CASE Answer \/ SchemaRefuses \/ StepSucceeds \/ StepFallsBack
  BY <1>4 DEF Answer, SchemaRefuses, Complete, StepSucceeds, StepFallsBack
<1>5. ASSUME NEW reply, NEW finish,
             AgentContinues(reply) \/ FirstReply(reply, finish) \/ RetryAnswers(reply, finish)
      PROVE  FALSE
  BY <1>5 DEF AgentContinues, FirstReply, RetryAnswers, Complete
<1>6. CASE PostReturns \/ BodyReturns \/ (\E c \in DOMAIN answer : WebhookTakesEffect(c))
           \/ UNCHANGED vars
  BY <1>6 DEF PostReturns, BodyReturns, WebhookResponds, WebhookFails, WebhookAnswers,
              WebhookTakesEffect, drainVars, vars
<1> QED BY <1>1, <1>2, <1>3, <1>4, <1>5, <1>6 DEF Next, Prompted, Proceed

LEMMA SyncedFollows ==
  ASSUME Loop, NEW e \in EventType, seen' = Append(seen, e)
  PROVE  Synced' = SyncStep(Synced, e)
<1> DEFINE base == [out |-> <<>>, index |-> [id \in ToolIds |-> 0]]
<1>1. seen \in Seq(EventType)
  BY DEF Loop, LoopTypes
<1>2. Synced = SyncFold(base, seen) /\ Synced' = SyncFold(base, Append(seen, e))
  BY DEF Synced, SyncFold
<1> HIDE DEF base
<1>3. SyncFold(base, Append(seen, e)) = SyncStep(SyncFold(base, seen), e)
  BY <1>1, SyncStepsLast
<1> QED BY <1>2, <1>3

LEMMA SyncedItems ==
  /\ DOMAIN SyncedTools = {i \in DOMAIN Synced.out : Synced.out[i].type # "reasoning"}
  /\ \A i \in DOMAIN SyncedTools : SyncedTools[i] = Synced.out[i]
BY DEF SyncedTools, Restrict

LEMMA AgreementKept ==
  ASSUME Loop, StreamTypes, Agreement, req.streaming,
         NEW kind \in {"delta", "reasoning", "started", "updated"}, NEW id \in ToolIds,
         AgentEvent(kind, id)
  PROVE  Agreement'
<1> DEFINE e == [kind |-> kind, id |-> id, nr |-> Len(seen) + 1]
           x == AgentItem(e)
           A == agentOutputs
           out == Synced.out
           T == SyncedTools
<1>0. /\ A \in Seq(ItemType) /\ seen \in Seq(EventType) /\ Len(seen) \in Nat
      /\ e \in EventType /\ pc = "drain" /\ seen' = Append(seen, e) /\ Len(seen') = Len(seen) + 1
      /\ toolIndex \in [ToolIds -> Nat] /\ \A i \in ToolIds : toolIndex[i] <= Len(A)
      /\ req' = req /\ pc' = "drain"
  BY DEF Loop, LoopTypes, StreamTypes, AgentEvent, EventType
<1>1. /\ Synced \in [out : Seq(ItemType), index : [ToolIds -> Nat]]
      /\ \A i \in DOMAIN out : out[i].nr <= Len(seen)
      /\ \A i \in DOMAIN A : A[i].nr <= Len(seen) /\ A[i].type = "agent_call"
      /\ SameOrder(A, T)
      /\ \A i \in ToolIds : SameIndex(i)
  BY <1>0 DEF Agreement
<1>2. Synced' = SyncStep(Synced, e)
  BY <1>0, SyncedFollows
<1>3. /\ DOMAIN T = {i \in DOMAIN out : out[i].type # "reasoning"}
      /\ \A i \in DOMAIN T : T[i] = out[i]
  BY SyncedItems
<1>4. /\ DOMAIN T' = {i \in DOMAIN out' : out'[i].type # "reasoning"}
      /\ \A i \in DOMAIN T' : T'[i] = out'[i]
  BY DEF SyncedTools, Restrict
<1>5. /\ x \in ItemType /\ x.type = "agent_call" /\ x.nr = Len(seen) + 1
      /\ Item("reasoning", e.nr, 0) \in ItemType /\ Item("reasoning", e.nr, 0).type = "reasoning"
      /\ Item("reasoning", e.nr, 0).nr = Len(seen) + 1
  BY <1>0 DEF AgentItem, Item, ItemType, EventType
<1> SUFFICES /\ Synced' \in [out : Seq(ItemType), index : [ToolIds -> Nat]]
             /\ \A i \in DOMAIN out' : out'[i].nr <= Len(seen')
             /\ \A i \in DOMAIN A' : A'[i].nr <= Len(seen') /\ A'[i].type = "agent_call"
             /\ SameOrder(A', T')
             /\ \A i \in ToolIds : SameIndex(i)'
  BY DEF Agreement
<1>6. CASE kind = "delta"
  <2>1. Synced' = Synced /\ A' = A /\ toolIndex' = toolIndex
    BY <1>2, <1>6 DEF SyncStep, AgentEvent, StreamDelta
  <2>2. T' = T
    BY <2>1 DEF SyncedTools
  <2>3. \A i \in ToolIds : SameIndex(i)'
    BY <1>1, <2>1 DEF SameIndex
  <2>4. \A n \in Nat : n <= Len(seen) => n <= Len(seen')
    BY <1>0
  <2>5. \A y \in ItemType : y.nr \in Nat
    BY DEF ItemType
  <2> HIDE DEF A, T, e, x
  <2>6. out' = out
    BY <2>1
  <2>7. Synced' \in [out : Seq(ItemType), index : [ToolIds -> Nat]] /\ out \in Seq(ItemType)
    BY <1>1, <2>1
  <2> HIDE DEF out
  <2>8. \A i \in DOMAIN out' : out'[i].nr <= Len(seen')
    BY <1>1, <2>4, <2>5, <2>6, <2>7
  <2>9. \A i \in DOMAIN A' : A'[i].nr <= Len(seen') /\ A'[i].type = "agent_call"
    BY <1>0, <1>1, <2>1, <2>4, <2>5
  <2> QED BY <1>1, <2>1, <2>2, <2>3, <2>7, <2>8, <2>9
<1>7. CASE kind = "reasoning"
  <2> DEFINE r == Item("reasoning", e.nr, 0)
  <2>1. /\ Synced' = [Synced EXCEPT !.out = Append(@, r)]
        /\ A' = A /\ toolIndex' = toolIndex
    BY <1>2, <1>7 DEF SyncStep, AgentEvent, StreamReasoning
  <2>2. out' = Append(out, r) /\ Synced.index' = Synced.index
    BY <1>1, <2>1
  <2>3. r \in ItemType /\ r.type = "reasoning" /\ r.nr = Len(seen) + 1
    BY <1>5
  <2> HIDE DEF r, out, A, T, e, x
  <2>4. out \in Seq(ItemType) /\ Synced.index \in [ToolIds -> Nat]
    BY <1>1 DEF out
  <2>5. /\ out' \in Seq(ItemType)
        /\ \A i \in DOMAIN out : i \in DOMAIN out' /\ out'[i] = out[i]
        /\ \A i \in DOMAIN out' : i \in DOMAIN out \/ out'[i] = r
    BY <2>2, <2>3, <2>4, AppendRange
  <2>6. T' = T
    <3>1. DOMAIN T' = DOMAIN T
      BY <1>3, <1>4, <2>3, <2>5
    <3>2. \A i \in DOMAIN T : T'[i] = T[i]
      BY <1>3, <1>4, <2>5, <3>1
    <3>3. T = [i \in DOMAIN T |-> T[i]] /\ T' = [i \in DOMAIN T' |-> T'[i]]
      BY DEF T, SyncedTools, Restrict
    <3> QED BY <3>1, <3>2, <3>3
  <2>7. \A n \in Nat : n <= Len(seen) => n <= Len(seen')
    BY <1>0
  <2>8. \A y \in ItemType : y.nr \in Nat
    BY DEF ItemType
  <2>9. ASSUME NEW i \in DOMAIN out' PROVE out'[i].nr <= Len(seen')
    <3>1. CASE i \in DOMAIN out
      <4>1. out'[i] = out[i] /\ out[i] \in ItemType /\ out[i].nr <= Len(seen)
        BY <1>1, <2>4, <2>5, <3>1
      <4> QED BY <1>0, <2>8, <4>1
    <3>2. CASE out'[i] = r
      BY <1>0, <2>3, <3>2
    <3> QED BY <2>5, <3>1, <3>2
  <2>10. \A i \in ToolIds : SameIndex(i)'
    BY <1>1, <2>1, <2>2, <2>5 DEF SameIndex, out, A
  <2>11. Synced' \in [out : Seq(ItemType), index : [ToolIds -> Nat]]
    BY <1>1, <2>1, <2>2, <2>5 DEF out
  <2>12. \A i \in DOMAIN A' : A'[i].nr <= Len(seen') /\ A'[i].type = "agent_call"
    BY <1>0, <1>1, <2>1, <2>7, <2>8
  <2> QED BY <1>1, <2>1, <2>6, <2>9, <2>10, <2>11, <2>12
<1> DEFINE a == toolIndex[id]
           s == Synced.index[id]
           new == ~(kind = "updated" /\ a # 0)
<1>8. /\ a \in Nat /\ s \in Nat /\ (a = 0 <=> s = 0)
      /\ a # 0 => a \in DOMAIN A /\ s \in DOMAIN out /\ s \in DOMAIN T /\ T[s] = A[a]
  <2>1. a \in Nat /\ a <= Len(A) /\ s \in Nat
    BY <1>0, <1>1
  <2>2. SameIndex(id)
    BY <1>1
  <2>3. a # 0 => a \in DOMAIN A
    BY <1>0, <2>1
  <2>4. a # 0 => s \in DOMAIN out /\ out[s] = A[a] /\ A[a].type = "agent_call"
    BY <1>1, <2>2, <2>3 DEF SameIndex
  <2> QED BY <1>3, <2>1, <2>2, <2>3, <2>4 DEF SameIndex
<1>9. ASSUME kind \notin {"delta", "reasoning"}
      PROVE  /\ A' = IF new THEN Append(A, x) ELSE [A EXCEPT ![a] = x]
             /\ toolIndex' = [toolIndex EXCEPT ![id] = IF new THEN Len(A) + 1 ELSE a]
             /\ out' = IF new THEN Append(out, x) ELSE [out EXCEPT ![s] = x]
             /\ Synced'.index = [Synced.index EXCEPT ![id] = IF new THEN Len(out) + 1 ELSE s]
             /\ Synced' = [out |-> out', index |-> Synced'.index]
  <2>1. kind \in {"started", "updated"}
    BY <1>9
  <2>2. Place(A, toolIndex, e) = IF new THEN Len(A) + 1 ELSE a
    BY DEF Place
  <2>3. Place(out, Synced.index, e) = IF new THEN Len(out) + 1 ELSE s
    BY <1>8 DEF Place
  <2>4. Len(A) + 1 \notin DOMAIN A /\ Len(out) + 1 \notin DOMAIN out
    BY <1>0, <1>1
  <2>5. A' = ApplyTool(A, toolIndex, e).out /\ toolIndex' = ApplyTool(A, toolIndex, e).index
    BY <2>1 DEF AgentEvent, StreamTool
  <2>6. Synced' = ApplyTool(out, Synced.index, e)
    BY <1>2, <2>1 DEF SyncStep
  <2> HIDE DEF x, out
  <2>7. /\ A' = IF new THEN Append(A, x) ELSE [A EXCEPT ![a] = x]
        /\ toolIndex' = [toolIndex EXCEPT ![id] = IF new THEN Len(A) + 1 ELSE a]
    BY <1>8, <2>2, <2>4, <2>5 DEF ApplyTool, x
  <2>8. Synced' = [out |-> IF new THEN Append(out, x) ELSE [out EXCEPT ![s] = x],
                   index |-> [Synced.index EXCEPT ![id] = IF new THEN Len(out) + 1 ELSE s]]
    BY <1>8, <2>3, <2>4, <2>6 DEF ApplyTool, x
  <2> QED BY <2>7, <2>8 DEF out
<1>10. \A y \in ItemType : y.nr \in Nat
  BY DEF ItemType
<1>11. /\ \A i \in DOMAIN A : A[i] # x
       /\ \A n \in Nat : n <= Len(seen) => n <= Len(seen')
  <2>1. \A i \in DOMAIN A : A[i].nr <= Len(seen) /\ A[i].nr \in Nat
    BY <1>0, <1>1, <1>10
  <2>2. x.nr = Len(seen) + 1
    BY <1>5
  <2> HIDE DEF A, x
  <2> QED BY <1>0, <2>1, <2>2
<1>12. CASE kind \notin {"delta", "reasoning"} /\ new
  <2> DEFINE p == Len(A) + 1
             q == Len(out) + 1
  <2>1. /\ A' = Append(A, x) /\ out' = Append(out, x)
        /\ toolIndex' = [toolIndex EXCEPT ![id] = p]
        /\ Synced'.index = [Synced.index EXCEPT ![id] = q]
        /\ Synced' = [out |-> out', index |-> Synced'.index]
    BY <1>9, <1>12
  <2>2. x \in ItemType /\ x.type = "agent_call" /\ x.nr = Len(seen')
    BY <1>0, <1>5
  <2>3. out \in Seq(ItemType) /\ Synced.index \in [ToolIds -> Nat]
    BY <1>1
  <2> HIDE DEF A, out, x, T, e, new, a, s
  <2>4. /\ A' \in Seq(ItemType) /\ p \in Nat /\ DOMAIN A' = DOMAIN A \cup {p} /\ A'[p] = x
        /\ \A i \in DOMAIN A : A'[i] = A[i] /\ i < p /\ i \in Nat
    BY <1>0, <2>1, <2>2
  <2>5. /\ out' \in Seq(ItemType) /\ q \in Nat /\ DOMAIN out' = DOMAIN out \cup {q} /\ out'[q] = x
        /\ \A i \in DOMAIN out : out'[i] = out[i] /\ i < q /\ i \in Nat
    BY <2>1, <2>2, <2>3
  <2> HIDE DEF p, q
  <2>6. /\ DOMAIN T' = DOMAIN T \cup {q} /\ T'[q] = x
        /\ \A i \in DOMAIN T : T'[i] = T[i] /\ i < q /\ i \in Nat
    BY <1>3, <1>4, <2>2, <2>5
  <2>7. SameOrder(A', T')
    <3> DEFINE h == A'
               k == T'
    <3>1. Extended(h, A, p, x)
      BY <2>4 DEF Extended
    <3>2. Extended(k, T, q, x)
      BY <2>5, <2>6 DEF Extended
    <3> HIDE DEF h, k
    <3>5. SameOrder(h, k)
      BY <1>1, <1>11, <3>1, <3>2, SameOrderExtended
    <3> QED BY <3>5 DEF h, k
  <2>8. \A i \in ToolIds : SameIndex(i)'
    <3> SUFFICES ASSUME NEW i \in ToolIds PROVE SameIndex(i)'
      OBVIOUS
    <3>1. CASE i = id
      <4>1. toolIndex'[i] = p /\ Synced'.index[i] = q /\ p # 0 /\ q # 0
        BY <1>0, <2>1, <2>3, <2>4, <2>5, <3>1 DEF p, q, A, out
      <4>2. q \in DOMAIN out' /\ out'[q] = A'[p]
        BY <2>4, <2>5
      <4> QED BY <4>1, <4>2 DEF SameIndex, out, A
    <3>2. CASE i # id
      <4>1. toolIndex'[i] = toolIndex[i] /\ Synced'.index[i] = Synced.index[i]
        BY <1>0, <2>1, <2>3, <3>2
      <4>2. SameIndex(i) /\ toolIndex[i] \in Nat /\ toolIndex[i] <= Len(A)
        BY <1>0, <1>1 DEF A
      <4>3. toolIndex[i] # 0 => toolIndex[i] \in DOMAIN A
        BY <1>0, <4>2
      <4>4. toolIndex[i] # 0 => Synced.index[i] \in DOMAIN out /\ out[Synced.index[i]] = A[toolIndex[i]]
        BY <4>2 DEF SameIndex, out, A
      <4>5. toolIndex'[i] # 0 => /\ Synced'.index[i] \in DOMAIN out'
                                 /\ out'[Synced'.index[i]] = A'[toolIndex'[i]]
        BY <2>4, <2>5, <4>1, <4>3, <4>4
      <4>6. toolIndex'[i] = 0 <=> Synced'.index[i] = 0
        BY <4>1, <4>2 DEF SameIndex
      <4> QED BY <4>5, <4>6 DEF SameIndex, out, A
    <3> QED BY <3>1, <3>2
  <2>9. \A i \in DOMAIN out' : out'[i].nr <= Len(seen')
    <3>1. \A i \in DOMAIN out : out[i].nr \in Nat /\ out[i].nr <= Len(seen)
      BY <1>1, <1>10, <2>3 DEF out
    <3>2. Len(seen') <= Len(seen')
      BY <1>0
    <3> QED BY <1>11, <2>2, <2>5, <3>1, <3>2
  <2>10. \A i \in DOMAIN A' : A'[i].nr <= Len(seen') /\ A'[i].type = "agent_call"
    <3>1. \A i \in DOMAIN A : A[i].nr \in Nat /\ A[i].nr <= Len(seen) /\ A[i].type = "agent_call"
      BY <1>0, <1>1, <1>10 DEF A
    <3>2. Len(seen') <= Len(seen')
      BY <1>0
    <3> QED BY <1>11, <2>2, <2>4, <3>1, <3>2
  <2>11. Synced' \in [out : Seq(ItemType), index : [ToolIds -> Nat]]
    <3> DEFINE n == Synced'.index
    <3>1. n \in [ToolIds -> Nat]
      BY <2>1, <2>3, <2>5
    <3>2. out' \in Seq(ItemType)
      BY <2>5
    <3>3. Synced' = [out |-> out', index |-> n]
      BY <2>1
    <3> HIDE DEF n
    <3> QED BY <3>1, <3>2, <3>3
  <2> QED BY <2>7, <2>8, <2>9, <2>10, <2>11 DEF A, T, out
<1>13. CASE kind \notin {"delta", "reasoning"} /\ ~new
  <2>1. /\ A' = [A EXCEPT ![a] = x] /\ out' = [out EXCEPT ![s] = x]
        /\ toolIndex' = [toolIndex EXCEPT ![id] = a]
        /\ Synced'.index = [Synced.index EXCEPT ![id] = s]
        /\ Synced' = [out |-> out', index |-> Synced'.index]
    BY <1>9, <1>13
  <2>2. x \in ItemType /\ x.type = "agent_call" /\ x.nr = Len(seen')
    BY <1>0, <1>5
  <2>3. out \in Seq(ItemType) /\ Synced.index \in [ToolIds -> Nat]
    BY <1>1
  <2>4. /\ a \in DOMAIN A /\ s \in DOMAIN out /\ s \in DOMAIN T /\ T[s] = A[a]
        /\ toolIndex' = toolIndex /\ Synced'.index = Synced.index
    <3>1. a # 0
      BY <1>13
    <3>2. toolIndex[id] = a /\ Synced.index[id] = s
      OBVIOUS
    <3> HIDE DEF a, s, A, out, T, x, e, new
    <3> QED BY <1>0, <1>8, <2>1, <2>3, <3>1, <3>2
  <2> HIDE DEF A, out, x, T, e, new, a, s
  <2>5. /\ A' \in Seq(ItemType) /\ DOMAIN A' = DOMAIN A /\ A'[a] = x
        /\ \A i \in DOMAIN A : (i # a => A'[i] = A[i]) /\ i \in Nat
    BY <1>0, <2>1, <2>2, <2>4
  <2>6. /\ out' \in Seq(ItemType) /\ DOMAIN out' = DOMAIN out /\ out'[s] = x
        /\ \A i \in DOMAIN out : (i # s => out'[i] = out[i]) /\ i \in Nat
    BY <2>1, <2>2, <2>3, <2>4
  <2>7. out[s].type # "reasoning"
    BY <1>3, <2>4
  <2>8. /\ DOMAIN T' = DOMAIN T /\ T'[s] = x
        /\ \A i \in DOMAIN T : (i # s => T'[i] = T[i]) /\ i \in Nat
    BY <1>3, <1>4, <2>2, <2>4, <2>6, <2>7
  <2>9. /\ SameOrder(A', T')
        /\ \A i \in DOMAIN A, j \in DOMAIN T : A[i] = T[j] => (i = a <=> j = s)
    <3> DEFINE h == A'
               k == T'
    <3>1. Replaced(h, A, a, x)
      BY <2>4, <2>5 DEF Replaced
    <3>2. Replaced(k, T, s, x)
      BY <2>4, <2>8 DEF Replaced
    <3> HIDE DEF h, k
    <3>5. /\ SameOrder(h, k)
          /\ \A i \in DOMAIN A, j \in DOMAIN T : A[i] = T[j] => (i = a <=> j = s)
      BY <1>1, <1>11, <2>4, <3>1, <3>2, SameOrderReplaced
    <3> QED BY <3>5 DEF h, k
  <2>10. \A i \in ToolIds : SameIndex(i)'
    <3> SUFFICES ASSUME NEW i \in ToolIds PROVE SameIndex(i)'
      OBVIOUS
    <3> DEFINE b == toolIndex[i]
               t == Synced.index[i]
    <3>1. SameIndex(i) /\ b \in Nat /\ b <= Len(A)
      BY <1>0, <1>1 DEF A
    <3>2. b # 0 => b \in DOMAIN A
      BY <1>0, <3>1
    <3>3. b # 0 => t \in DOMAIN out /\ out[t] = A[b]
      BY <3>1 DEF SameIndex, out, A
    <3>4. b # 0 => t \in DOMAIN T /\ T[t] = A[b]
      <4>1. b # 0 => out[t].type = "agent_call"
        BY <1>1, <3>2, <3>3
      <4> QED BY <1>3, <3>3, <4>1
    <3>5. b = 0 <=> t = 0
      BY <3>1 DEF SameIndex
    <3> HIDE DEF b, t
    <3>6. b # 0 => t \in DOMAIN out' /\ out'[t] = A'[b]
      <4>1. b # 0 => (b = a <=> t = s)
        BY <2>9, <3>2, <3>4
      <4> QED BY <2>5, <2>6, <3>2, <3>3, <4>1
    <3>7. toolIndex'[i] = b /\ Synced'.index[i] = t
      BY <2>4 DEF b, t
    <3> QED BY <3>5, <3>6, <3>7 DEF SameIndex, out, A
  <2>11. \A i \in DOMAIN out' : out'[i].nr <= Len(seen')
    <3>1. \A i \in DOMAIN out : out[i].nr \in Nat /\ out[i].nr <= Len(seen)
      BY <1>1, <1>10, <2>3 DEF out
    <3>2. Len(seen') <= Len(seen')
      BY <1>0
    <3> QED BY <1>11, <2>2, <2>6, <3>1, <3>2
  <2>12. \A i \in DOMAIN A' : A'[i].nr <= Len(seen') /\ A'[i].type = "agent_call"
    <3>1. \A i \in DOMAIN A : A[i].nr \in Nat /\ A[i].nr <= Len(seen) /\ A[i].type = "agent_call"
      BY <1>0, <1>1, <1>10 DEF A
    <3>2. Len(seen') <= Len(seen')
      BY <1>0
    <3> QED BY <1>11, <2>2, <2>5, <3>1, <3>2
  <2>13. Synced' \in [out : Seq(ItemType), index : [ToolIds -> Nat]]
    BY <2>1, <2>3, <2>4, <2>6
  <2> QED BY <2>9, <2>10, <2>11, <2>12, <2>13 DEF A, T, out
<1> QED BY <1>6, <1>7, <1>12, <1>13

LEMMA NextAgreement == Loop /\ StreamTypes /\ Agreement /\ [Next]_vars => Agreement'
<1> SUFFICES ASSUME Loop, StreamTypes, Agreement, [Next]_vars, req'.streaming, pc' = "drain"
             PROVE  Agreement'
  BY DEF Agreement
<1>1. pc = "drain" /\ req' = req
  BY DrainSteps
<1>2. CASE UNCHANGED <<seen, output, agentOutputs, toolIndex, sent>>
  <2>1. Synced' = Synced /\ SyncedTools' = SyncedTools
    BY <1>2 DEF Synced, SyncedTools
  <2> QED BY <1>1, <1>2, <2>1 DEF Agreement, SameIndex, SameOrder
<1>3. ASSUME NEW kind \in {"delta", "reasoning", "started", "updated"}, NEW id \in ToolIds,
             AgentEvent(kind, id)
      PROVE  Agreement'
  BY <1>1, <1>3, AgreementKept
<1> QED BY <1>2, <1>3, DrainSteps

LEMMA InitAgreement == Init => Agreement
<1> SUFFICES ASSUME Init PROVE Agreement
  OBVIOUS
<1> DEFINE base == [out |-> <<>>, index |-> [id \in ToolIds |-> 0]]
<1>1. seen = <<>> /\ agentOutputs = <<>> /\ toolIndex = [id \in ToolIds |-> 0]
  BY DEF Init
<1>2. Synced = SyncFold(base, <<>>)
  BY <1>1 DEF Synced, SyncFold
<1>0. /\ base \in [out : Seq(ItemType), index : [ToolIds -> Nat]]
      /\ base.out = <<>> /\ \A id \in ToolIds : base.index[id] = 0
  <2>1. <<>> \in Seq(ItemType) /\ [id \in ToolIds |-> 0] \in [ToolIds -> Nat]
    OBVIOUS
  <2> QED BY <2>1
<1> HIDE DEF base
<1>3. SyncFold(base, <<>>) = base
  <2>1. <<>> \in Seq(Nat) /\ 0 \in Nat
    OBVIOUS
  <2> QED BY <2>1, SyncStepsLast
<1>4. /\ Synced \in [out : Seq(ItemType), index : [ToolIds -> Nat]]
      /\ Synced.out = <<>> /\ \A id \in ToolIds : Synced.index[id] = 0
  BY <1>0, <1>2, <1>3
<1> DEFINE T == SyncedTools
<1>5. DOMAIN T = {} /\ DOMAIN agentOutputs = {} /\ DOMAIN Synced.out = {}
  BY <1>1, <1>4, SyncedItems
<1> HIDE DEF T
<1>6. SameOrder(agentOutputs, T)
  BY <1>5 DEF SameOrder, Range
<1>7. \A id \in ToolIds : SameIndex(id)
  BY <1>1, <1>4 DEF SameIndex
<1> QED BY <1>4, <1>5, <1>6, <1>7 DEF Agreement, T

\* What a streaming client is told, for every request, agent and webhook: both drains
\* keep the same tool items in the same order, and a client is streamed the calls of
\* its tools that the answer lists, each once, in their order and whole, from its start
\* over its arguments to its end (drain_sync, drain_stream, emit_tool_sse_events).
THEOREM StreamsTellTheAnswer == Spec => []StreamTellsTheAnswer
<1> DEFINE Told == StreamTypes /\ Streamed /\ Agreement
<1>1. Init => Told
  BY InitStreamTypes, InitStreamed, InitAgreement
<1>2. Loop /\ Told /\ [Next]_vars => Told'
  BY NextStreamTypes, NextStreamed, NextAgreement
<1>3. Loop /\ Told => StreamTellsTheAnswer
  BY StreamedSuffices DEF Streamed, Agreement, StreamAgreesWithSync, StreamTellsTheAnswer
<1> QED BY <1>1, <1>2, <1>3, LoopHolds, PTL DEF Spec

(***************************************************************************)
(* The indices of the events.                                              *)
(***************************************************************************)
RightEvent(ordered, e) ==
  NamesItem(e) => PointsAtItem(e) \/ (~ordered /\ e.item.type # "streamed_call")

\* As long as events come in order: text is the first item, and without text or
\* reasoning the agent's outputs are the items of the response.
Seen(kinds) == \E i \in DOMAIN seen : seen[i].kind \in kinds
Aligned ==
  req.streaming /\ pc = "drain" =>
    /\ seen = <<>> => output = <<>>
    /\ \A i \in DOMAIN seen : seen[i].kind = "started" => toolIndex[seen[i].id] # 0
    /\ InOrder =>
         /\ TextStarted => output[1].type = "message"
         /\ Len(agentOutputs) <= Len(output)
         /\ ~Seen({"delta", "reasoning"}) => Len(agentOutputs) = Len(output)

LEMMA PointsMore ==
  ASSUME StreamTypes, EventsPointAtTheirItems, InOrder' => InOrder,
         NEW q \in Seq(SentType), sent' = sent \o q,
         \A i \in DOMAIN q : RightEvent(InOrder', q[i])
  PROVE  EventsPointAtTheirItems'
<1>1. sent \in Seq(SentType)
  BY DEF StreamTypes
<1>2. \A i \in DOMAIN sent : RightEvent(InOrder', sent[i])
  BY DEF EventsPointAtTheirItems, RightEvent
<1>3. \A i \in DOMAIN sent' : RightEvent(InOrder', sent'[i])
  BY <1>1, <1>2, ConcatParts
<1> QED BY <1>3 DEF EventsPointAtTheirItems, RightEvent, NamesItem, PointsAtItem

\* An event that is in order comes after events in order, and what it has to come
\* after, came.
LEMMA OrderShrinks ==
  ASSUME seen \in Seq(EventType), NEW e \in EventType, seen' = Append(seen, e), InOrder'
  PROVE  /\ InOrder
         /\ e.kind = "delta" => (Seen({"reasoning", "started"}) => seen[1].kind = "delta")
         /\ e.kind = "started" => ~Seen({"delta", "reasoning"})
         /\ e.kind = "updated" => \E j \in DOMAIN seen :
                                    seen[j].kind = "started" /\ seen[j].id = e.id
<1>0. PICK n : n = Len(seen) + 1
  OBVIOUS
<1>1. /\ n \in DOMAIN seen' /\ seen'[n] = e /\ DOMAIN seen = 1..n - 1 /\ n \in Nat
      /\ \A i \in DOMAIN seen : i \in DOMAIN seen' /\ seen'[i] = seen[i] /\ i \in Nat
      /\ \A i \in DOMAIN seen : 1..i - 1 \subseteq DOMAIN seen
  BY <1>0
<1>2. \A kinds : \A i \in DOMAIN seen : Before(kinds, i)' <=> Before(kinds, i)
  BY <1>1 DEF Before
<1>3. \A kinds : Before(kinds, n)' <=> Seen(kinds)
  BY <1>1 DEF Before, Seen
<1>4. InOrder
  <2> SUFFICES ASSUME NEW i \in DOMAIN seen
               PROVE  CASE seen[i].kind = "delta" -> Before({"reasoning", "started"}, i) =>
                                                       seen[1].kind = "delta"
                        [] seen[i].kind = "started" -> ~Before({"delta", "reasoning"}, i)
                        [] seen[i].kind = "updated" ->
                             \E j \in 1..i - 1 : seen[j].kind = "started" /\ seen[j].id = seen[i].id
                        [] OTHER -> TRUE
    BY DEF InOrder
  <2>1. CASE seen[i].kind = "delta"
    BY <1>1, <1>2, <2>1 DEF InOrder
  <2>2. CASE seen[i].kind = "started"
    BY <1>1, <1>2, <2>2 DEF InOrder
  <2>3. CASE seen[i].kind = "updated"
    BY <1>1, <1>2, <2>3 DEF InOrder
  <2> QED BY <2>1, <2>2, <2>3
<1>5. e.kind = "delta" => (Seen({"reasoning", "started"}) => seen[1].kind = "delta")
  <2> SUFFICES ASSUME e.kind = "delta", Seen({"reasoning", "started"}) PROVE seen[1].kind = "delta"
    OBVIOUS
  <2>1. seen'[1].kind = "delta"
    BY <1>1, <1>3 DEF InOrder
  <2>2. 1 \in DOMAIN seen
    BY DEF Seen
  <2> QED BY <1>1, <2>1, <2>2
<1>6. e.kind = "started" => ~Seen({"delta", "reasoning"})
  BY <1>1, <1>3 DEF InOrder
<1>7. e.kind = "updated" => \E j \in DOMAIN seen : seen[j].kind = "started" /\ seen[j].id = e.id
  BY <1>1 DEF InOrder
<1> QED BY <1>4, <1>5, <1>6, <1>7

\* In order, no call of the agent's tools starts in a turn that has text.
LEMMA TextOrCalls ==
  ASSUME seen \in Seq(EventType), InOrder, TextStarted PROVE ~Seen({"started"})
<1> SUFFICES ASSUME Seen({"started"}) PROVE FALSE
  OBVIOUS
<1>1. PICK i \in DOMAIN seen : seen[i].kind = "delta"
  BY DEF TextStarted
<1>2. PICK j \in DOMAIN seen : seen[j].kind = "started"
  BY DEF Seen
<1>3. i \in Nat /\ j \in Nat /\ i # j /\ i >= 1 /\ j >= 1
  BY <1>1, <1>2
<1>4. ~Before({"delta", "reasoning"}, j)
  BY <1>2 DEF InOrder
<1>5. ~(i < j)
  BY <1>1, <1>3, <1>4 DEF Before
<1>6. Before({"reasoning", "started"}, i)
  BY <1>2, <1>3, <1>5 DEF Before
<1>7. seen[1].kind = "delta"
  BY <1>1, <1>6 DEF InOrder
<1>8. 1 < j
  BY <1>2, <1>3, <1>7
<1> QED BY <1>3, <1>4, <1>7, <1>8 DEF Before

\* In order, the first event is not an update.
LEMMA NoUpdateFirst ==
  ASSUME seen \in Seq(EventType), InOrder, seen # <<>>, seen[1].kind # "delta"
  PROVE  Seen({"reasoning", "started"})
<1>1. 1 \in DOMAIN seen /\ seen[1] \in EventType
  OBVIOUS
<1>2. seen[1].kind # "updated"
  <2>1. 1..1 - 1 = {}
    OBVIOUS
  <2> QED BY <1>1, <2>1 DEF InOrder
<1> QED BY <1>1, <1>2 DEF Seen, EventType

\* The item of an event in the response it carries.
LEMMA HeldItem ==
  ASSUME NEW type, NEW index, NEW item, NEW out, index \in DOMAIN out,
         out[index] = item \/ (out[index].type = "message" /\ item.type = "message"),
         NEW ordered
  PROVE  RightEvent(ordered, Event(type, index, item, out))
BY DEF RightEvent, PointsAtItem, Event

\* Out of order, an event about an item of the first reply may point anywhere.
LEMMA OutOfOrder ==
  ASSUME NEW q, AboutAgent(q) PROVE \A i \in DOMAIN q : RightEvent(FALSE, q[i])
BY DEF AboutAgent, DrainItem, RightEvent

LEMMA FirstReplyPoints ==
  ASSUME Loop, StreamTypes, EventsPointAtTheirItems, NEW reply, NEW finish,
         FirstReply(reply, finish)
  PROVE  EventsPointAtTheirItems'
<1> DEFINE out == IF TextStarted /\ output[1].type = "message"
                  THEN [output EXCEPT ![1] = Message(1)] ELSE output
           e == Event("done", 1, out[1], out)
<1>1. /\ output \in Seq(DrainItem) /\ sent \in Seq(SentType) /\ pc = "drain"
      /\ seen' = seen
      /\ sent' = IF req.streaming /\ TextStarted THEN Append(sent, e) ELSE sent
  BY DEF StreamTypes, FirstReply
<1>2. InOrder' = InOrder
  BY <1>1 DEF InOrder, Before
<1>3. CASE req.streaming /\ TextStarted
  <2>1. output # <<>>
    BY <1>1, <1>3 DEF StreamTypes
  <2>2. 1 \in DOMAIN out
    BY <1>1, <2>1
  <2>3. RightEvent(InOrder', e)
    <3> HIDE DEF out
    <3> QED BY <2>2, HeldItem
  <2>4. sent' = Append(sent, e)
    BY <1>1, <1>3
  <2>5. e \in SentType
    <3>1. PICK q : AboutAgent(q) /\ sent' = sent \o q
      BY FirstReplySends
    <3> HIDE DEF e
    <3>2. sent' \in Seq(SentType) /\ Len(sent') \in DOMAIN sent' /\ sent'[Len(sent')] = e
      <4>1. sent \o q \in Seq(SentType)
        BY <1>1, <3>1 DEF AboutAgent
      <4>2. Len(sent') = Len(sent) + 1 /\ sent'[Len(sent) + 1] = e /\ Len(sent) \in Nat
        BY <1>1, <2>4
      <4> QED BY <3>1, <4>1, <4>2
    <3> QED BY <3>2
  <2> HIDE DEF e
  <2> DEFINE q == <<e>>
  <2>6. q \in Seq(SentType) /\ sent' = sent \o q /\ \A i \in DOMAIN q : q[i] = e
    BY <1>1, <2>4, <2>5
  <2> HIDE DEF q
  <2> QED BY <1>2, <2>3, <2>6, PointsMore
<1>4. CASE ~(req.streaming /\ TextStarted)
  <2>1. sent' = sent
    BY <1>1, <1>4
  <2> QED BY <1>2, <2>1 DEF EventsPointAtTheirItems
<1> QED BY <1>3, <1>4

\* Events about items of the first reply that point at them.
RightEvents(ordered, q) == AboutAgent(q) /\ \A i \in DOMAIN q : RightEvent(ordered, q[i])

LEMMA RightOne ==
  ASSUME NEW type \in DrainTypes, NEW item \in DrainItem, NEW out \in Seq(DrainItem),
         NEW index \in DOMAIN out,
         out[index] = item \/ (out[index].type = "message" /\ item.type = "message"),
         NEW ordered
  PROVE  RightEvents(ordered, <<Event(type, index, item, out)>>)
<1> DEFINE e == Event(type, index, item, out)
<1>1. AboutAgent(<<e>>)
  <2>1. index \in Nat
    OBVIOUS
  <2> QED BY <2>1, AboutAgentEvents
<1>2. RightEvent(ordered, e)
  BY HeldItem
<1> HIDE DEF e
<1>3. \A i \in DOMAIN <<e>> : <<e>>[i] = e
  OBVIOUS
<1>4. RightEvents(ordered, <<e>>)
  BY <1>1, <1>2, <1>3 DEF RightEvents
<1> QED BY <1>4 DEF e

LEMMA RightConcat ==
  ASSUME NEW ordered, NEW p, NEW q, RightEvents(ordered, p), RightEvents(ordered, q)
  PROVE  RightEvents(ordered, p \o q) /\ RightEvents(ordered, <<>>)
<1>1. /\ p \in Seq(SentType) /\ q \in Seq(SentType) /\ AboutAgent(p \o q) /\ AboutAgent(<<>>)
      /\ DOMAIN <<>> = {}
  BY AboutAgentConcat DEF RightEvents, AboutAgent
<1>2. \A i \in DOMAIN (p \o q) : \/ i \in DOMAIN p /\ (p \o q)[i] = p[i]
                                 \/ i - Len(p) \in DOMAIN q /\ (p \o q)[i] = q[i - Len(p)]
  BY <1>1
<1> QED BY <1>1, <1>2 DEF RightEvents

\* What a step may do while events come in order.
AlignedAfter ==
  /\ \E q : RightEvents(TRUE, q) /\ sent' = sent \o q
  /\ TextStarted' => output'[1].type = "message"
  /\ Len(agentOutputs') <= Len(output')
  /\ ~Seen({"delta", "reasoning"})' => Len(agentOutputs') = Len(output')

LEMMA SeenGrows ==
  ASSUME seen \in Seq(EventType), NEW e \in EventType, seen' = Append(seen, e)
  PROVE  /\ \A kinds : Seen(kinds)' <=> Seen(kinds) \/ e.kind \in kinds
         /\ TextStarted' <=> TextStarted \/ e.kind = "delta"
         /\ TextStarted <=> Seen({"delta"})
<1>1. \A i \in DOMAIN seen' : (i \in DOMAIN seen /\ seen'[i] = seen[i]) \/ seen'[i] = e
  OBVIOUS
<1>2. \A i \in DOMAIN seen : i \in DOMAIN seen' /\ seen'[i] = seen[i]
  OBVIOUS
<1>3. Len(seen) + 1 \in DOMAIN seen' /\ seen'[Len(seen) + 1] = e
  OBVIOUS
<1> QED BY <1>1, <1>2, <1>3 DEF Seen, TextStarted

LEMMA PairConcat ==
  ASSUME NEW S, NEW a \in S, NEW b \in S PROVE <<a>> \o <<b>> = <<a, b>>
<1> DEFINE p == <<a>>
           q == <<b>>
           r == <<a, b>>
<1>1. /\ p \in Seq(S) /\ Len(p) = 1 /\ p[1] = a
      /\ q \in Seq(S) /\ Len(q) = 1 /\ q[1] = b
      /\ r \in Seq(S) /\ Len(r) = 2 /\ r[1] = a /\ r[2] = b
  OBVIOUS
<1> HIDE DEF p, q, r
<1>2. p \o q \in Seq(S) /\ Len(p \o q) = 2 /\ (p \o q)[1] = a /\ (p \o q)[2] = b
  <2>0. p \in Seq(S) /\ q \in Seq(S)
    BY <1>1
  <2>1. p \o q \in Seq(S) /\ Len(p \o q) = Len(p) + Len(q)
    BY <2>0
  <2>3. 1 \in DOMAIN p /\ 1 \in DOMAIN q
    BY <1>1
  <2>2. (p \o q)[1] = p[1] /\ (p \o q)[Len(p) + 1] = q[1]
    BY <2>0, <2>3, ConcatParts
  <2> QED BY <1>1, <2>1, <2>2
<1> DEFINE t == p \o q
<1>3. t \in Seq(S) /\ Len(t) = Len(r) /\ \A i \in 1..Len(r) : t[i] = r[i]
  <2>1. \A i \in 1..2 : i = 1 \/ i = 2
    OBVIOUS
  <2> QED BY <1>1, <1>2, <2>1
<1> HIDE DEF t
<1>4. t = r
  BY <1>1, <1>3
<1> QED BY <1>4 DEF p, q, r, t

LEMMA AgentEventAligns ==
  ASSUME Loop, StreamTypes, Aligned, req.streaming, InOrder',
         NEW kind \in {"delta", "reasoning", "started", "updated"}, NEW id \in ToolIds,
         AgentEvent(kind, id)
  PROVE  AlignedAfter
<1> DEFINE e == [kind |-> kind, id |-> id, nr |-> Len(seen) + 1]
           place == Place(agentOutputs, toolIndex, e)
           applied == ApplyTool(agentOutputs, toolIndex, e)
<1>0. /\ agentOutputs \in Seq(ItemType) /\ seen \in Seq(EventType) /\ Len(seen) + 1 \in Nat
      /\ output \in Seq(DrainItem) /\ sent \in Seq(SentType)
      /\ toolIndex \in [ToolIds -> Nat] /\ toolIndex[id] \in Nat
      /\ toolIndex[id] <= Len(agentOutputs)
      /\ e \in EventType /\ pc = "drain" /\ seen' = Append(seen, e)
  BY DEF Loop, LoopTypes, StreamTypes, AgentEvent, EventType
<1>1. /\ AgentItem(e) \in DrainItem /\ Item("reasoning", e.nr, 0) \in DrainItem
      /\ Message(0) \in DrainItem /\ Message(0).type = "message"
  BY <1>0, AgentItems
<1>2. /\ InOrder
      /\ kind = "delta" => (Seen({"reasoning", "started"}) => seen[1].kind = "delta")
      /\ kind = "started" => ~Seen({"delta", "reasoning"})
      /\ kind = "updated" => \E j \in DOMAIN seen : seen[j].kind = "started" /\ seen[j].id = id
  BY <1>0, OrderShrinks
<1>3. /\ seen = <<>> => output = <<>>
      /\ \A i \in DOMAIN seen : seen[i].kind = "started" => toolIndex[seen[i].id] # 0
      /\ TextStarted => output[1].type = "message" /\ output # <<>>
      /\ Len(agentOutputs) <= Len(output)
      /\ ~Seen({"delta", "reasoning"}) => Len(agentOutputs) = Len(output)
  BY <1>0, <1>2 DEF Aligned, StreamTypes
<1>4. /\ \A kinds : Seen(kinds)' <=> Seen(kinds) \/ kind \in kinds
      /\ TextStarted' <=> TextStarted \/ kind = "delta"
      /\ TextStarted <=> Seen({"delta"})
  BY <1>0, SeenGrows
<1>5. RightEvents(TRUE, <<>>)
  BY DEF RightEvents, AboutAgent
<1>6. Len(agentOutputs) \in Nat /\ Len(output) \in Nat
  BY <1>0
<1>7. CASE kind = "delta"
  <2> DEFINE out == IF TextStarted THEN output ELSE Append(output, Message(0))
             q1 == IF TextStarted THEN <<>> ELSE <<Event("added", 1, Message(0), out)>>
             q2 == IF TextStarted \/ out[1].type # "message" THEN <<>>
                   ELSE <<Event("part", 1, Message(0), out)>>
             q3 == <<Event("delta", 1, Message(0), out)>>
  <2>1. output' = out /\ sent' = sent \o q1 \o q2 \o q3 /\ UNCHANGED <<agentOutputs, toolIndex>>
    BY <1>7 DEF AgentEvent, StreamDelta
  <2>2. ~TextStarted => output = <<>>
    <3> SUFFICES ASSUME ~TextStarted, seen # <<>> PROVE FALSE
      BY <1>3
    <3>1. 1 \in DOMAIN seen
      BY <1>0
    <3>2. seen[1].kind # "delta"
      BY <3>1 DEF TextStarted
    <3>3. Seen({"reasoning", "started"})
      BY <1>0, <1>2, <3>2, NoUpdateFirst
    <3> QED BY <1>2, <1>7, <3>2, <3>3
  <2>3. out \in Seq(DrainItem) /\ 1 \in DOMAIN out /\ out[1].type = "message"
        /\ Len(out) >= Len(output)
    BY <1>0, <1>1, <1>3, <2>2
  <2> HIDE DEF out
  <2>4. \A type \in {"added", "part", "delta"} :
          RightEvents(TRUE, <<Event(type, 1, Message(0), out)>>)
    BY <1>1, <2>3, RightOne DEF DrainTypes
  <2>5. RightEvents(TRUE, q1) /\ RightEvents(TRUE, q2) /\ RightEvents(TRUE, q3)
    BY <1>5, <2>4
  <2> HIDE DEF q1, q2, q3
  <2>6. RightEvents(TRUE, (q1 \o q2) \o q3)
    BY <2>5, RightConcat
  <2>7. sent' = sent \o ((q1 \o q2) \o q3)
    <3>1. /\ q1 \in Seq(SentType) /\ q2 \in Seq(SentType) /\ q3 \in Seq(SentType)
          /\ sent \in Seq(SentType)
      BY <1>0, <2>5 DEF RightEvents, AboutAgent
    <3>2. ((sent \o q1) \o q2) \o q3 = sent \o ((q1 \o q2) \o q3)
      BY <3>1
    <3> QED BY <2>1, <3>2
  <2>8. Seen({"delta", "reasoning"})'
    BY <1>4, <1>7
  <2>9. Len(agentOutputs') <= Len(output')
    <3>1. Len(out) \in Nat
      BY <2>3
    <3> QED BY <1>3, <1>6, <2>1, <2>3, <3>1
  <2> QED BY <2>1, <2>3, <2>6, <2>7, <2>8, <2>9 DEF AlignedAfter
<1>8. CASE kind = "reasoning"
  <2> DEFINE item == Item("reasoning", e.nr, 0)
             out == Append(output, item)
             q1 == <<Event("added", Len(out), item, out)>>
             q2 == <<Event("reasoning", Len(out), item, out)>>
  <2>1. output' = out /\ UNCHANGED <<agentOutputs, toolIndex>>
        /\ sent' = sent \o <<Event("added", Len(out), item, out),
                             Event("reasoning", Len(out), item, out)>>
    BY <1>8 DEF AgentEvent, StreamReasoning
  <2>2. /\ out \in Seq(DrainItem) /\ Len(out) \in DOMAIN out /\ out[Len(out)] = item
        /\ item \in DrainItem /\ Len(out) = Len(output) + 1
        /\ output # <<>> => out[1] = output[1]
    <3>1. item \in DrainItem
      BY <1>1
    <3> HIDE DEF item
    <3>2. output \in Seq(DrainItem)
      BY <1>0
    <3> QED BY <3>1, <3>2
  <2> HIDE DEF out, item
  <2>3. RightEvents(TRUE, q1) /\ RightEvents(TRUE, q2)
    BY <2>2, RightOne DEF DrainTypes
  <2>4. q1 \o q2 = <<Event("added", Len(out), item, out), Event("reasoning", Len(out), item, out)>>
    <3>1. \A type \in DrainTypes : Event(type, Len(out), item, out) \in SentType
      <4>1. item \in ItemType /\ out \in Seq(ItemType) /\ Len(out) \in Nat
        BY <2>2, DrainItemsAreItems
      <4>2. DrainTypes \subseteq EventTypes
        BY DEF EventTypes
      <4> QED BY <4>1, <4>2, EventsAreSent
    <3>2. "added" \in DrainTypes /\ "reasoning" \in DrainTypes
      BY DEF DrainTypes
    <3> QED BY <3>1, <3>2, PairConcat
  <2> HIDE DEF q1, q2
  <2>5. RightEvents(TRUE, q1 \o q2) /\ sent' = sent \o (q1 \o q2)
    BY <2>1, <2>3, <2>4, RightConcat
  <2>6. Seen({"delta", "reasoning"})' /\ (TextStarted' <=> TextStarted)
    BY <1>4, <1>8
  <2>7. Len(agentOutputs') <= Len(output')
    BY <1>3, <1>6, <2>1, <2>2
  <2> QED BY <1>3, <2>1, <2>2, <2>5, <2>6, <2>7 DEF AlignedAfter
<1>9. CASE kind \in {"started", "updated"}
  <2> DEFINE item == AgentItem(e)
             out == IF kind = "started" THEN Append(output, item)
                    ELSE IF place \in DOMAIN output THEN [output EXCEPT ![place] = item]
                    ELSE output
             q1 == IF kind = "started" THEN <<Event("added", place, item, out)>> ELSE <<>>
             q2 == <<Event("done", place, item, out)>>
  <2>1. /\ output' = out /\ sent' = sent \o q1 \o q2
        /\ agentOutputs' = applied.out /\ toolIndex' = applied.index
    BY <1>9 DEF AgentEvent, StreamTool
  <2>3. ~TextStarted
    <3>1. CASE kind = "started"
      BY <1>2, <1>4, <3>1 DEF Seen
    <3>2. CASE kind = "updated"
      <4>1. Seen({"started"})
        BY <1>2, <3>2 DEF Seen
      <4> QED BY <1>0, <1>2, <4>1, TextOrCalls
    <3> QED BY <1>9, <3>1, <3>2
  <2>4. applied.out = IF place \in DOMAIN agentOutputs
                      THEN [agentOutputs EXCEPT ![place] = item] ELSE Append(agentOutputs, item)
    BY DEF ApplyTool
  <2>5. place = IF kind = "updated" /\ toolIndex[id] # 0 THEN toolIndex[id] ELSE Len(agentOutputs) + 1
    BY DEF Place
  <2>6. kind = "updated" => toolIndex[id] # 0
    BY <1>2, <1>3
  <2>7. item \in DrainItem /\ item \in ItemType
    BY <1>1, DrainItemsAreItems
  <2> HIDE DEF item, place, applied
  <2>8. /\ out \in Seq(DrainItem) /\ place \in DOMAIN out /\ out[place] = item
        /\ Len(agentOutputs') <= Len(out)
        /\ Len(agentOutputs) = Len(output) => Len(agentOutputs') = Len(out)
    <3>1. CASE kind = "started"
      <4>1. place = Len(agentOutputs) + 1 /\ place = Len(output) + 1
        BY <1>2, <1>3, <2>5, <3>1
      <4>2. place \notin DOMAIN agentOutputs
        BY <1>0, <4>1
      <4>3. agentOutputs' = Append(agentOutputs, item) /\ out = Append(output, item)
        BY <2>1, <2>4, <3>1, <4>2
      <4>4. Len(agentOutputs') = Len(agentOutputs) + 1
        BY <1>0, <2>7, <4>3
      <4> HIDE DEF out
      <4> QED BY <1>0, <1>6, <2>7, <4>1, <4>3, <4>4
    <3>2. CASE kind = "updated"
      <4>1. place = toolIndex[id] /\ place \in DOMAIN agentOutputs
        BY <1>0, <2>5, <2>6, <3>2
      <4>2. place \in DOMAIN output
        BY <1>0, <1>3, <1>6, <4>1
      <4>3. agentOutputs' = [agentOutputs EXCEPT ![place] = item] /\ out = [output EXCEPT ![place] = item]
        BY <2>1, <2>4, <3>2, <4>1, <4>2
      <4>4. Len(agentOutputs') = Len(agentOutputs)
        BY <1>0, <2>7, <4>1, <4>3
      <4> HIDE DEF out
      <4> QED BY <1>0, <1>3, <1>6, <2>7, <4>2, <4>3, <4>4
    <3> QED BY <1>9, <3>1, <3>2
  <2> HIDE DEF out
  <2>9. \A type \in {"added", "done"} : RightEvents(TRUE, <<Event(type, place, item, out)>>)
    BY <2>7, <2>8, RightOne DEF DrainTypes
  <2>10. RightEvents(TRUE, q1) /\ RightEvents(TRUE, q2)
    BY <1>5, <2>9
  <2> HIDE DEF q1, q2
  <2>11. RightEvents(TRUE, q1 \o q2)
    BY <2>10, RightConcat
  <2>12. sent' = sent \o (q1 \o q2)
    <3>1. q1 \in Seq(SentType) /\ q2 \in Seq(SentType) /\ sent \in Seq(SentType)
      BY <1>0, <2>10 DEF RightEvents, AboutAgent
    <3>2. sent \o q1 \o q2 = sent \o (q1 \o q2)
      BY <3>1
    <3> QED BY <2>1, <3>2
  <2>13. ~TextStarted'
    BY <1>4, <1>9, <2>3
  <2>14. ~Seen({"delta", "reasoning"})' => Len(agentOutputs') = Len(output')
    BY <1>3, <1>4, <2>1, <2>8
  <2> QED BY <2>1, <2>8, <2>11, <2>12, <2>13, <2>14 DEF AlignedAfter
<1> QED BY <1>7, <1>8, <1>9

LEMMA AgentEventPoints ==
  ASSUME Loop, StreamTypes, Aligned, EventsPointAtTheirItems,
         NEW kind \in {"delta", "reasoning", "started", "updated"}, NEW id \in ToolIds,
         AgentEvent(kind, id)
  PROVE  Aligned' /\ EventsPointAtTheirItems'
<1> DEFINE e == [kind |-> kind, id |-> id, nr |-> Len(seen) + 1]
<1>0. /\ seen \in Seq(EventType) /\ e \in EventType /\ seen' = Append(seen, e)
      /\ pc = "drain" /\ req' = req /\ sent \in Seq(SentType) /\ toolIndex \in [ToolIds -> Nat]
      /\ agentOutputs \in Seq(ItemType)
  BY DEF Loop, LoopTypes, StreamTypes, AgentEvent, EventType
<1>1. InOrder' => InOrder
  BY <1>0, OrderShrinks
<1>2. CASE ~req.streaming
  <2>1. sent' = sent
    BY <1>2 DEF AgentEvent
  <2>2. <<>> \in Seq(SentType) /\ sent' = sent \o <<>> /\ DOMAIN <<>> = {}
    BY <1>0, <2>1
  <2> DEFINE q == <<>>
  <2>3. q \in Seq(SentType) /\ sent' = sent \o q /\ \A i \in DOMAIN q : RightEvent(InOrder', q[i])
    BY <2>2
  <2> HIDE DEF q
  <2>4. EventsPointAtTheirItems'
    BY <1>1, <2>3, PointsMore
  <2> QED BY <1>0, <1>2, <2>4 DEF Aligned
<1>3. ASSUME req.streaming, InOrder' PROVE EventsPointAtTheirItems'
  <2>1. AlignedAfter
    BY <1>3, AgentEventAligns
  <2>2. PICK q : RightEvents(TRUE, q) /\ sent' = sent \o q
    BY <2>1 DEF AlignedAfter
  <2>3. q \in Seq(SentType) /\ \A i \in DOMAIN q : RightEvent(InOrder', q[i])
    BY <1>3, <2>2 DEF RightEvents, AboutAgent
  <2> QED BY <1>1, <2>2, <2>3, PointsMore
<1>4. ASSUME req.streaming, ~InOrder' PROVE EventsPointAtTheirItems'
  <2>1. PICK q : AboutAgent(q) /\ sent' = sent \o q
    BY AgentEventSends
  <2>2. \A i \in DOMAIN q : RightEvent(FALSE, q[i])
    BY <2>1, OutOfOrder
  <2>3. q \in Seq(SentType) /\ \A i \in DOMAIN q : RightEvent(InOrder', q[i])
    BY <1>4, <2>1, <2>2 DEF AboutAgent, RightEvent
  <2> QED BY <1>1, <2>1, <2>3, PointsMore
<1>5. EventsPointAtTheirItems'
  BY <1>2, <1>3, <1>4
<1>6. ASSUME req.streaming PROVE Aligned'
  <2>1. \A i \in DOMAIN seen : seen[i].kind = "started" => toolIndex[seen[i].id] # 0
    BY <1>0, <1>6 DEF Aligned
  <2>2. /\ \A i \in ToolIds : toolIndex[i] # 0 => toolIndex'[i] # 0
        /\ kind = "started" => toolIndex'[id] # 0
    <3> DEFINE place == Place(agentOutputs, toolIndex, e)
    <3>1. place # 0
      BY <1>0 DEF Place
    <3>2. kind \notin {"delta", "reasoning"} => toolIndex' = [toolIndex EXCEPT ![id] = place]
      BY <1>6 DEF AgentEvent, StreamTool, ApplyTool
    <3>3. kind \in {"delta", "reasoning"} => toolIndex' = toolIndex
      BY <1>6 DEF AgentEvent, StreamDelta, StreamReasoning
    <3> HIDE DEF place
    <3> QED BY <1>0, <3>1, <3>2, <3>3
  <2>3. \A i \in DOMAIN seen' : seen'[i].kind = "started" => toolIndex'[seen'[i].id] # 0
    <3>1. \A i \in DOMAIN seen' : (i \in DOMAIN seen /\ seen'[i] = seen[i]) \/ seen'[i] = e
      BY <1>0
    <3>2. \A i \in DOMAIN seen : seen[i].id \in ToolIds
      <4>1. \A i \in DOMAIN seen : seen[i] \in EventType
        BY <1>0
      <4> QED BY <4>1 DEF EventType
    <3> QED BY <2>1, <2>2, <3>1, <3>2
  <2>4. seen' # <<>>
    BY <1>0
  <2>5. InOrder' => AlignedAfter
    BY <1>6, AgentEventAligns
  <2> QED BY <2>3, <2>4, <2>5 DEF Aligned, AlignedAfter
<1> QED BY <1>0, <1>5, <1>6 DEF Aligned

LEMMA ClientCallsPoint ==
  ASSUME Loop, StreamTypes, EventsPointAtTheirItems, ClientCalls
  PROVE  EventsPointAtTheirItems'
<1>1. InOrder' = InOrder /\ sent \in Seq(SentType)
  BY DEF ClientCalls, InOrder, Before, StreamTypes
<1>2. CASE req.streaming
  <2>1. PICK qs \in Seq(Seq(SentType)) :
          Len(qs) = Len(Calls) /\ EventsOf(qs) /\ sent' = sent \o FlattenSeq(qs)
    BY <1>2, CallsAreStreamed
  <2> DEFINE F == FlattenSeq(qs)
  <2>2. F \in Seq(SentType) /\ Follows(F, qs)
    BY <2>1, FlattenKeepsOrder
  <2> HIDE DEF F
  <2>3. \A j \in DOMAIN F : RightEvent(InOrder', F[j])
    <3> SUFFICES ASSUME NEW j \in DOMAIN F PROVE F[j].held = F[j].item
      BY DEF RightEvent, PointsAtItem
    <3>1. PICK i \in 1..Len(qs) : \E k \in DOMAIN qs[i] : F[j] = qs[i][k]
      <4>1. j <= j
        BY <2>2
      <4>2. \E i1, i2 \in 1..Len(qs) : \E k1 \in DOMAIN qs[i1], k2 \in DOMAIN qs[i2] :
              /\ F[j] = qs[i1][k1] /\ F[j] = qs[i2][k2]
              /\ i1 < i2 \/ (i1 = i2 /\ k1 <= k2 /\ (j < j => k1 < k2))
        BY <2>2, <4>1 DEF Follows
      <4> QED BY <4>2
    <3>2. PICK k \in DOMAIN qs[i] : F[j] = qs[i][k]
      BY <3>1
    <3>3. i \in 1..Len(Calls)
      BY <2>1, <3>1
    <3> QED BY <2>1, <3>2, <3>3 DEF EventsOf
  <2>4. sent' = sent \o F
    BY <2>1 DEF F
  <2> QED BY <1>1, <2>2, <2>3, <2>4, PointsMore
<1>3. CASE ~req.streaming
  <2>1. sent' = sent
    BY <1>3 DEF ClientCalls, SendIfStreaming
  <2> QED BY <1>1, <2>1 DEF EventsPointAtTheirItems
<1> QED BY <1>2, <1>3

LEMMA NextAligned ==
  ASSUME Loop, StreamTypes, Aligned, EventsPointAtTheirItems, [Next]_vars
  PROVE  Aligned' /\ EventsPointAtTheirItems'
<1>1. CASE \E kind \in {"delta", "reasoning", "started", "updated"}, id \in ToolIds :
             AgentEvent(kind, id)
  BY <1>1, AgentEventPoints
<1>2. CASE ~\E kind \in {"delta", "reasoning", "started", "updated"}, id \in ToolIds :
              AgentEvent(kind, id)
  <2>1. Aligned'
    <3> SUFFICES ASSUME pc' = "drain" PROVE Aligned'
      BY DEF Aligned
    <3>1. /\ pc = "drain" /\ req' = req
          /\ UNCHANGED <<seen, output, agentOutputs, toolIndex, sent>>
      BY <1>2, DrainSteps
    <3> QED BY <3>1 DEF Aligned, InOrder, Before, Seen, TextStarted
  <2>2. ASSUME \E reply, finish : FirstReply(reply, finish) PROVE EventsPointAtTheirItems'
    BY <2>2, FirstReplyPoints
  <2>3. ASSUME ClientCalls PROVE EventsPointAtTheirItems'
    BY <2>3, ClientCallsPoint
  <2>4. ASSUME ~\E reply, finish : FirstReply(reply, finish), SendsEnd \/ sent' = sent
        PROVE  EventsPointAtTheirItems'
    <3>1. seen' = seen
      BY <1>2, <2>4, OutputsOnlyGrow DEF AgentSpeaks
    <3>2. InOrder' = InOrder
      BY <3>1 DEF InOrder, Before
    <3>3. CASE sent' = sent
      BY <3>2, <3>3 DEF EventsPointAtTheirItems
    <3>4. CASE req.streaming /\ SendsEnd
      <4>1. PICK type \in LastTypes : sent' = sent \o <<Lifecycle(type)>>
        BY <3>4 DEF SendsEnd, SendIfStreaming
      <4> DEFINE e == Lifecycle(type)
                 q == <<e>>
      <4>2. e \in SentType /\ e.item.type = "none"
        BY <4>1, Lifecycles DEF EventTypes
      <4>3. sent' = sent \o q
        BY <4>1
      <4> HIDE DEF e
      <4>4. q \in Seq(SentType) /\ \A i \in DOMAIN q : q[i] = e
        BY <4>2
      <4>5. RightEvent(InOrder', e)
        BY <4>2 DEF RightEvent, NamesItem
      <4> HIDE DEF q
      <4> QED BY <3>2, <4>3, <4>4, <4>5, PointsMore
    <3>5. CASE ~req.streaming /\ SendsEnd
      <4>1. sent' = sent
        BY <3>5 DEF SendsEnd, SendIfStreaming
      <4> QED BY <3>2, <4>1 DEF EventsPointAtTheirItems
    <3> QED BY <2>4, <3>3, <3>4, <3>5
  <2> QED BY <1>2, <2>1, <2>2, <2>3, <2>4, StreamGrows
<1> QED BY <1>1, <1>2

\* Every event of a stream that is about an item points at it, whatever the agent sends
\* and replies, unless its events came out of the order that drain_stream takes for
\* granted; those of a client's calls always do (msg_index, apply_agent_tool_event,
\* emit_tool_sse_events).
THEOREM EventsPoint == Spec => []EventsPointAtTheirItems
<1> DEFINE Pointing == StreamTypes /\ Aligned /\ EventsPointAtTheirItems
<1>1. Init => Pointing
  <2> SUFFICES ASSUME Init PROVE Pointing
    OBVIOUS
  <2>1. StreamTypes
    BY InitStreamTypes
  <2>2. Aligned
    <3>1. seen = <<>> /\ output = <<>> /\ agentOutputs = <<>>
      BY DEF Init
    <3> QED BY <3>1 DEF Aligned, TextStarted
  <2>3. EventsPointAtTheirItems
    <3> DEFINE c == Lifecycle("created")
               p == Lifecycle("in_progress")
    <3>1. c.item.type = "none" /\ p.item.type = "none"
      BY Lifecycles DEF EventTypes
    <3>2. sent = <<>> \/ sent = <<c, p>>
      BY DEF Init
    <3> HIDE DEF c, p
    <3>3. \A i \in DOMAIN sent : sent[i] = c \/ sent[i] = p
      BY <3>2
    <3> QED BY <3>1, <3>3 DEF EventsPointAtTheirItems, NamesItem
  <2> QED BY <2>1, <2>2, <2>3
<1>2. Loop /\ Pointing /\ [Next]_vars => Pointing'
  BY NextStreamTypes, NextAligned
<1> QED BY <1>1, <1>2, LoopHolds, PTL DEF Spec
(***************************************************************************)
(* Types.                                                                  *)
(***************************************************************************)
\* What was POSTed is a call of a reply the agent gave.
AreCalls ==
  /\ reason \in {"none", "max_output_tokens", "tool_calls", "max_tool_steps"}
  /\ \A c \in DOMAIN answer : c[1] \in DOMAIN replies /\ c[2] \in DOMAIN replies[c[1]].calls

\* Replies are given after those of before, and the first when nothing was POSTed.
LEMMA RepliesGrow ==
  ASSUME Loop, [Next]_vars
  PROVE  \A i \in DOMAIN replies : i \in DOMAIN replies' /\ replies'[i] = replies[i]
<1>1. replies \in Seq(Replies) /\ (pc = "drain" => replies = <<>>)
  BY DEF Loop, LoopTypes, Numbers
<1>2. ASSUME NEW reply \in Replies, AgentContinues(reply) \/ replies' = Append(replies, reply)
      PROVE  \A i \in DOMAIN replies : i \in DOMAIN replies' /\ replies'[i] = replies[i]
  BY <1>1, <1>2 DEF AgentContinues
<1>3. CASE UNCHANGED replies
  BY <1>3
<1>4. ASSUME NEW reply \in Replies, NEW finish, FirstReply(reply, finish) \/ RetryAnswers(reply, finish)
      PROVE  \A i \in DOMAIN replies : i \in DOMAIN replies' /\ replies'[i] = replies[i]
  BY <1>1, <1>2, <1>4 DEF FirstReply, RetryAnswers
<1>5. ASSUME NEW id, NEW kind, AgentEvent(kind, id) PROVE UNCHANGED replies
  BY <1>5 DEF AgentEvent
<1>6. CASE AgentSpeaks \/ AgentFails \/ Disconnect \/ UNCHANGED vars
           \/ \E reply \in Replies : RetryFails(reply)
  BY <1>3, <1>5, <1>6 DEF AgentSpeaks, AgentFails, Disconnect, RetryFails, Fail, vars
<1>7. CASE Proceed
  BY <1>3, <1>7 DEF Proceed, CallsRefused, NoCalls, ClientCalls, ServerLimit, ServerStep,
     StepSucceeds, StepFallsBack, StepFails, Answer, SchemaRefuses, Fail
<1>8. CASE PostReturns \/ BodyReturns \/ \E c \in DOMAIN answer : WebhookTakesEffect(c)
  BY <1>3, <1>8 DEF PostReturns, BodyReturns, WebhookResponds, WebhookFails, WebhookAnswers,
     WebhookTakesEffect
<1> QED BY <1>2, <1>4, <1>6, <1>7, <1>8 DEF Next, Prompted

LEMMA ReasonsAreGiven ==
  ASSUME [Next]_vars, reason \in {"none", "max_output_tokens", "tool_calls", "max_tool_steps"}
  PROVE  reason' \in {"none", "max_output_tokens", "tool_calls", "max_tool_steps"}
<1>1. CASE AgentSpeaks \/ AgentFails \/ Disconnect \/ UNCHANGED vars
  BY <1>1 DEF AgentSpeaks, AgentEvent, AgentFails, Disconnect, Fail, vars
<1>2. ASSUME NEW reply, NEW finish,
             AgentContinues(reply) \/ RetryFails(reply) \/ FirstReply(reply, finish)
               \/ RetryAnswers(reply, finish)
      PROVE  reason' \in {"none", "max_output_tokens", "tool_calls", "max_tool_steps"}
  BY <1>2 DEF AgentContinues, RetryFails, FirstReply, RetryAnswers, Fail
<1>3. CASE Proceed
  BY <1>3 DEF Proceed, CallsRefused, NoCalls, ClientCalls, ServerLimit, ServerStep,
     StepSucceeds, StepFallsBack, StepFails, Answer, SchemaRefuses, Fail
<1>4. CASE PostReturns \/ BodyReturns \/ \E c \in DOMAIN answer : WebhookTakesEffect(c)
  BY <1>4 DEF PostReturns, BodyReturns, WebhookResponds, WebhookFails, WebhookAnswers,
     WebhookTakesEffect
<1> QED BY <1>1, <1>2, <1>3, <1>4 DEF Next, Prompted

LEMMA NextAreCalls == Loop /\ AreCalls /\ [Next]_vars => AreCalls'
<1> SUFFICES ASSUME Loop, AreCalls, [Next]_vars PROVE AreCalls'
  OBVIOUS
<1>1. ASSUME NEW c \in DOMAIN answer
      PROVE  c[1] \in DOMAIN replies' /\ c[2] \in DOMAIN replies'[c[1]].calls
  BY RepliesGrow DEF AreCalls
<1>2. ASSUME NEW c \in Range(CallIds), Len(replies) >= 1
      PROVE  c[1] \in DOMAIN replies' /\ c[2] \in DOMAIN replies'[c[1]].calls
  <2>1. PICK i \in 1..Len(Calls) : c = <<Len(replies), i>>
    BY <1>2, CallsAreNumbered DEF Loop
  <2>2. Len(replies) \in DOMAIN replies /\ Calls \in Seq(CallObjects)
    BY <1>2, CallsAreNumbered DEF Loop, LoopTypes
  <2>3. Calls = Reply.calls
    <3>1. Calls # <<>>
      BY <2>1, <2>2
    <3> QED BY <3>1 DEF Calls, CallsOf
  <2>4. i \in DOMAIN replies[Len(replies)].calls
    BY <2>1, <2>2, <2>3 DEF Reply
  <2> QED BY <2>1, <2>2, <2>4, RepliesGrow
<1>3. \A c \in DOMAIN answer' : c \in DOMAIN answer \/ (c \in Range(CallIds) /\ Len(replies) >= 1)
  <2>1. CASE CallsRest \/ StepSucceeds \/ StepFallsBack
             \/ \E c \in DOMAIN answer : WebhookTakesEffect(c)
    BY <2>1 DEF CallsRest, loopVars, StepSucceeds, StepFallsBack, WebhookTakesEffect
  <2>2. CASE ServerStep
    BY <2>2, StepPosts DEF Loop, Numbers, Over
  <2>3. ASSUME NEW c \in DOMAIN answer, Returns(c)
        PROVE  \A d \in DOMAIN answer' : d \in DOMAIN answer \/ (d \in Range(CallIds) /\ Len(replies) >= 1)
    <3>1. pc = "webhooks" /\ \A d \in DOMAIN answer' \ DOMAIN answer : d \in Range(CallIds)
      BY <2>3, ReturnsChange
    <3> QED BY <3>1 DEF Loop, Numbers, Over
  <2> QED BY <2>1, <2>2, <2>3, StepKinds
<1>4. reason' \in {"none", "max_output_tokens", "tool_calls", "max_tool_steps"}
  BY ReasonsAreGiven DEF AreCalls
<1> QED BY <1>1, <1>2, <1>3, <1>4 DEF AreCalls

\* Every variable has its type, and a call is POSTed or told only of replies the agent
\* gave (orchestrate.rs).
THEOREM TypesAreKept == Spec => []TypeOK
<1>1. Init => StreamTypes /\ AreCalls
  BY InitStreamTypes DEF Init, AreCalls
<1>2. Loop /\ StreamTypes /\ AreCalls /\ [Next]_vars => StreamTypes' /\ AreCalls'
  BY NextStreamTypes, NextAreCalls
<1>3. Loop /\ StreamTypes /\ AreCalls => TypeOK
  <2> SUFFICES ASSUME Loop, StreamTypes, AreCalls PROVE TypeOK
    OBVIOUS
  <2>1. Range(output) \cup Range(agentOutputs) \subseteq ItemType
    BY DrainItemsAreItems DEF StreamTypes, Loop, LoopTypes, Range
  <2>2. \A e \in Range(sent) : e.index \in Nat /\ {e.item, e.held} \subseteq ItemType
    <3>1. \A i \in DOMAIN sent : sent[i] \in SentType
      BY DEF StreamTypes
    <3> QED BY <3>1 DEF SentType, Range
  <2>3. toolIndex \in [ToolIds -> 0..Len(agentOutputs)]
    BY DEF StreamTypes, Loop, LoopTypes
  <2>4. Range(replies) \subseteq Replies /\ Range(effects) \subseteq DOMAIN answer
    BY DEF Loop, LoopTypes, Range
  <2> QED BY <2>1, <2>2, <2>3, <2>4 DEF TypeOK, Loop, LoopTypes, AreCalls, Over
<1> QED BY <1>1, <1>2, <1>3, LoopHolds, PTL DEF Spec

=============================================================================
