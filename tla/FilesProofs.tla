---------------------------- MODULE FilesProofs -----------------------------
(***************************************************************************)
(* Proofs about staged files, for any number of files, any time and any    *)
(* number of uploads and deletions at once: what a request finds of a file *)
(* follows from the order in which an upload writes and a deletion removes *)
(* its data and its metadata. Listings read and change none of it.         *)
(***************************************************************************)
EXTENDS Files, FiniteSetTheorems, WellFoundedInduction, TLAPS

\* The part of TypeOK that uploads and deletions keep.
FileTypes ==
  /\ clock \in Times
  /\ data \subseteq Files
  /\ meta \in [Files -> {Missing, Torn} \cup Times]
  /\ upload \in [Files -> {"new", "data", "torn", "answered", "failed"}]
  /\ stamp \in [Files -> {Missing} \cup Times]
  /\ deletion \in [Files -> {"none", "found", "half", "deleted"}]

\* Data is there from the first write of an upload to the first removal of a deletion,
\* and next to it is the metadata that the upload has come to write; its time is there
\* when the upload is answered and not before.
Staged(f) ==
  /\ upload[f] = "new" => deletion[f] = "none" /\ f \notin data
  /\ deletion[f] \in {"none", "found"} /\ upload[f] # "new" => f \in data
  /\ deletion[f] \in {"half", "deleted"} => f \notin data
  /\ upload[f] = "torn" => stamp[f] \in Times
  /\ upload[f] # "answered" => meta[f] \notin Times
  /\ f \in data => /\ upload[f] = "torn" => meta[f] = Torn
                   /\ upload[f] = "answered" => meta[f] \in Times

InOrder == FileTypes /\ \A f \in Files : Staged(f)

-----------------------------------------------------------------------------
LEMMA NoTimes == Missing \notin Times /\ Torn \notin Times
BY SomeTimePasses DEF Missing, Torn, Times

LEMMA InitInOrder == Init => InOrder
BY SomeTimePasses, NoTimes DEF Init, InOrder, FileTypes, Staged, Times

\* A listing leaves the files alone, and so does every step on another file.
LEMMA ListingsOnlyRead == ListStep => UNCHANGED <<clock, fileVars>>
BY DEF ListStep, FirstPage, NextPage, OpenDir, LoadFile, AnswerPage

LEMMA FileStepTypes ==
  ASSUME FileTypes, NEW f \in Files, FileStep(f), \A g \in Files : Staged(g)
  PROVE  FileTypes'
<1> USE DEF FileTypes, fileVars, listVars
<1>1. CASE WriteData(f) \/ CreateMeta(f) \/ UploadFails(f)
  BY <1>1 DEF WriteData, CreateMeta, UploadFails, UploadGoes
<1>2. CASE WriteMeta(f)
  BY <1>2 DEF WriteMeta, UploadGoes
<1>3. CASE BeginDelete(f) \/ DeleteStops(f)
  BY <1>3 DEF BeginDelete, DeleteStops
<1>4. CASE DeleteFirst(f) \/ DeleteSecond(f)
  BY <1>4 DEF DeleteFirst, DeleteSecond, DeleteStep, Removed
<1> QED BY <1>1, <1>2, <1>3, <1>4 DEF FileStep

LEMMA FileStepStaged ==
  ASSUME FileTypes, NEW f \in Files, FileStep(f), NEW g \in Files, Staged(g)
  PROVE  Staged(g)'
<1> USE NoTimes DEF FileTypes, Staged
<1>1. CASE WriteData(f)
  BY <1>1 DEF WriteData, UploadGoes
<1>2. CASE CreateMeta(f)
  BY <1>2 DEF CreateMeta, UploadGoes
<1>3. CASE WriteMeta(f)
  BY <1>3 DEF WriteMeta, UploadGoes
<1>4. CASE UploadFails(f)
  BY <1>4 DEF UploadFails
<1>5. CASE BeginDelete(f) \/ DeleteStops(f)
  BY <1>5 DEF BeginDelete, DeleteStops
<1>6. CASE DeleteFirst(f)
  BY <1>6 DEF DeleteFirst, DeleteStep, Removed
<1>7. CASE DeleteSecond(f)
  BY <1>7 DEF DeleteSecond, DeleteStep, Removed
<1> QED BY <1>1, <1>2, <1>3, <1>4, <1>5, <1>6, <1>7 DEF FileStep

LEMMA NextInOrder == InOrder /\ [Next]_vars => InOrder'
<1> SUFFICES ASSUME InOrder, [Next]_vars PROVE InOrder'
  OBVIOUS
<1>1. ASSUME NEW f \in Files, FileStep(f) PROVE InOrder'
  BY <1>1, FileStepTypes, FileStepStaged DEF InOrder
<1>2. CASE Tick
  BY <1>2, SomeTimePasses DEF Tick, InOrder, FileTypes, Staged, fileVars, Times
<1>3. CASE ListStep \/ UNCHANGED vars
  <2>1. UNCHANGED <<clock, fileVars>>
    BY <1>3, ListingsOnlyRead DEF vars
  <2> QED BY <2>1 DEF InOrder, FileTypes, Staged, fileVars
<1> QED BY <1>1, <1>2, <1>3 DEF Next

\* A file whose upload was answered is resolved under its own name and time until its
\* deletion begins, and while it is deleted no request sees it under its id for a name
\* (upload_file, delete_staged_file).
THEOREM AnsweredFilesAreResolved == Spec => []AnsweredFilesResolve
<1>1. InOrder => AnsweredFilesResolve
  BY DEF InOrder, Staged, AnsweredFilesResolve
<1> QED BY <1>1, InitInOrder, NextInOrder, PTL DEF Spec

-----------------------------------------------------------------------------
(***************************************************************************)
(* Listings.                                                               *)
(***************************************************************************)
\* The part of TypeOK that the listing keeps.
ListTypes ==
  /\ pager \in {"idle", "loading", "next", "done", "failed"}
  /\ ask \in [desc : BOOLEAN, limit : Limits \cup {MaxLimit}]
  /\ cursor \in Files \cup {Missing}
  /\ entries \subseteq Files
  /\ loaded \subseteq [id : Files, at : Times, named : BOOLEAN]
  /\ pages \in Seq(Files)
  /\ stable \subseteq Files /\ slipped \in BOOLEAN

\* The upload of f was answered, and its time is t for as long as it has data.
Known(f, t) == upload[f] = "answered" /\ (f \in data => meta[f] = t)

\* What is loaded of a file that has its metadata.
Of(f) == [id |-> f, at |-> meta[f], named |-> TRUE]

\* No file is loaded twice or before its turn, what is loaded with a name is known, and
\* no stable file is left out.
Loading ==
  /\ \A f \in stable : upload[f] = "answered" /\ deletion[f] = "none"
  /\ \A x \in loaded : x.named => Known(x.id, x.at)
  /\ \A x, y \in loaded : x.id = y.id => x = y
  /\ \A x \in loaded : x.id \notin entries
  /\ pager = "loading" => \A f \in stable : f \in entries \/ Of(f) \in loaded
  /\ pager = "idle" => pages = <<>> /\ cursor = Missing

\* The order of a listing.
Comes(x, y) == IF ask.desc THEN Earlier(y, x) ELSE Earlier(x, y)

Once(f)  == \E i \in DOMAIN pages : pages[i] = f /\ \A j \in DOMAIN pages : pages[j] = f => j = i
Never(f) == \A i \in DOMAIN pages : pages[i] # f

\* With t the time of the cursor's file, which it keeps: a stable file is on the pages,
\* once, if and only if it does not come after the cursor.
Marked(t) ==
  /\ cursor # Missing => /\ Known(cursor, t)
                         /\ \A x \in loaded : x.id = cursor => x.at = t
  /\ \A f \in stable :
       IF cursor # Missing /\ ~Comes([id |-> cursor, at |-> t], Of(f)) THEN Once(f)
                                                                      ELSE Never(f)

Covered ==
  /\ pager \in {"loading", "next"} /\ ~slipped => \E t \in Times : Marked(t)
  /\ pager = "done" /\ ~slipped => \A f \in stable : Once(f)

-----------------------------------------------------------------------------
\* What is loaded is finite: no two files of one id.
LEMMA LoadedIsFinite == ListTypes /\ Loading => IsFiniteSet(loaded)
<1> SUFFICES ASSUME ListTypes, Loading PROVE IsFiniteSet(loaded)
  OBVIOUS
<1> DEFINE name == [x \in loaded |-> x.id]
<1>1. name \in Injection(loaded, Files)
  BY DEF ListTypes, Loading, Injection, IsInjective
<1>2. IsFiniteSet(Files)
  BY PagesAreClamped, FS_Interval DEF Files
<1> QED BY <1>1, <1>2, FS_Injection

\* The order of uploaded_at and directory is total.
LEMMA EarlierIsTotal ==
  ASSUME ListTypes, Loading
  PROVE  /\ \A x, y \in loaded : x = y \/ Earlier(x, y) \/ Earlier(y, x)
         /\ \A x, y \in loaded : ~(Earlier(x, y) /\ Earlier(y, x))
         /\ \A x, y, z \in loaded : Earlier(x, y) /\ Earlier(y, z) => Earlier(x, z)
<1>1. \A x \in loaded : x.id \in Int /\ x.at \in Int
  BY SomeTimePasses, PagesAreClamped DEF ListTypes, Files, Times
<1>2. \A x, y \in loaded : x.id = y.id => x = y
  BY DEF Loading
<1> QED BY <1>1, <1>2 DEF Earlier

\* Every rank below the number of files is the rank of one of them, and ranks rise with
\* the order.
LEMMA RanksRise ==
  ASSUME ListTypes, Loading, NEW x \in loaded, NEW y \in loaded, Earlier(x, y)
  PROVE  Rank(x) < Rank(y)
<1> DEFINE X == {z \in loaded : Earlier(z, x)}
           Y == {z \in loaded : Earlier(z, y)}
<1>1. IsFiniteSet(loaded)
  BY LoadedIsFinite
<1>2. X \cup {x} \subseteq Y /\ x \notin X
  BY EarlierIsTotal
<1>3. IsFiniteSet(X) /\ IsFiniteSet(Y)
  BY <1>1, FS_Subset
<1>4. Cardinality(X) \in Nat /\ Cardinality(Y) \in Nat
  BY <1>3, FS_CardinalityType
<1>5. Cardinality(X \cup {x}) = Cardinality(X) + 1
  BY <1>2, <1>3, FS_AddElement
<1>6. Cardinality(X \cup {x}) <= Cardinality(Y)
  BY <1>2, <1>3, FS_Subset
<1> HIDE DEF X, Y
<1>7. Cardinality(X) < Cardinality(Y)
  BY <1>4, <1>5, <1>6
<1> QED BY <1>7 DEF Rank, X, Y

LEMMA RanksAreTaken ==
  ASSUME ListTypes, Loading
  PROVE  /\ Cardinality(loaded) \in Nat
         /\ \A x \in loaded : Rank(x) \in 0..(Cardinality(loaded) - 1)
         /\ \A i \in 1..Cardinality(loaded) : \E x \in loaded : Rank(x) = i - 1
<1> DEFINE N == Cardinality(loaded)
           rank == [x \in loaded |-> Rank(x)]
<1>1. IsFiniteSet(loaded) /\ N \in Nat
  BY LoadedIsFinite, FS_CardinalityType
<1>2. ASSUME NEW x \in loaded PROVE Rank(x) \in 0..(N - 1)
  <2> DEFINE X == {z \in loaded : Earlier(z, x)}
  <2>1. X \subseteq loaded \ {x}
    BY EarlierIsTotal
  <2>2. IsFiniteSet(loaded \ {x}) /\ Cardinality(loaded \ {x}) = N - 1
    BY <1>1, FS_RemoveElement
  <2>3. IsFiniteSet(X) /\ Cardinality(X) <= N - 1
    BY <2>1, <2>2, FS_Subset
  <2>4. Cardinality(X) \in Nat
    BY <2>3, FS_CardinalityType
  <2> HIDE DEF X
  <2>5. Cardinality(X) \in 0..(N - 1)
    BY <1>1, <2>3, <2>4
  <2> QED BY <2>5 DEF Rank, X
<1>3. rank \in Injection(loaded, 0..(N - 1))
  <2>1. rank \in [loaded -> 0..(N - 1)]
    BY <1>2
  <2>2. \A x, y \in loaded : rank[x] = rank[y] => x = y
    <3> SUFFICES ASSUME NEW x \in loaded, NEW y \in loaded, Rank(x) = Rank(y) PROVE x = y
      OBVIOUS
    <3>1. Rank(x) \in Nat /\ Rank(y) \in Nat
      BY <1>1, <1>2
    <3>2. ~(Rank(x) < Rank(y)) /\ ~(Rank(y) < Rank(x))
      BY <3>1
    <3> QED BY <3>2, RanksRise, EarlierIsTotal
  <2> QED BY <2>1, <2>2 DEF Injection, IsInjective
<1>4. IsFiniteSet(0..(N - 1)) /\ Cardinality(0..(N - 1)) = N
  BY <1>1, FS_Interval
<1>5. rank \in Surjection(loaded, 0..(N - 1))
  BY <1>3, <1>4, FS_Injection
<1>6. ASSUME NEW i \in 1..N PROVE \E x \in loaded : Rank(x) = i - 1
  <2>1. i - 1 \in 0..(N - 1)
    BY <1>1
  <2>2. \E x \in loaded : rank[x] = i - 1
    BY <1>5, <2>1 DEF Surjection
  <2> QED BY <2>2
<1> QED BY <1>1, <1>2, <1>6

\* What list_files has sorted is all that is loaded, each file once and in order.
LEMMA SortedIsSorted ==
  ASSUME ListTypes, Loading
  PROVE  /\ Sorted \in Seq(loaded)
         /\ \A x \in loaded : \E i \in 1..Len(Sorted) : Sorted[i] = x
         /\ \A i, j \in 1..Len(Sorted) : i < j => Comes(Sorted[i], Sorted[j])
<1> DEFINE N == Cardinality(loaded)
           asc == [i \in 1..N |-> CHOOSE x \in loaded : Rank(x) = i - 1]
<1>1. N \in Nat
  BY RanksAreTaken
<1>2. ASSUME NEW i \in 1..N PROVE asc[i] \in loaded /\ Rank(asc[i]) = i - 1
  <2>1. \E x \in loaded : Rank(x) = i - 1
    BY RanksAreTaken
  <2> QED BY <2>1
<1>3. asc \in Seq(loaded) /\ Len(asc) = N
  <2>1. asc \in [1..N -> loaded]
    BY <1>2
  <2> HIDE DEF asc, N
  <2> QED BY <1>1, <2>1
<1>4. ASSUME NEW x \in loaded, NEW y \in loaded, Rank(x) < Rank(y) PROVE Earlier(x, y)
  <2>1. Rank(x) \in Int /\ Rank(y) \in Int
    BY <1>1, RanksAreTaken
  <2>2. x # y /\ ~(Rank(y) < Rank(x))
    BY <1>4, <2>1
  <2> QED BY <2>2, EarlierIsTotal, RanksRise
<1>5. ASSUME NEW x \in loaded PROVE \E i \in 1..N : asc[i] = x
  <2>1. Rank(x) + 1 \in 1..N
    BY <1>1, RanksAreTaken
  <2>2. Rank(asc[Rank(x) + 1]) = Rank(x) /\ asc[Rank(x) + 1] \in loaded
    <3>1. Rank(x) \in Int
      BY <1>1, RanksAreTaken
    <3> QED BY <1>2, <2>1, <3>1
  <2>3. \A y \in loaded : Rank(y) = Rank(x) => y = x
    <3> SUFFICES ASSUME NEW y \in loaded, Rank(y) = Rank(x) PROVE y = x
      OBVIOUS
    <3>1. Rank(x) \in Int /\ ~(Rank(x) < Rank(y)) /\ ~(Rank(y) < Rank(x))
      BY <1>1, RanksAreTaken
    <3> QED BY <3>1, RanksRise, EarlierIsTotal
  <2> QED BY <2>1, <2>2, <2>3
<1>6. ASSUME NEW i \in 1..N, NEW j \in 1..N, i < j PROVE Earlier(asc[i], asc[j])
  <2>1. Rank(asc[i]) < Rank(asc[j])
    BY <1>1, <1>2, <1>6
  <2> QED BY <1>2, <1>4, <2>1
<1>7. Sorted = IF ask.desc THEN Reverse(asc) ELSE asc
  BY DEF Sorted
<1> HIDE DEF asc, N
<1>8. CASE ~ask.desc
  <2>1. Sorted = asc
    BY <1>7, <1>8
  <2>2. \A i, j \in 1..N : i < j => Comes(asc[i], asc[j])
    BY <1>6, <1>8 DEF Comes
  <2> QED BY <1>3, <1>5, <2>1, <2>2
<1>9. CASE ask.desc
  <2>1. Sorted = [i \in 1..N |-> asc[(N - i) + 1]]
    BY <1>3, <1>7, <1>9 DEF Reverse
  <2>2. \A i \in 1..N : (N - i) + 1 \in 1..N
    BY <1>1
  <2>3. Sorted \in [1..N -> loaded]
    BY <1>2, <2>1, <2>2 DEF asc
  <2>4. Sorted \in Seq(loaded) /\ Len(Sorted) = N
    BY <1>1, <2>3
  <2>5. ASSUME NEW x \in loaded PROVE \E i \in 1..N : Sorted[i] = x
    <3>1. PICK i \in 1..N : asc[i] = x
      BY <1>5
    <3>2. (N - i) + 1 \in 1..N /\ (N - ((N - i) + 1)) + 1 = i
      BY <1>1
    <3>3. Sorted[(N - i) + 1] = asc[i]
      BY <2>1, <3>2
    <3> QED BY <3>1, <3>2, <3>3
  <2>6. ASSUME NEW i \in 1..N, NEW j \in 1..N, i < j PROVE Comes(Sorted[i], Sorted[j])
    <3>1. (N - j) + 1 < (N - i) + 1
      BY <1>1, <2>6
    <3>2. Earlier(asc[(N - j) + 1], asc[(N - i) + 1])
      BY <1>6, <2>2, <3>1
    <3>3. Sorted[i] = asc[(N - i) + 1] /\ Sorted[j] = asc[(N - j) + 1]
      BY <2>1
    <3> QED BY <1>9, <3>2, <3>3 DEF Comes
  <2> QED BY <2>4, <2>5, <2>6
<1> QED BY <1>8, <1>9

\* Where the page before has ended: the position of the cursor, if it is found.
LEMMA PositionFinds ==
  ASSUME ListTypes, Loading
  PROVE  /\ Position(Sorted) \in 0..Len(Sorted)
         /\ Position(Sorted) = 0 => \A x \in loaded : x.id # cursor
         /\ Position(Sorted) # 0 => Sorted[Position(Sorted)].id = cursor
<1> DEFINE At == {i \in 1..Len(Sorted) : Sorted[i].id = cursor}
<1>1. Position(Sorted) = IF At # {} THEN Min(At) ELSE 0
  BY DEF Position, SelectInSeq
<1>2. Sorted \in Seq(loaded) /\ Len(Sorted) \in Nat
  BY SortedIsSorted
<1>3. CASE At = {}
  <2>1. ASSUME NEW x \in loaded PROVE x.id # cursor
    <3>1. PICK i \in 1..Len(Sorted) : Sorted[i] = x
      BY SortedIsSorted
    <3> QED BY <1>3, <3>1
  <2> QED BY <1>1, <1>2, <1>3, <2>1
<1>4. CASE At # {}
  <2>1. PICK i \in At : TRUE
    BY <1>4
  <2>2. ASSUME NEW j \in At PROVE j = i
    <3>1. i \in 1..Len(Sorted) /\ j \in 1..Len(Sorted) /\ Sorted[i].id = Sorted[j].id
      BY <2>1
    <3>2. Sorted[i] \in loaded /\ Sorted[j] \in loaded
      BY <1>2, <3>1
    <3>3. Sorted[i] = Sorted[j]
      BY <3>1, <3>2 DEF Loading
    <3>4. ~Comes(Sorted[i], Sorted[j]) /\ ~Comes(Sorted[j], Sorted[i])
      BY <3>2, <3>3, EarlierIsTotal DEF Comes
    <3> QED BY <1>2, <3>1, <3>4, SortedIsSorted
  <2>3. At = {i}
    BY <2>1, <2>2
  <2>4. i \in 1..Len(Sorted) /\ Sorted[i].id = cursor
    BY <2>1
  <2>5. Min(At) = i
    <3>1. i \in Int
      BY <2>4
    <3> HIDE DEF At
    <3> QED BY <2>3, <3>1 DEF Min
  <2> HIDE DEF At
  <2>6. Position(Sorted) = i /\ i # 0
    BY <1>1, <1>4, <2>4, <2>5
  <2> QED BY <1>2, <2>4, <2>6
<1> QED BY <1>3, <1>4

Skipped == IF Lost(Sorted) THEN Len(Sorted) ELSE Position(Sorted)

\* A page holds the next so many files of those sorted; and if there are more, at least
\* one, the last of which is the cursor.
LEMMA PageFollows ==
  ASSUME ListTypes, Loading, AnswerPage
  PROVE  \E m \in Nat :
           /\ Skipped + m <= Len(Sorted)
           /\ pages' = pages \o [i \in 1..m |-> Sorted[Skipped + i].id]
           /\ IF Skipped + m < Len(Sorted)
                THEN /\ m > 0 /\ pager' = "next"
                     /\ cursor' = Sorted[Skipped + m].id
                     /\ ~slipped' => Sorted[Skipped + m].named
                ELSE pager' = "done" /\ cursor' = Missing
<1> DEFINE S == Sorted
           n == Len(S)
           p == Skipped
           rest == AfterCursor(S)
           size == Min({ask.limit, Len(rest)})
           page == SubSeq(rest, 1, size)
           more == Len(rest) > ask.limit
<1>1. /\ pages' = pages \o [i \in DOMAIN page |-> page[i].id]
      /\ cursor' = IF more THEN Last(page).id ELSE Missing
      /\ pager' = IF more THEN "next" ELSE "done"
      /\ more /\ ~slipped' => Last(page).named
  BY DEF AnswerPage
<1>2. S \in Seq(loaded) /\ n \in Nat /\ p \in 0..n
  BY SortedIsSorted, PositionFinds DEF Skipped
<1>3. rest \in Seq(loaded) /\ Len(rest) = n - p /\ \A i \in 1..(n - p) : rest[i] = S[p + i]
  <2>1. CASE Lost(S)
    <3>1. rest = <<>> /\ p = n
      BY <2>1 DEF AfterCursor, Skipped
    <3> HIDE DEF rest, p, n, S
    <3> QED BY <1>2, <3>1
  <2>2. CASE ~Lost(S)
    <3>1. rest = SubSeq(S, p + 1, n)
      BY <2>2 DEF AfterCursor, Skipped
    <3> HIDE DEF rest, p, n
    <3>2. \A i \in 1..(n - p) : p + i \in 1..n
      BY <1>2
    <3> HIDE DEF S
    <3> QED BY <1>2, <3>1, <3>2 DEF n
  <2> QED BY <2>1, <2>2
<1>4. ask.limit \in Nat /\ ask.limit > 0
  <2>1. ask.limit \in Limits \cup {MaxLimit}
    BY DEF ListTypes
  <2>2. MaxLimit \in Nat /\ MaxLimit > 0
    BY DEF MaxLimit
  <2>3. \A l \in Limits : l \in Nat /\ l > 0
    BY PagesAreClamped, <2>2
  <2> QED BY <2>1, <2>2, <2>3
<1>5. size = IF more THEN ask.limit ELSE Len(rest)
  <2> DEFINE r == Len(rest)
             l == ask.limit
  <2>1. r \in Nat /\ l \in Nat
    BY <1>2, <1>3, <1>4
  <2> HIDE DEF r, l
  <2>2. Min({l, r}) = IF r > l THEN l ELSE r
    BY <2>1 DEF Min
  <2> QED BY <2>2 DEF r, l
<1> HIDE DEF S, n, p, rest, size
<1>6. size \in Nat /\ size <= n - p /\ (more <=> size < n - p) /\ (more => size > 0)
  BY <1>2, <1>3, <1>4, <1>5
<1>7. Len(page) = size /\ DOMAIN page = 1..size /\ \A i \in 1..size : page[i] = S[p + i]
  <2>1. page \in Seq(loaded) /\ Len(page) = size /\ \A i \in 1..size : page[i] = rest[i]
    BY <1>2, <1>3, <1>6
  <2>2. \A i \in 1..size : i \in 1..(n - p)
    BY <1>2, <1>6
  <2> HIDE DEF page
  <2> QED BY <1>3, <2>1, <2>2
<1>8. more => Last(page) = S[p + size]
  BY <1>6, <1>7 DEF Last
<1>9. [i \in DOMAIN page |-> page[i].id] = [i \in 1..size |-> S[p + i].id]
  BY <1>7
<1> HIDE DEF page, more
<1>10. p + size <= n /\ (more <=> p + size < n)
  BY <1>2, <1>6
<1> QED BY <1>1, <1>6, <1>8, <1>9, <1>10 DEF S, n, p

\* The first of the names that are left.
LEMMA LeastOfNaturals ==
  ASSUME NEW S \in SUBSET Nat, S # {}
  PROVE  Min(S) \in S
<1>1. PICK n \in S : \A m \in Nat : <<m, n>> \in OpToRel(<, Nat) => m \notin S
  BY NatLessThanWellFounded, WFMin
<1>2. \A m \in S : n <= m
  <2> SUFFICES ASSUME NEW m \in S PROVE ~(m < n)
    OBVIOUS
  <2> QED BY <1>1 DEF OpToRel
<1> QED BY <1>2 DEF Min

-----------------------------------------------------------------------------
LEMMA InitListing == Init => ListTypes /\ Loading /\ Covered
<1> SUFFICES ASSUME Init PROVE ListTypes /\ Loading /\ Covered
  OBVIOUS
<1>1. ListTypes
  <2>1. <<>> \in Seq(Files)
    OBVIOUS
  <2>2. ask \in [desc : BOOLEAN, limit : Limits \cup {MaxLimit}]
    BY DEF Init
  <2> QED BY <2>1, <2>2 DEF Init, ListTypes
<1>2. Loading /\ Covered
  BY DEF Init, Loading, Covered
<1> QED BY <1>1, <1>2

\* What is known of a file stays known.
LEMMA KnownStays ==
  ASSUME InOrder, [Next]_vars, NEW f \in Files, NEW t, Known(f, t)
  PROVE  Known(f, t)'
<1> USE DEF Known, InOrder, FileTypes, Staged
<1>1. ASSUME NEW g \in Files, FileStep(g) PROVE Known(f, t)'
  <2>1. CASE WriteData(g)
    BY <2>1 DEF WriteData, UploadGoes
  <2>2. CASE CreateMeta(g)
    BY <2>2 DEF CreateMeta, UploadGoes
  <2>3. CASE WriteMeta(g)
    BY <2>3 DEF WriteMeta, UploadGoes
  <2>4. CASE UploadFails(g)
    BY <2>4 DEF UploadFails
  <2>5. CASE BeginDelete(g) \/ DeleteStops(g)
    BY <2>5 DEF BeginDelete, DeleteStops
  <2>6. CASE DeleteFirst(g)
    BY <2>6 DEF DeleteFirst, DeleteStep, Removed
  <2>7. CASE DeleteSecond(g)
    BY <2>7 DEF DeleteSecond, DeleteStep, Removed
  <2> QED BY <1>1, <2>1, <2>2, <2>3, <2>4, <2>5, <2>6, <2>7 DEF FileStep
<1>2. CASE Tick \/ ListStep \/ UNCHANGED vars
  <2>1. UNCHANGED fileVars
    BY <1>2, ListingsOnlyRead DEF Tick, vars
  <2> QED BY <2>1 DEF fileVars
<1> QED BY <1>1, <1>2 DEF Next

\* A stable file has its data and its time, and keeps them.
LEMMA StableStays ==
  ASSUME InOrder, InOrder', [Next]_vars, NEW f \in Files,
         upload[f] = "answered", deletion[f] = "none", deletion'[f] = "none"
  PROVE  upload'[f] = "answered" /\ f \in data' /\ meta'[f] = meta[f] /\ meta[f] \in Times
<1>1. Known(f, meta[f]) /\ f \in data /\ meta[f] \in Times
  BY DEF Known, InOrder, Staged
<1>2. upload'[f] = "answered"
  BY <1>1, KnownStays DEF Known
<1>3. f \in data'
  BY <1>2 DEF InOrder, Staged
<1>4. meta'[f] = meta[f]
  <2> DEFINE t == meta[f]
  <2>1. Known(f, t)
    BY <1>1
  <2> HIDE DEF t
  <2>2. meta'[f] = t
    BY <2>1, <1>3, KnownStays DEF Known
  <2> QED BY <2>2 DEF t
<1> QED BY <1>1, <1>2, <1>3, <1>4

\* Uploads, deletions and time do not touch a listing, but for the files that cease to be
\* stable.
LEMMA FilesPassListings ==
  ASSUME ListTypes, Loading, Tick \/ (\E f \in Files : FileStep(f)) \/ UNCHANGED vars
  PROVE  /\ UNCHANGED <<pager, ask, cursor, entries, loaded, pages, slipped>>
         /\ stable' \subseteq stable
         /\ \A f \in stable' : deletion[f] = "none" /\ deletion'[f] = "none"
<1>1. CASE Tick \/ UNCHANGED vars
  BY <1>1 DEF Tick, vars, fileVars, listVars, Loading
<1>2. ASSUME NEW g \in Files, FileStep(g)
      PROVE  /\ UNCHANGED <<pager, ask, cursor, entries, loaded, pages, slipped>>
             /\ stable' \subseteq stable
             /\ \A f \in stable' : deletion[f] = "none" /\ deletion'[f] = "none"
  <2> USE DEF listVars, Loading, ListTypes
  <2>1. CASE WriteData(g) \/ CreateMeta(g) \/ WriteMeta(g) \/ UploadFails(g)
    BY <2>1 DEF WriteData, CreateMeta, WriteMeta, UploadFails
  <2>2. CASE BeginDelete(g)
    BY <2>2 DEF BeginDelete
  <2>3. CASE DeleteFirst(g)
    BY <2>3 DEF DeleteFirst, DeleteStep
  <2>4. CASE DeleteSecond(g)
    BY <2>4 DEF DeleteSecond, DeleteStep
  <2>5. CASE DeleteStops(g)
    BY <2>5 DEF DeleteStops
  <2> QED BY <1>2, <2>1, <2>2, <2>3, <2>4, <2>5 DEF FileStep
<1> QED BY <1>1, <1>2

LEMMA FilesKeepListings ==
  ASSUME InOrder, InOrder', [Next]_vars, ListTypes, Loading, Covered,
         Tick \/ (\E f \in Files : FileStep(f)) \/ UNCHANGED vars
  PROVE  ListTypes' /\ Loading' /\ Covered'
<1>1. /\ UNCHANGED <<pager, ask, cursor, entries, loaded, pages, slipped>>
      /\ stable' \subseteq stable
      /\ \A f \in stable' : deletion[f] = "none" /\ deletion'[f] = "none"
  BY FilesPassListings
<1>2. ASSUME NEW f \in stable'
      PROVE  upload'[f] = "answered" /\ deletion'[f] = "none" /\ Of(f)' = Of(f)
  <2>1. f \in Files /\ upload[f] = "answered" /\ deletion[f] = "none" /\ deletion'[f] = "none"
    BY <1>1 DEF ListTypes, Loading
  <2>2. upload'[f] = "answered" /\ meta'[f] = meta[f]
    BY <2>1, StableStays
  <2> QED BY <2>1, <2>2 DEF Of
<1>3. ListTypes'
  BY <1>1 DEF ListTypes
<1>4. Loading'
  <2>1. ASSUME NEW x \in loaded', x.named PROVE Known(x.id, x.at)'
    <3>1. x.id \in Files /\ Known(x.id, x.at)
      BY <1>1, <2>1 DEF ListTypes, Loading
    <3> QED BY <3>1, KnownStays
  <2>2. \A f \in stable' : f \in entries \/ Of(f) \in loaded => f \in entries' \/ Of(f)' \in loaded'
    BY <1>1, <1>2
  <2> QED BY <1>1, <1>2, <2>1, <2>2 DEF Loading
<1>5. Covered'
  <2>1. ASSUME NEW t \in Times, Marked(t) PROVE Marked(t)'
    <3>1. ASSUME cursor # Missing PROVE Known(cursor, t)'
      <4>1. PICK c \in Files : c = cursor
        BY <3>1 DEF ListTypes
      <4>2. Known(c, t)
        BY <2>1, <3>1, <4>1 DEF Marked
      <4>3. Known(c, t)'
        BY <4>2, KnownStays
      <4> QED BY <1>1, <4>1, <4>3 DEF Known
    <3>2. \A f : (Once(f)' <=> Once(f)) /\ (Never(f)' <=> Never(f))
      BY <1>1 DEF Once, Never
    <3>3. \A f \in stable' : Comes([id |-> cursor, at |-> t], Of(f))'
                              <=> Comes([id |-> cursor, at |-> t], Of(f))
      BY <1>1, <1>2 DEF Comes, Earlier
    <3> QED BY <1>1, <2>1, <3>1, <3>2, <3>3 DEF Marked
  <2>2. \A f : Once(f)' <=> Once(f)
    BY <1>1 DEF Once
  <2> QED BY <1>1, <2>1, <2>2 DEF Covered
<1> QED BY <1>3, <1>4, <1>5

\* A listing begins with the files that are stable, and has none on its pages.
LEMMA FirstPageListing ==
  ASSUME InOrder, ListTypes, Loading, NEW desc \in BOOLEAN, NEW limit \in Limits,
         FirstPage(desc, limit)
  PROVE  ListTypes' /\ Loading' /\ Covered'
<1> USE DEF FirstPage, OpenDir
<1>1. /\ pager' = "loading" /\ entries' = data /\ loaded' = {}
      /\ ask' = [desc |-> desc, limit |-> limit]
      /\ UNCHANGED <<cursor, pages, slipped, data, meta, upload, deletion>>
      /\ stable' = {f \in Files : upload[f] = "answered" /\ deletion[f] = "none"}
      /\ pages = <<>> /\ cursor = Missing
  BY DEF Loading, fileVars
<1>2. ListTypes'
  BY <1>1 DEF ListTypes, InOrder, FileTypes
<1>3. Loading'
  BY <1>1 DEF Loading, InOrder, Staged
<1>4. 1 \in Times
  BY SomeTimePasses DEF Times
<1>5. Marked(1)'
  BY <1>1 DEF Marked, Never
<1> QED BY <1>1, <1>2, <1>3, <1>4, <1>5 DEF Covered

LEMMA NextPageListing ==
  ASSUME InOrder, ListTypes, Loading, Covered, NextPage
  PROVE  ListTypes' /\ Loading' /\ Covered'
<1>1. /\ pager = "next" /\ pager' = "loading" /\ entries' = data /\ loaded' = {}
      /\ UNCHANGED <<ask, cursor, pages, stable, slipped, data, meta, upload, deletion>>
  BY DEF NextPage, OpenDir, fileVars
<1>2. ListTypes'
  BY <1>1 DEF ListTypes, InOrder, FileTypes
<1>3. Loading'
  BY <1>1 DEF Loading, InOrder, Staged, ListTypes
<1>4. ASSUME NEW t \in Times, Marked(t) PROVE Marked(t)'
  <2>1. \A f : (Once(f)' <=> Once(f)) /\ (Never(f)' <=> Never(f))
    BY <1>1 DEF Once, Never
  <2>2. \A f : Comes([id |-> cursor, at |-> t], Of(f))'
                <=> Comes([id |-> cursor, at |-> t], Of(f))
    BY <1>1 DEF Comes, Earlier, Of
  <2>3. Known(cursor, t)' <=> Known(cursor, t)
    BY <1>1 DEF Known
  <2> QED BY <1>1, <1>4, <2>1, <2>2, <2>3 DEF Marked
<1> QED BY <1>1, <1>2, <1>3, <1>4 DEF Covered

\* One more file is loaded, as it is; or the listing fails.
LEMMA LoadFileListing ==
  ASSUME InOrder, ListTypes, Loading, Covered, LoadFile
  PROVE  ListTypes' /\ Loading' /\ Covered'
<1> DEFINE f == Min(entries)
<1>1. /\ pager = "loading" /\ entries # {}
      /\ UNCHANGED <<ask, cursor, pages, stable, slipped, clock, data, meta, upload, deletion>>
      /\ \/ /\ Loaded(f) = {}
            /\ pager' = "failed" /\ entries' = {} /\ loaded' = {}
         \/ /\ Loaded(f) # {}
            /\ entries' = entries \ {f} /\ loaded' = loaded \cup Loaded(f) /\ pager' = pager
  BY DEF LoadFile, fileVars
<1>2. CASE pager' = "failed"
  <2>1. entries' = {} /\ loaded' = {}
    BY <1>1, <1>2
  <2> QED BY <1>1, <1>2, <2>1 DEF ListTypes, Loading, Covered
<1>3. CASE pager' = pager
  <2>1. Loaded(f) # {} /\ entries' = entries \ {f} /\ loaded' = loaded \cup Loaded(f)
    BY <1>1, <1>3
  <2>2. f \in entries
    <3>1. entries \subseteq Nat
      BY PagesAreClamped DEF ListTypes, Files
    <3> QED BY <1>1, <3>1, LeastOfNaturals
  <2>3. f \in Files
    BY <2>2 DEF ListTypes
  <2> HIDE DEF f
  <2>4. PICK x : /\ Loaded(f) = {x} /\ x.id = f /\ f \in data
                 /\ x \in [id : Files, at : Times, named : BOOLEAN]
                 /\ x.named <=> meta[f] \in Times
                 /\ meta[f] \in Times => x = Of(f)
    <3>1. clock \in Times /\ meta[f] \in {Missing, Torn} \cup Times
      BY <2>3 DEF InOrder, FileTypes
    <3>2. f \in data
      BY <2>1 DEF Loaded
    <3>3. CASE meta[f] \in Times
      <4>1. Loaded(f) = {Of(f)}
        BY <3>2, <3>3, NoTimes DEF Loaded, Of
      <4>2. Of(f).id = f /\ Of(f).named /\ Of(f) \in [id : Files, at : Times, named : BOOLEAN]
        BY <2>3, <3>3 DEF Of
      <4> QED BY <3>2, <3>3, <4>1, <4>2
    <3>4. CASE meta[f] = Missing
      <4> DEFINE x == [id |-> f, at |-> clock, named |-> FALSE]
      <4>1. meta[f] \notin Times
        BY <3>4, NoTimes
      <4>2. Loaded(f) = {x}
        BY <3>2, <3>4, <4>1 DEF Loaded
      <4>3. x.id = f /\ ~x.named /\ x \in [id : Files, at : Times, named : BOOLEAN]
        BY <2>3, <3>1
      <4> HIDE DEF x
      <4> QED BY <3>2, <4>1, <4>2, <4>3
    <3>5. CASE meta[f] = Torn
      <4>1. meta[f] \notin Times /\ meta[f] # Missing
        BY <3>5, NoTimes DEF Missing, Torn
      <4>2. Loaded(f) = {}
        BY <4>1 DEF Loaded
      <4> QED BY <2>1, <4>2
    <3> QED BY <3>1, <3>3, <3>4, <3>5
  <2>5. loaded' = loaded \cup {x}
    BY <2>1, <2>4
  <2>6. ListTypes'
    BY <1>1, <1>3, <2>1, <2>4, <2>5 DEF ListTypes
  <2>7. Loading'
    <3>1. \A y \in loaded : y.id # f
      BY <2>2 DEF Loading
    <3>2. x.named => Known(f, x.at)
      <4>1. SUFFICES ASSUME meta[f] \in Times PROVE upload[f] = "answered" /\ meta[f] = x.at
        BY <2>4 DEF Known
      <4>2. x.at = meta[f]
        BY <2>4, <4>1 DEF Of
      <4> QED BY <2>3, <2>4, <4>1, <4>2 DEF InOrder, Staged
    <3>3. \A g \in stable : g = f => Of(g) = x
      BY <2>3, <2>4 DEF Loading, InOrder, Staged
    <3>4. \A g \in stable : Of(g)' = Of(g)
      BY <1>1 DEF Of
    <3>5. \A y \in loaded' : y.named => Known(y.id, y.at)'
      BY <1>1, <2>4, <2>5, <3>2 DEF Loading, Known
    <3>6. \A y, z \in loaded' : y.id = z.id => y = z
      BY <2>4, <2>5, <3>1 DEF Loading
    <3>7. \A g \in stable : g \in entries' \/ Of(g)' \in loaded'
      BY <1>1, <2>1, <2>5, <3>3, <3>4 DEF Loading
    <3> QED BY <1>1, <1>3, <2>1, <2>4, <2>5, <3>5, <3>6, <3>7 DEF Loading
  <2>8. ASSUME NEW t \in Times, Marked(t) PROVE Marked(t)'
    <3>1. \A g : (Once(g)' <=> Once(g)) /\ (Never(g)' <=> Never(g))
      BY <1>1 DEF Once, Never
    <3>2. \A g : Comes([id |-> cursor, at |-> t], Of(g))'
                  <=> Comes([id |-> cursor, at |-> t], Of(g))
      BY <1>1 DEF Comes, Earlier, Of
    <3>3. cursor # Missing => Known(cursor, t)'
      BY <1>1, <2>8 DEF Known, Marked
    <3>4. ASSUME cursor # Missing, x.id = cursor PROVE x.at = t
      <4>1. Known(f, t) /\ meta[f] = t
        BY <2>4, <2>8, <3>4 DEF Marked, Known
      <4> QED BY <2>4, <2>8, <4>1 DEF Of
    <3>5. cursor # Missing => \A y \in loaded' : y.id = cursor => y.at = t
      BY <2>5, <2>8, <3>4 DEF Marked
    <3> QED BY <1>1, <2>8, <3>1, <3>2, <3>3, <3>5 DEF Marked
  <2> QED BY <1>1, <1>3, <2>6, <2>7, <2>8 DEF Covered
<1> QED BY <1>1, <1>2, <1>3

\* In what is sorted, the order is that of the positions, and no id is there twice.
LEMMA PositionsAreTheOrder ==
  ASSUME ListTypes, Loading, NEW i \in 1..Len(Sorted), NEW j \in 1..Len(Sorted)
  PROVE  /\ Sorted[i] \in loaded /\ Len(Sorted) \in Nat
         /\ Comes(Sorted[i], Sorted[j]) <=> i < j
         /\ Sorted[i].id = Sorted[j].id => i = j
<1>1. Sorted \in Seq(loaded)
  BY SortedIsSorted
<1>2. Sorted[i] \in loaded /\ Sorted[j] \in loaded /\ Len(Sorted) \in Nat
  BY <1>1
<1>3. i < j => Comes(Sorted[i], Sorted[j])
  BY SortedIsSorted
<1>4. j < i => Comes(Sorted[j], Sorted[i])
  BY SortedIsSorted
<1>5. ~(Comes(Sorted[i], Sorted[j]) /\ Comes(Sorted[j], Sorted[i]))
  BY <1>2, EarlierIsTotal DEF Comes
<1>6. Comes(Sorted[i], Sorted[j]) <=> i < j
  <2>1. i < j \/ j < i \/ i = j
    BY <1>2
  <2>2. i = j => ~Comes(Sorted[i], Sorted[j])
    BY <1>5
  <2>3. ~(i < j /\ j < i) /\ ~(i < j /\ i = j)
    BY <1>2
  <2> QED BY <1>3, <1>4, <1>5, <2>1, <2>2, <2>3
<1>7. Sorted[i].id = Sorted[j].id => i = j
  <2> SUFFICES ASSUME Sorted[i].id = Sorted[j].id PROVE i = j
    OBVIOUS
  <2>1. Sorted[i] = Sorted[j]
    BY <1>2 DEF Loading
  <2>2. ~(i < j) /\ ~(j < i)
    BY <1>3, <1>4, <1>5, <2>1
  <2> QED BY <1>2, <2>2
<1> QED BY <1>2, <1>6, <1>7

\* A stable file is on the pages of before if and only if its position is not after the
\* cursor's.
LEMMA ListedUpToPosition ==
  ASSUME InOrder, ListTypes, Loading, ~Lost(Sorted), NEW t \in Times, Marked(t),
         NEW f \in stable, NEW k \in 1..Len(Sorted), Sorted[k] = Of(f)
  PROVE  IF k <= Position(Sorted) THEN Once(f) ELSE Never(f)
<1> DEFINE S == Sorted
           p == Position(S)
           mark == [id |-> cursor, at |-> t]
<1>1. p \in 0..Len(S) /\ Len(S) \in Nat /\ (p # 0 => S[p].id = cursor)
  BY PositionFinds, PositionsAreTheOrder
<1>2. ASSUME p # 0
      PROVE  S[p] \in loaded /\ cursor # Missing /\ S[p].at = t
  <2>1. S[p] \in loaded /\ S[p].id = cursor
    BY <1>1, <1>2, PositionsAreTheOrder
  <2>2. cursor # Missing
    BY <2>1, PagesAreClamped DEF ListTypes, Files, Missing
  <2> QED BY <2>1, <2>2 DEF Marked
<1>3. p = 0 => cursor = Missing
  BY DEF Lost
<1>4. (cursor # Missing /\ ~Comes(mark, Of(f))) <=> k <= p
  <2>1. CASE p = 0
    BY <1>3, <2>1
  <2>2. CASE p # 0
    <3>1. Comes(mark, Of(f)) <=> Comes(S[p], S[k])
      BY <1>1, <1>2, <2>2 DEF Comes, Earlier
    <3>2. Comes(S[p], S[k]) <=> p < k
      BY <1>1, <2>2, PositionsAreTheOrder
    <3>3. ~(p < k) <=> k <= p
      BY <1>1
    <3> QED BY <1>2, <2>2, <3>1, <3>2, <3>3
  <2> QED BY <2>1, <2>2
<1> QED BY <1>4 DEF Marked

\* The pages with m files more.
LEMMA PagesGrow ==
  ASSUME ListTypes, NEW m \in Nat, NEW q \in [1..m -> Files]
  PROVE  /\ pages \o q \in Seq(Files)
         /\ DOMAIN pages = 1..Len(pages) /\ DOMAIN (pages \o q) = 1..(Len(pages) + m)
         /\ \A i \in 1..Len(pages) : (pages \o q)[i] = pages[i]
         /\ \A i \in 1..m : (pages \o q)[Len(pages) + i] = q[i]
         /\ Len(pages) \in Nat
<1>1. pages \in Seq(Files) /\ q \in Seq(Files) /\ Len(q) = m
  BY DEF ListTypes
<1>2. Len(pages) \in Nat
  BY <1>1
<1>3. pages \o q \in Seq(Files) /\ Len(pages \o q) = Len(pages) + m
  <2>1. \A r \in Seq(Files) : pages \o r \in Seq(Files) /\ Len(pages \o r) = Len(pages) + Len(r)
    BY <1>1
  <2> QED BY <1>1, <2>1
<1>4. \A i \in 1..Len(pages) : (pages \o q)[i] = pages[i]
  BY <1>1
<1>5. \A i \in 1..m : (pages \o q)[Len(pages) + i] = q[i]
  BY <1>1, <1>2
<1> QED BY <1>1, <1>2, <1>3, <1>4, <1>5

\* A page is answered: the files up to its last are now those on the pages.
LEMMA AnswerPageListing ==
  ASSUME InOrder, ListTypes, Loading, Covered, AnswerPage
  PROVE  ListTypes' /\ Loading' /\ Covered'
<1> DEFINE S == Sorted
           n == Len(S)
           p == Skipped
<1>1. PICK m \in Nat :
        /\ p + m <= n
        /\ pages' = pages \o [i \in 1..m |-> S[p + i].id]
        /\ IF p + m < n THEN /\ m > 0 /\ pager' = "next"
                             /\ cursor' = S[p + m].id
                             /\ ~slipped' => S[p + m].named
                        ELSE pager' = "done" /\ cursor' = Missing
  BY PageFollows
<1>2. /\ pager = "loading" /\ entries = {} /\ loaded' = {}
      /\ UNCHANGED <<clock, ask, entries, stable, data, meta, upload, stamp, deletion>>
      /\ slipped' \in BOOLEAN /\ (~slipped' => ~slipped /\ ~Lost(S))
  BY DEF AnswerPage, fileVars
<1>3. n \in Nat /\ p \in 0..n /\ \A i \in 1..n : S[i] \in loaded /\ S[i].id \in Files /\ S[i].at \in Times
  BY SortedIsSorted, PositionFinds DEF Skipped, ListTypes
<1> HIDE DEF S, n, p
<1> DEFINE q == [i \in 1..m |-> S[p + i].id]
<1>4. \A i \in 1..m : p + i \in 1..n
  BY <1>1, <1>3
<1>5. q \in [1..m -> Files]
  BY <1>3, <1>4
<1>6. /\ pages' \in Seq(Files)
      /\ Len(pages) \in Nat /\ DOMAIN pages = 1..Len(pages) /\ DOMAIN pages' = 1..(Len(pages) + m)
      /\ \A i \in 1..Len(pages) : pages'[i] = pages[i]
      /\ \A i \in 1..m : pages'[Len(pages) + i] = S[p + i].id
  <2>1. \A i \in 1..m : q[i] = S[p + i].id
    OBVIOUS
  <2>2. pages' = pages \o q
    BY <1>1
  <2> HIDE DEF q
  <2>3. /\ pages \o q \in Seq(Files) /\ Len(pages) \in Nat
        /\ DOMAIN pages = 1..Len(pages) /\ DOMAIN (pages \o q) = 1..(Len(pages) + m)
        /\ \A i \in 1..Len(pages) : (pages \o q)[i] = pages[i]
        /\ \A i \in 1..m : (pages \o q)[Len(pages) + i] = q[i]
    BY <1>5, PagesGrow
  <2> QED BY <2>1, <2>2, <2>3
<1>7. cursor' \in Files \cup {Missing} /\ pager' \in {"next", "done"}
  <2>1. p + m < n => m > 0
    BY <1>1
  <2>2. p + m < n => p + m \in 1..n
    BY <1>3, <2>1
  <2> QED BY <1>1, <1>3, <2>2
<1>8. ListTypes'
  BY <1>2, <1>6, <1>7 DEF ListTypes
<1>9. Loading'
  BY <1>2, <1>7 DEF Loading
<1>10. ASSUME NEW f \in stable, ~slipped'
       PROVE  \E k \in 1..n : /\ S[k] = Of(f)
                              /\ IF k <= p + m THEN Once(f)' ELSE Never(f)'
  <2>1. Of(f) \in loaded
    BY <1>2 DEF Loading
  <2>2. PICK k \in 1..n : S[k] = Of(f)
    BY <2>1, SortedIsSorted DEF S, n
  <2>3. \A i \in 1..n : S[i].id = f => i = k
    <3>1. S[k].id = f
      BY <2>2 DEF Of
    <3> QED BY <3>1, PositionsAreTheOrder DEF S, n
  <2>4. p = Position(S) /\ ~slipped /\ ~Lost(S)
    BY <1>2, <1>10 DEF p, Skipped, S
  <2>5. PICK t \in Times : Marked(t)
    BY <1>2, <2>4 DEF Covered
  <2>6. IF k <= p THEN Once(f) ELSE Never(f)
    BY <2>2, <2>4, <2>5, ListedUpToPosition DEF S, n
  <2>7. \A i \in 1..(Len(pages) + m) : i \in 1..Len(pages) \/ \E j \in 1..m : i = Len(pages) + j
    <3> SUFFICES ASSUME NEW i \in 1..(Len(pages) + m), i \notin 1..Len(pages)
                 PROVE  \E j \in 1..m : i = Len(pages) + j
      OBVIOUS
    <3>1. i - Len(pages) \in 1..m /\ i = Len(pages) + (i - Len(pages))
      BY <1>6
    <3> QED BY <3>1
  <2>8. \A j \in 1..m : pages'[Len(pages) + j] = f <=> p + j = k
    <3> SUFFICES ASSUME NEW j \in 1..m PROVE S[p + j].id = f <=> p + j = k
      BY <1>6
    <3> QED BY <1>4, <2>2, <2>3 DEF Of
  <2>9. CASE k <= p
    <3>1. \A j \in 1..m : pages'[Len(pages) + j] # f
      BY <1>3, <2>8, <2>9
    <3>2. PICK i \in 1..Len(pages) : pages[i] = f /\ \A j \in 1..Len(pages) : pages[j] = f => j = i
      BY <1>6, <2>6, <2>9 DEF Once
    <3>3. i \in DOMAIN pages' /\ pages'[i] = f
      BY <1>6, <3>2
    <3>4. ASSUME NEW j \in DOMAIN pages', pages'[j] = f PROVE j = i
      <4>1. j \in 1..Len(pages)
        BY <1>6, <2>7, <3>1, <3>4
      <4> QED BY <1>6, <3>2, <3>4, <4>1
    <3>5. Once(f)'
      BY <3>3, <3>4 DEF Once
    <3>6. k <= p + m
      BY <1>3, <2>9
    <3> QED BY <2>2, <3>5, <3>6
  <2>10. CASE p < k /\ k <= p + m
    <3>1. k - p \in 1..m /\ p + (k - p) = k
      BY <1>3, <2>10
    <3>2. Len(pages) + (k - p) \in DOMAIN pages' /\ pages'[Len(pages) + (k - p)] = f
      BY <1>6, <2>8, <3>1
    <3>3. \A i \in 1..Len(pages) : pages'[i] # f
      BY <1>3, <1>6, <2>6, <2>10 DEF Never
    <3>4. \A j \in 1..m : pages'[Len(pages) + j] = f => j = k - p
      BY <1>3, <2>8
    <3>5. \A i \in DOMAIN pages' : pages'[i] = f => i = Len(pages) + (k - p)
      <4> SUFFICES ASSUME NEW i \in DOMAIN pages', pages'[i] = f PROVE i = Len(pages) + (k - p)
        OBVIOUS
      <4>1. PICK j \in 1..m : i = Len(pages) + j
        BY <1>6, <2>7, <3>3
      <4>2. j = k - p
        BY <3>4, <4>1
      <4> QED BY <4>1, <4>2
    <3>6. Once(f)'
      BY <3>2, <3>5 DEF Once
    <3> QED BY <2>2, <2>10, <3>6
  <2>11. CASE p + m < k
    <3>1. ~(k <= p) /\ ~(k <= p + m) /\ \A j \in 1..m : p + j # k
      BY <1>3, <2>11
    <3>2. \A i \in DOMAIN pages' : pages'[i] # f
      BY <1>6, <2>6, <2>7, <2>8, <3>1 DEF Never
    <3>3. Never(f)'
      BY <3>2 DEF Never
    <3> QED BY <2>2, <3>1, <3>3
  <2> QED BY <1>3, <2>9, <2>10, <2>11
<1>11. CASE p + m < n /\ ~slipped'
  <2>1. p + m \in 1..n /\ cursor' = S[p + m].id /\ S[p + m].named /\ pager' = "next"
    <3>1. m > 0
      BY <1>1, <1>11
    <3> QED BY <1>1, <1>3, <1>11, <3>1
  <2>2. PICK t \in Times : t = S[p + m].at
    BY <1>3, <2>1
  <2>3. Known(cursor, t)'
    <3>1. Known(S[p + m].id, S[p + m].at)
      BY <1>3, <2>1 DEF Loading
    <3> QED BY <1>2, <2>1, <2>2, <3>1 DEF Known
  <2>4. ASSUME NEW f \in stable
        PROVE  IF ~Comes([id |-> cursor, at |-> t], Of(f))' THEN Once(f)' ELSE Never(f)'
    <3>1. PICK k \in 1..n : S[k] = Of(f) /\ IF k <= p + m THEN Once(f)' ELSE Never(f)'
      BY <1>10, <1>11
    <3>2. Of(f)' = Of(f)
      BY <1>2 DEF Of
    <3>3. Comes([id |-> cursor, at |-> t], Of(f))' <=> Comes(S[p + m], S[k])
      BY <1>2, <2>1, <2>2, <3>1, <3>2 DEF Comes, Earlier
    <3>4. Comes(S[p + m], S[k]) <=> p + m < k
      BY <2>1, PositionsAreTheOrder DEF S, n
    <3>5. ~(p + m < k) <=> k <= p + m
      BY <1>3
    <3> QED BY <3>1, <3>3, <3>4, <3>5
  <2>5. cursor' # Missing
    BY <1>3, <2>1, PagesAreClamped DEF Files, Missing
  <2>6. Marked(t)'
    BY <1>2, <2>3, <2>4, <2>5 DEF Marked
  <2> QED BY <1>8, <1>9, <2>1, <2>6 DEF Covered
<1>12. CASE ~(p + m < n) /\ ~slipped'
  <2>1. \A k \in 1..n : k <= p + m
    BY <1>1, <1>3, <1>12
  <2>2. \A f \in stable' : Once(f)'
    BY <1>2, <1>10, <1>12, <2>1
  <2> QED BY <1>1, <1>8, <1>9, <1>12, <2>2 DEF Covered
<1>13. CASE slipped'
  BY <1>8, <1>9, <1>13 DEF Covered
<1> QED BY <1>11, <1>12, <1>13

-----------------------------------------------------------------------------
LEMMA NextListing ==
  ASSUME InOrder, InOrder', ListTypes, Loading, Covered, [Next]_vars
  PROVE  ListTypes' /\ Loading' /\ Covered'
<1>1. CASE Tick \/ (\E f \in Files : FileStep(f)) \/ UNCHANGED vars
  BY <1>1, FilesKeepListings
<1>2. CASE ListStep
  BY <1>2, FirstPageListing, NextPageListing, LoadFileListing, AnswerPageListing DEF ListStep
<1> QED BY <1>1, <1>2 DEF Next

\* Every variable has its type.
THEOREM TypesAreKept == Spec => []TypeOK
<1>1. Init => InOrder /\ ListTypes /\ Loading /\ Covered
  BY InitInOrder, InitListing
<1>2. InOrder /\ ListTypes /\ Loading /\ Covered /\ [Next]_vars
        => (InOrder /\ ListTypes /\ Loading /\ Covered)'
  BY NextInOrder, NextListing
<1>3. InOrder /\ ListTypes => TypeOK
  BY DEF InOrder, FileTypes, ListTypes, TypeOK
<1> QED BY <1>1, <1>2, <1>3, PTL DEF Spec

\* A client that lists all pages gets every file that was there from the first request
\* to the last exactly once, whatever is uploaded and deleted meanwhile; unless a cursor
\* was deleted or was still without metadata (list_files, load_staged_file).
THEOREM PagesAreComplete == Spec => []PagesCoverStableFiles
<1>1. Init => InOrder /\ ListTypes /\ Loading /\ Covered
  BY InitInOrder, InitListing
<1>2. InOrder /\ ListTypes /\ Loading /\ Covered /\ [Next]_vars
        => (InOrder /\ ListTypes /\ Loading /\ Covered)'
  BY NextInOrder, NextListing
<1>3. Covered => PagesCoverStableFiles
  <2> SUFFICES ASSUME Covered, pager = "done", ~slipped, NEW f \in stable
               PROVE  Cardinality({i \in DOMAIN pages : pages[i] = f}) = 1
    BY DEF PagesCoverStableFiles
  <2>1. PICK i \in DOMAIN pages : pages[i] = f /\ \A j \in DOMAIN pages : pages[j] = f => j = i
    BY DEF Covered, Once
  <2>2. {j \in DOMAIN pages : pages[j] = f} = {i}
    BY <2>1
  <2> QED BY <2>2, FS_Singleton
<1> QED BY <1>1, <1>2, <1>3, PTL DEF Spec

=============================================================================
