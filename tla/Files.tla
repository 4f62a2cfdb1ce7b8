------------------------------- MODULE Files --------------------------------
(***************************************************************************)
(* Staged files: uploads, deletions and the paged listing (files.rs and    *)
(* the handlers of routes.rs). A file is its data and a file of metadata   *)
(* next to it, written and removed one after the other; nothing is locked. *)
(*                                                                         *)
(* Files are numbered in the order read_dir yields them. What is told of   *)
(* a file is when it was uploaded (seconds, so that several may be equal)  *)
(* and whether it goes by its name or, without metadata, by its id.        *)
(***************************************************************************)
EXTENDS Integers, Sequences, FiniteSets, SequencesExt

CONSTANTS NumFiles,
          Limits,      \* page sizes a client asks for, after list_files has clamped them
          MaxClock,    \* bound: seconds that pass
          MaxListed,   \* bound: files on the pages of a listing that goes on
          MaxBusy      \* bound: uploads and deletions under way at a time

Files == 1..NumFiles
Missing == 0           \* no file of metadata, no cursor
Torn == -1             \* a file of metadata that is empty as yet
Times == 1..MaxClock
MaxLimit == 10000      \* what is asked for by default, and the most

ASSUME SomeTimePasses == MaxClock \in Nat \ {0}
ASSUME PagesAreClamped == NumFiles \in Nat /\ Limits \subseteq 1..MaxLimit

VARIABLES
  clock,
  data,      \* files whose data is in the staging directory
  meta,      \* uploaded_at in the metadata of each file, Missing or Torn
  upload,    \* where each upload is
  stamp,     \* uploaded_at of an upload under way
  deletion,  \* where each deletion is
  pager,     \* where the client's listing is
  ask,       \* what it asks for: order and limit
  cursor,    \* `after`
  entries,   \* names read_dir gave that are not loaded yet
  loaded,    \* files loaded, each with its time and whether it is named
  pages,     \* the files of the pages so far
  stable,    \* history: files answered when it began and not deleted since
  slipped    \* history: a cursor was not found, or had no metadata

fileVars == <<data, meta, upload, stamp, deletion>>
listVars == <<pager, ask, cursor, entries, loaded, pages, stable, slipped>>
vars == <<clock, fileVars, listVars>>

Init ==
  /\ clock = 1
  /\ data = {} /\ meta = [f \in Files |-> Missing]
  /\ upload = [f \in Files |-> "new"]
  /\ stamp = [f \in Files |-> Missing]
  /\ deletion = [f \in Files |-> "none"]
  /\ pager = "idle"
  /\ ask = [desc |-> TRUE, limit |-> MaxLimit]
  /\ cursor = Missing /\ entries = {} /\ loaded = {}
  /\ pages = <<>> /\ stable = {} /\ slipped = FALSE

Tick == /\ clock < MaxClock /\ clock' = clock + 1
        /\ UNCHANGED fileVars /\ UNCHANGED listVars

Busy == {f \in Files : upload[f] \in {"data", "torn"}}
          \cup {f \in Files : deletion[f] \in {"found", "half"}}
Room(f) == Cardinality(Busy \cup {f}) <= MaxBusy

(***************************************************************************)
(* upload_file.                                                            *)
(***************************************************************************)
UploadGoes(f, from, to) == upload[f] = from /\ upload' = [upload EXCEPT ![f] = to]

WriteData(f) ==
  /\ UploadGoes(f, "new", "data") /\ Room(f)
  /\ data' = data \cup {f}
  /\ UNCHANGED <<clock, meta, stamp, deletion>> /\ UNCHANGED listVars

\* The time is taken, and write_staged_meta, which is fs::write, creates the file, ...
CreateMeta(f) ==
  /\ UploadGoes(f, "data", "torn")
  /\ stamp' = [stamp EXCEPT ![f] = clock]
  /\ meta' = [meta EXCEPT ![f] = Torn]
  /\ UNCHANGED <<clock, data, deletion>> /\ UNCHANGED listVars

\* ... and then writes it, which is lost if a deletion got there first.
WriteMeta(f) ==
  /\ UploadGoes(f, "torn", "answered")
  /\ meta' = [meta EXCEPT ![f] = IF @ = Torn THEN stamp[f] ELSE @]
  /\ stamp' = [stamp EXCEPT ![f] = Missing]
  /\ UNCHANGED <<clock, data, deletion>> /\ UNCHANGED listVars

\* A write fails, or the server crashes: nothing is cleaned up.
UploadFails(f) ==
  /\ upload[f] \in {"data", "torn"}
  /\ upload' = [upload EXCEPT ![f] = "failed"]
  /\ stamp' = [stamp EXCEPT ![f] = Missing]
  /\ UNCHANGED <<clock, data, meta, deletion>> /\ UNCHANGED listVars

(***************************************************************************)
(* delete_staged_file. Ids are learned from answers and from listings, so  *)
(* that a file may be deleted while it is still uploaded.                  *)
(***************************************************************************)
BeginDelete(f) ==
  /\ f \in data /\ deletion[f] = "none" /\ Room(f)
  /\ deletion' = [deletion EXCEPT ![f] = "found"]
  /\ stable' = stable \ {f}
  /\ UNCHANGED <<clock, data, meta, upload, stamp>>
  /\ UNCHANGED <<pager, ask, cursor, entries, loaded, pages, slipped>>

\* (mutant: the metadata is removed before the data)
MetaFirst(step) == IF step = "found" THEN "meta" ELSE "data"
Removed(step)   == IF step = "found" THEN "data" ELSE "meta"

DeleteStep(f, from, to) ==
  /\ deletion[f] = from /\ deletion' = [deletion EXCEPT ![f] = to]
  /\ data' = IF Removed(from) = "data" THEN data \ {f} ELSE data
  /\ meta' = IF Removed(from) = "meta" THEN [meta EXCEPT ![f] = Missing] ELSE meta
  /\ UNCHANGED <<clock, upload, stamp>> /\ UNCHANGED listVars

\* The removal of the data fails, or the server crashes before the second removal.
DeleteStops(f) ==
  /\ deletion[f] \in {"found", "half"}
  /\ deletion' = [deletion EXCEPT ![f] = IF @ = "found" THEN "none" ELSE "deleted"]
  /\ UNCHANGED <<clock, data, meta, upload, stamp>> /\ UNCHANGED listVars

DeleteFirst(f)  == DeleteStep(f, "found", "half")
DeleteSecond(f) == DeleteStep(f, "half", "deleted")

(***************************************************************************)
(* list_files and list_staged_files. A client lists page by page, with the *)
(* last id of a page as the cursor of the next.                            *)
(***************************************************************************)
OpenDir ==
  /\ pager' = "loading"
  /\ entries' = data /\ loaded' = {}
  /\ UNCHANGED <<clock, cursor, pages, slipped>> /\ UNCHANGED fileVars

FirstPage(desc, limit) ==
  /\ pager = "idle" /\ OpenDir
  /\ ask' = [desc |-> desc, limit |-> limit]
  /\ stable' = {f \in Files : upload[f] = "answered" /\ deletion[f] = "none"}

NextPage ==
  /\ pager = "next" /\ Len(pages) < MaxListed /\ OpenDir
  /\ UNCHANGED <<ask, stable>>

\* load_staged_file, whose looks at the disk are one step: a file removed between two of
\* them is loaded as if it was there, or missed as if it was not.
Loaded(f) ==
  CASE f \in data /\ meta[f] \in Times -> {[id |-> f, at |-> meta[f], named |-> TRUE]}
    [] f \in data /\ meta[f] = Missing -> {[id |-> f, at |-> clock, named |-> FALSE]}
    [] OTHER                            -> {}

\* One file that is gone or has torn metadata makes the listing fail.
LoadFile ==
  /\ pager = "loading" /\ entries # {}
  /\ LET file == Loaded(Min(entries)) IN
       IF file = {}
         THEN pager' = "failed" /\ entries' = {} /\ loaded' = {}
         ELSE /\ entries' = entries \ {Min(entries)}
              /\ loaded' = loaded \cup file
              /\ UNCHANGED pager
  /\ UNCHANGED <<clock, ask, cursor, pages, stable, slipped>> /\ UNCHANGED fileVars

\* sort_by_key is stable: files of one second stay in the order of the directory.
Earlier(x, y) == x.at < y.at \/ (x.at = y.at /\ x.id < y.id)
Rank(x) == Cardinality({y \in loaded : Earlier(y, x)})

\* Each file at its rank. (SetToSortSeq is no different, but SortSeq has no definition
\* that could be expanded in a proof.)
Sorted ==
  LET asc == [i \in 1..Cardinality(loaded) |-> CHOOSE x \in loaded : Rank(x) = i - 1]
  IN  IF ask.desc THEN Reverse(asc) ELSE asc

Position(files) == SelectInSeq(files, LAMBDA x : x.id = cursor)
Lost(files)     == cursor # Missing /\ Position(files) = 0

\* (mutant: the cursor's file is listed again)
FromCursor(files) ==
  IF Lost(files) THEN <<>> ELSE SubSeq(files, Max({1, Position(files)}), Len(files))

\* Position is 0 without a cursor.
AfterCursor(files) ==
  IF Lost(files) THEN <<>> ELSE SubSeq(files, Position(files) + 1, Len(files))

AnswerPage ==
  /\ pager = "loading" /\ entries = {}
  /\ LET rest == AfterCursor(Sorted)
         page == SubSeq(rest, 1, Min({ask.limit, Len(rest)}))
         more == Len(rest) > ask.limit
     IN  /\ pages' = pages \o [i \in DOMAIN page |-> page[i].id]
         /\ cursor' = IF more THEN Last(page).id ELSE Missing
         /\ pager' = IF more THEN "next" ELSE "done"
         /\ slipped' = \/ slipped
                       \/ Lost(Sorted)
                       \/ more /\ ~Last(page).named
  /\ loaded' = {}
  /\ UNCHANGED <<clock, ask, entries, stable>> /\ UNCHANGED fileVars

FileStep(f) ==
  \/ WriteData(f) \/ CreateMeta(f) \/ WriteMeta(f) \/ UploadFails(f)
  \/ BeginDelete(f) \/ DeleteFirst(f) \/ DeleteSecond(f) \/ DeleteStops(f)
ListStep == \/ \E desc \in BOOLEAN, limit \in Limits : FirstPage(desc, limit)
            \/ NextPage \/ LoadFile \/ AnswerPage

\* Bound: what happens after the client's listing is over is not of interest.
InTime == pager \notin {"done", "failed"}

Next == \/ InTime /\ (Tick \/ \E f \in Files : FileStep(f))
        \/ ListStep

Spec == Init /\ [][Next]_vars

-----------------------------------------------------------------------------
\* Every variable has its type, and a pager has entries only while it lists.
TypeOK ==
  /\ clock \in Times
  /\ data \subseteq Files
  /\ meta \in [Files -> {Missing, Torn} \cup Times]
  /\ upload \in [Files -> {"new", "data", "torn", "answered", "failed"}]
  /\ stamp \in [Files -> {Missing} \cup Times]
  /\ deletion \in [Files -> {"none", "found", "half", "deleted"}]
  /\ pager \in {"idle", "loading", "next", "done", "failed"}
  /\ ask \in [desc : BOOLEAN, limit : Limits \cup {MaxLimit}]
  /\ cursor \in Files \cup {Missing}
  /\ entries \subseteq Files
  /\ loaded \subseteq [id : Files, at : Times, named : BOOLEAN]
  /\ pages \in Seq(Files)
  /\ stable \subseteq Files /\ slipped \in BOOLEAN

\* A file whose upload was answered can be resolved, under its own name and time, until
\* its deletion begins; and while it is deleted no request sees it under its id for a
\* name: data is written first and removed first (upload_file, delete_staged_file).
AnsweredFilesResolve ==
  \A f \in Files : upload[f] = "answered" =>
    /\ deletion[f] = "none" => f \in data
    /\ f \in data => meta[f] \in Times

\* A client that lists all pages gets every file that was there from the first request
\* to the last exactly once, although each page lists the directory anew while others
\* upload and delete; unless a cursor was deleted, which ends the listing as if it were
\* complete, or was still without metadata and so moves (list_files, load_staged_file).
PagesCoverStableFiles ==
  pager = "done" /\ ~slipped =>
    \A f \in stable : Cardinality({i \in DOMAIN pages : pages[i] = f}) = 1
=============================================================================
