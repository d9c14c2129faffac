------------------------ MODULE FormContent_proofs ------------------------
(***************************************************************************)
(* However requests overlap and wherever they are cut off, for any rows,   *)
(* files and requests: answers list the files attached to them, unless     *)
(* somebody wrote over a list he had read before another did (FilesListed); *)
(* the tables keep their types and locks their one holder (ContentTyped);  *)
(* places begin at the first one, and follow one another while requests    *)
(* about one list do not overlap (PlacesFollow).                           *)
(***************************************************************************)
EXTENDS FormContent, FiniteSetTheorems, WellFoundedInduction, TLAPS

\* A request has all its fields.
IsJob(j) ==
    j = [kind |-> j.kind, at |-> j.at, row |-> j.row, copy |-> j.copy, to |-> j.to,
         type |-> j.type, title |-> j.title, snap |-> j.snap, slot |-> j.slot,
         list |-> j.list, new |-> j.new, file |-> j.file, writes |-> j.writes]

JobsAre == job = [p \in Requests |-> job[p]] /\ \A p \in Requests : IsJob(job[p])

\* The place of a row that is there, and of one that is not.
Places == Nat \union {Absent}

RowsOK ==
    /\ place = [x \in Rows |-> place[x]]
    /\ \A q \in Questions : place[q] \in Places
    /\ highlight \in Questions \union {NoRow}
    /\ answered \subseteq Slots
    /\ list \in [Slots -> SUBSET Files]
    /\ attached \in [Files -> Slots \union {NoSlot}]
    /\ files \subseteq Files
    /\ JobsAre

\* Files are attached to answers that are there, or whose parents are not.
AttachedOK ==
    \A f \in Files : attached[f] # NoSlot =>
       /\ Parents(attached[f]) => attached[f] \in answered
       /\ place[attached[f][2]] # Absent \/ attached[f][2] \in gone

\* What the requests about questions and views carry.
AddOK(p) ==
    job[p].kind = "add question" =>
       /\ job[p].row \in Questions
       /\ job[p].to \in IF job[p].at = "count" THEN Int ELSE Nat
       /\ place[job[p].row] = Absent
       /\ \A f \in Files : attached[f] # NoSlot => attached[f][2] # job[p].row
       /\ job[p].new = {}

MoveOK(p) ==
    job[p].kind = "update question" =>
       /\ job[p].row \in Questions
       /\ job[p].to \in IF job[p].at \in {"move", "moving"} THEN Nat ELSE Int
       /\ job[p].at = "moving" => \A q \in Questions : job[p].snap[q] \in Places
       /\ job[p].new = {}

PointOK(p) ==
    job[p].kind \in {"remove question", "highlight", "clear"} =>
       job[p].row \in Questions /\ job[p].new = {}

ViewOK(p) ==
    job[p].kind \in {"create view", "update view", "duplicate view", "delete view"} =>
       /\ job[p].row \in Views
       /\ job[p].kind = "duplicate view" => job[p].copy \in Views
       /\ job[p].new = {}

\* What an upload has established before it writes.
UploadOK(p) ==
    job[p].kind = "upload files" =>
       /\ job[p].slot \in Slots
       /\ job[p].new \subseteq Files
       /\ job[p].new \intersect files = {}
       /\ job[p].at \in {"upsert", "attach"} => job[p].list \subseteq Files
       /\ job[p].at = "attach" => Parents(job[p].slot)

\* What the deletion of a file has established.  One that does not write has
\* found the file in no list, which is one that has been written over.
DeleteOK(p) ==
    job[p].kind = "delete file" =>
       /\ job[p].at \in {"lock", "find", "put", "erase"}
       /\ job[p].file \in Files
       /\ job[p].new = {}
       /\ job[p].at # "erase" => ~job[p].writes
       /\ job[p].at # "lock" => /\ job[p].file \in files
                                /\ job[p].slot = attached[job[p].file]
       /\ job[p].at \in {"find", "put"} => job[p].slot \in Slots
       /\ job[p].at = "put" => job[p].list \subseteq Files /\ job[p].file \in job[p].list
       /\ job[p].at = "erase" =>
            IF job[p].writes
              THEN /\ job[p].slot \in Slots /\ Parents(job[p].slot)
                   /\ job[p].list \subseteq Files /\ job[p].file \in job[p].list
              ELSE job[p].slot = NoSlot \/ job[p].slot \in crossed

KindOK(p) ==
    job[p].kind \in {"none", "highlight", "clear", "upload files", "delete file", "add question",
                     "update question", "remove question", "create view", "update view",
                     "duplicate view", "delete view"}

JobFits(p) ==
    /\ KindOK(p) /\ AddOK(p) /\ MoveOK(p) /\ PointOK(p) /\ ViewOK(p) /\ UploadOK(p) /\ DeleteOK(p)
    /\ job[p].kind = "none" => job[p].new = {}

\* Two requests that write do not write the same new rows or delete the same file.
Apart(p, o) ==
    /\ job[p].new \intersect job[o].new = {}
    /\ job[p].kind = "add question" /\ job[o].kind = "add question" => job[p].row # job[o].row
    /\ \A f \in Files : ~(HoldsFile(p, f) /\ HoldsFile(o, f))

ContentInv ==
    /\ RowsOK /\ AttachedOK /\ AnswersListTheirFiles
    /\ \A p \in Requests : JobFits(p)
    /\ \A p, o \in Requests : p # o => Apart(p, o)

-----------------------------------------------------------------------------
(* Steps that write no answer and no file.                                 *)

PlacesKept ==
    /\ place' = [x \in Rows |-> place'[x]]
    /\ \A q \in Questions : place'[q] \in Places /\ (place'[q] = Absent <=> place[q] = Absent)

Becomes(p) ==
    /\ JobsAre'
    /\ \A o \in Requests \ {p} : job'[o] = job[o] /\ Apart(p, o)' /\ Apart(o, p)'
    /\ JobFits(p)'

Quiet(p) ==
    /\ UNCHANGED <<fileVars, crossed>>
    /\ gone \subseteq gone'
    /\ PlacesKept
    /\ highlight' \in Questions \union {NoRow}
    /\ highlight' # NoRow => place[highlight'] # Absent
    /\ Becomes(p)

\* Nobody else is disturbed by what one request does.
LEMMA OthersApart ==
    ASSUME ContentInv, NEW p \in Requests, Becomes(p)
    PROVE  \A o, other \in Requests : o # other => Apart(o, other)'
  <1> SUFFICES ASSUME NEW o \in Requests, NEW other \in Requests, o # other
               PROVE  Apart(o, other)'
    OBVIOUS
  <1>1. CASE o # p /\ other # p
    <2>1. job'[o] = job[o] /\ job'[other] = job[other] /\ Apart(o, other)
      BY <1>1 DEF Becomes, ContentInv
    <2> QED BY <2>1 DEF Apart, HoldsFile
  <1> QED BY <1>1 DEF Becomes

LEMMA QuietKeeps ==
    ASSUME ContentInv, NEW p \in Requests, Quiet(p)
    PROVE  ContentInv'
  <1> USE DEF ContentInv, Quiet, Becomes, fileVars
  <1>1. RowsOK'
    BY DEF RowsOK, PlacesKept
  <1>2. \A s \in Slots : s[2] \in Questions
    BY DEF Slots
  <1>3. \A s \in Slots : Parents(s)' <=> Parents(s)
    BY <1>2 DEF Parents, PlacesKept
  <1>4. AttachedOK'
    BY <1>2, <1>3 DEF AttachedOK, PlacesKept, RowsOK
  <1>5. AnswersListTheirFiles'
    <2>1. highlight' # NoRow => place'[highlight'] # Absent
      BY DEF PlacesKept
    <2> QED BY <1>3, <2>1 DEF AnswersListTheirFiles, RowsOK
  <1>6. ASSUME NEW o \in Requests PROVE JobFits(o)'
    <2>1. CASE o = p BY <2>1
    <2>2. CASE o # p
      <3>1. job'[o] = job[o] /\ JobFits(o) BY <2>2
      <3>2. AddOK(o)' BY <3>1 DEF JobFits, AddOK, PlacesKept
      <3>3. UploadOK(o)' BY <1>3, <3>1 DEF JobFits, UploadOK
      <3>4. DeleteOK(o)' BY <1>3, <3>1 DEF JobFits, DeleteOK
      <3> QED BY <3>1, <3>2, <3>3, <3>4 DEF JobFits, KindOK, MoveOK, PointOK, ViewOK
    <2> QED BY <2>1, <2>2
  <1> QED BY <1>1, <1>4, <1>5, <1>6, OthersApart

\* Of what a request must carry, what its kind asks for.
LEMMA Fits ==
    ASSUME NEW p \in Requests,
           \/ job'[p].kind = "add question" /\ AddOK(p)'
           \/ job'[p].kind = "update question" /\ MoveOK(p)'
           \/ job'[p].kind \in {"remove question", "highlight", "clear"} /\ PointOK(p)'
           \/ /\ job'[p].kind \in {"create view", "update view", "duplicate view", "delete view"}
              /\ ViewOK(p)'
           \/ job'[p].kind = "upload files" /\ UploadOK(p)'
           \/ job'[p].kind = "delete file" /\ DeleteOK(p)'
    PROVE  JobFits(p)'
  BY DEF JobFits, KindOK, AddOK, MoveOK, PointOK, ViewOK, UploadOK, DeleteOK

\* A request that goes on, with the rows and files it had.
LEMMA GoesOn ==
    ASSUME ContentInv, NEW p \in Requests, JobsAre',
           \A o \in Requests \ {p} : job'[o] = job[o],
           job'[p].kind = job[p].kind, job'[p].new = job[p].new, job'[p].row = job[p].row,
           job'[p].file = job[p].file,
           job[p].at # "lock" \/ job[p].kind # "delete file",
           JobFits(p)'
    PROVE  Becomes(p)
  <1>1. ASSUME NEW o \in Requests \ {p} PROVE Apart(p, o)' /\ Apart(o, p)'
    <2>1. job'[o] = job[o] /\ Apart(p, o) /\ Apart(o, p)
      BY DEF ContentInv
    <2> QED BY <2>1 DEF Apart, HoldsFile
  <1> QED BY <1>1 DEF Becomes

\* A request that ends.
LEMMA Ending ==
    ASSUME ContentInv, NEW p \in Requests, Ends(p)
    PROVE  Becomes(p)
  <1>1. JobsAre' /\ job'[p] = NoJob /\ \A o \in Requests \ {p} : job'[o] = job[o]
    BY DEF ContentInv, RowsOK, JobsAre, Ends, IsJob, NoJob
  <1>2. JobFits(p)'
    BY <1>1 DEF JobFits, NoJob, KindOK, AddOK, MoveOK, PointOK, ViewOK, UploadOK, DeleteOK
  <1>3. \A o \in Requests \ {p} : Apart(p, o)' /\ Apart(o, p)'
    BY <1>1 DEF Apart, NoJob, HoldsFile
  <1> QED BY <1>1, <1>2, <1>3 DEF Becomes

LEMMA Advance ==
    ASSUME ContentInv, NEW p \in Requests, NEW j, IsJob(j), job' = [job EXCEPT ![p] = j],
           j.kind = job[p].kind, j.row = job[p].row, j.new = job[p].new, j.file = job[p].file,
           job[p].at # "lock" \/ job[p].kind # "delete file",
           JobFits(p)'
    PROVE  Becomes(p)
  <1>1. JobsAre' /\ job'[p] = j /\ \A o \in Requests \ {p} : job'[o] = job[o]
    BY DEF ContentInv, RowsOK, JobsAre
  <1> QED BY <1>1, GoesOn

\* The places of questions move.
LEMMA Placing ==
    ASSUME ContentInv, NEW p \in Requests, Becomes(p), PlacesKept,
           UNCHANGED <<highlight, fileVars, crossed>>, gone \subseteq gone'
    PROVE  ContentInv'
  <1>1. Quiet(p)
    BY DEF Quiet, ContentInv, RowsOK, AnswersListTheirFiles
  <1> QED BY <1>1, QuietKeeps

\* Nothing is written but titles and types.
LEMMA Standing ==
    ASSUME ContentInv, NEW p \in Requests, Becomes(p),
           UNCHANGED <<place, highlight, gone, fileVars, crossed>>
    PROVE  ContentInv'
  <1>1. PlacesKept
    BY DEF PlacesKept, ContentInv, RowsOK
  <1> QED BY <1>1, Placing

\* Nothing is written.
LEMMA Reading ==
    ASSUME ContentInv, NEW p \in Requests, Becomes(p),
           UNCHANGED <<questionVars, fileVars, crossed>>
    PROVE  ContentInv'
  <1>1. Quiet(p)
    BY DEF Quiet, PlacesKept, questionVars, ContentInv, RowsOK, AnswersListTheirFiles
  <1> QED BY <1>1, QuietKeeps

-----------------------------------------------------------------------------
(* Requests about questions.                                               *)

\* No question loses its place by a shift or a move, and none gets one.
LEMMA ShiftKeeps ==
    ASSUME RowsOK, NEW snap, NEW after,
           place' = Shifted(Questions, snap, after, 1)
    PROVE  PlacesKept
  BY DEF RowsOK, PlacesKept, Shifted, Places, Absent, Rows

LEMMA MoveKeeps ==
    ASSUME RowsOK, NEW snap, \A q \in Questions : snap[q] \in Places,
           NEW r \in Questions, NEW to \in Nat,
           place' = Moved(Questions, snap, r, to)
    PROVE  PlacesKept
  <1>1. ASSUME NEW q \in Questions
        PROVE  place'[q] \in Places /\ (place'[q] = Absent <=> place[q] = Absent)
    <2>1. place[q] \in Places /\ snap[q] \in Places /\ snap[r] \in Places
      BY DEF RowsOK
    <2> QED BY <2>1 DEF Moved, Rows, Places, Absent
  <1>2. place' = [x \in Rows |-> place'[x]]
    BY DEF Moved
  <1> QED BY <1>1, <1>2 DEF PlacesKept

\* Rows of views are not of questions.
LEMMA ViewsKeep ==
    ASSUME RowsOK, place' = [x \in Rows |-> place'[x]],
           \A q \in Questions : place'[q] = place[q]
    PROVE  PlacesKept
  BY DEF RowsOK, PlacesKept

LEMMA CountIsNatural == Count \in Nat
  BY ContentAssumption, FS_Subset, FS_CardinalityType DEF Count, There

LEMMA AddSteps ==
    ASSUME ContentInv, NEW p \in Requests,
           CountToAdd(p) \/ BeginShift(p) \/ ShiftOrdersForInsert(p)
    PROVE  ContentInv'
  <1> USE DEF ContentInv, RowsOK, JobsAre
  <1>1. JobFits(p) /\ IsJob(job[p])
    OBVIOUS
  <1>2. CASE CountToAdd(p)
    <2>1. PICK k : k = Within(job[p].to, Count + 1)
      OBVIOUS
    <2>2. k \in Nat
      <3>1. job[p].to \in Int /\ k = Within(job[p].to, Count + 1)
        BY <1>1, <1>2, <2>1 DEF CountToAdd, JobFits, AddOK
      <3> QED BY <3>1, CountIsNatural DEF Within
    <2>3. PICK at \in {"shift", "insert"} : job' = [job EXCEPT ![p].to = k, ![p].at = at]
      BY <1>2, <2>1 DEF CountToAdd
    <2>4. JobsAre' /\ job'[p] = [job[p] EXCEPT !.to = k, !.at = at]
          /\ \A o \in Requests \ {p} : job'[o] = job[o]
      BY <2>3 DEF IsJob
    <2>5. UNCHANGED <<questionVars, fileVars, crossed>> /\ job[p].kind = "add question"
      BY <1>2 DEF CountToAdd, history
    <2>6. JobFits(p)'
      <3>1. AddOK(p)' /\ job'[p].kind = "add question"
        BY <1>1, <2>2, <2>4, <2>5 DEF IsJob, JobFits, AddOK, questionVars, fileVars
      <3> QED BY <3>1, Fits
    <2>7. Becomes(p)
      BY <1>1, <2>4, <2>5, <2>6, GoesOn DEF IsJob
    <2> QED BY <2>5, <2>7, Reading
  <1>3. CASE BeginShift(p)
    <2>1. job' = [job EXCEPT ![p].snap = Seen(Questions), ![p].at = "shifting"]
      BY <1>3 DEF BeginShift
    <2>4. JobsAre' /\ job'[p] = [job[p] EXCEPT !.snap = Seen(Questions), !.at = "shifting"]
          /\ \A o \in Requests \ {p} : job'[o] = job[o]
      BY <2>1 DEF IsJob
    <2>5. /\ UNCHANGED <<questionVars, fileVars, crossed>>
          /\ job[p].kind = "add question" /\ job[p].at = "shift"
      BY <1>3 DEF BeginShift, history
    <2>6. JobFits(p)'
      <3>1. AddOK(p)' /\ job'[p].kind = "add question"
        BY <1>1, <2>4, <2>5 DEF IsJob, JobFits, AddOK, questionVars, fileVars
      <3> QED BY <3>1, Fits
    <2>7. Becomes(p)
      BY <1>1, <2>4, <2>5, <2>6, GoesOn DEF IsJob
    <2> QED BY <2>5, <2>7, Reading
  <1>4. CASE ShiftOrdersForInsert(p)
    <2>1. PlacesKept
      BY <1>4, ShiftKeeps DEF ShiftOrdersForInsert
    <2>2. /\ UNCHANGED <<fileVars, gone, highlight, crossed>>
          /\ job[p].kind = "add question" /\ job[p].at = "shifting"
      BY <1>4 DEF ShiftOrdersForInsert, history
    <2>4. JobsAre' /\ job'[p] = [job[p] EXCEPT !.at = "insert"]
          /\ \A o \in Requests \ {p} : job'[o] = job[o]
      BY <1>4 DEF ShiftOrdersForInsert, Goes, IsJob
    <2>6. JobFits(p)'
      <3>1. AddOK(p)' /\ job'[p].kind = "add question"
        <4>1. job'[p].row = job[p].row /\ job'[p].to = job[p].to /\ job'[p].new = job[p].new
              /\ job'[p].kind = "add question" /\ job'[p].at = "insert"
          BY <1>1, <2>2, <2>4 DEF IsJob
        <4> QED BY <1>1, <2>1, <2>2, <4>1 DEF JobFits, AddOK, fileVars, PlacesKept
      <3> QED BY <3>1, Fits
    <2>7. Becomes(p)
      BY <1>1, <2>2, <2>4, <2>6, GoesOn DEF IsJob
    <2>8. Quiet(p)
      BY <2>1, <2>2, <2>7 DEF Quiet, AnswersListTheirFiles
    <2> QED BY <2>8, QuietKeeps
  <1> QED BY <1>2, <1>3, <1>4

\* The row is fresh: no file is attached to an answer to it.
LEMMA Inserting ==
    ASSUME ContentInv, NEW p \in Requests, InsertQuestion(p)
    PROVE  ContentInv'
  <1> USE DEF ContentInv
  <1>1. PICK q, to : q = job[p].row /\ to = job[p].to
    OBVIOUS
  <1>2. /\ q \in Questions /\ to \in Nat /\ place[q] = Absent
        /\ \A f \in Files : attached[f] # NoSlot => attached[f][2] # q
    BY <1>1 DEF InsertQuestion, JobFits, AddOK
  <1>3. /\ place' = [place EXCEPT ![q] = to]
        /\ UNCHANGED <<highlight, gone, fileVars, crossed>>
    BY <1>1 DEF InsertQuestion, history
  <1>4. Becomes(p)
    BY Ending DEF InsertQuestion
  <1>5. /\ place'[q] = to /\ place'[q] # Absent
        /\ \A x \in Rows \ {q} : place'[x] = place[x]
    BY <1>2, <1>3 DEF RowsOK, Rows, Absent
  <1>6. RowsOK'
    BY <1>2, <1>3, <1>4, <1>5 DEF RowsOK, Becomes, Places, Rows, fileVars
  <1>7. \A s \in Slots : s[2] \in Questions /\ (Parents(s) => Parents(s)')
                         /\ (s[2] # q => (Parents(s)' => Parents(s)))
    BY <1>3, <1>5 DEF Parents, Slots, Rows, fileVars
  <1>8. AttachedOK'
    BY <1>2, <1>3, <1>5, <1>7 DEF AttachedOK, RowsOK, Rows, fileVars
  <1>9. AnswersListTheirFiles'
    BY <1>3, <1>5, <1>7 DEF AnswersListTheirFiles, RowsOK, Rows, fileVars
  <1>10. ASSUME NEW o \in Requests \ {p} PROVE JobFits(o)'
    <2>1. job'[o] = job[o] /\ JobFits(o) /\ Apart(p, o)
      BY <1>4 DEF Becomes
    <2>2. job[p].kind = "add question" BY DEF InsertQuestion
    <2>3. AddOK(o)'
      <3>1. job[o].kind = "add question" => job[o].row # q /\ job[o].row \in Questions
        BY <1>1, <2>1, <2>2 DEF JobFits, AddOK, Apart
      <3> QED BY <1>3, <1>5, <2>1, <3>1 DEF JobFits, AddOK, Rows, fileVars
    <2>4. UploadOK(o)'
      BY <1>3, <1>7, <2>1 DEF JobFits, UploadOK, fileVars
    <2>5. DeleteOK(o)'
      BY <1>3, <1>7, <2>1 DEF JobFits, DeleteOK, fileVars
    <2> QED BY <2>1, <2>3, <2>4, <2>5 DEF JobFits, KindOK, MoveOK, PointOK, ViewOK
  <1> QED BY <1>4, <1>6, <1>8, <1>9, <1>10, OthersApart DEF Becomes

\* The places of a list in a snapshot are places.
LEMMA SeenPlaces ==
    ASSUME RowsOK PROVE \A q \in Questions : Seen(Questions)[q] \in Places
  BY DEF RowsOK, Seen, Rows

LEMMA MoveSteps ==
    ASSUME ContentInv, NEW p \in Requests,
           \/ UpdateFields(p) \/ CountToMove(p) \/ BeginMove(p) \/ UpdateQuestionOrder(p)
    PROVE  ContentInv'
  <1> USE DEF ContentInv
  <1>1. JobFits(p) /\ IsJob(job[p]) /\ RowsOK
    BY DEF RowsOK, JobsAre
  <1>2. CASE UpdateFields(p)
    <2>1. /\ UNCHANGED <<place, highlight, gone, fileVars, crossed>>
          /\ job[p].kind = "update question" /\ job[p].at = "fields"
          /\ Ends(p) \/ Goes(p, "count")
      BY <1>2 DEF UpdateFields, history
    <2>2. CASE Ends(p)
      BY <2>1, <2>2, Ending, Standing
    <2>3. CASE Goes(p, "count")
      <3>1. PICK j : j = [job[p] EXCEPT !.at = "count"]
        OBVIOUS
      <3>2. /\ IsJob(j) /\ j.kind = "update question" /\ j.row = job[p].row /\ j.new = job[p].new
            /\ j.file = job[p].file /\ j.to = job[p].to /\ j.at = "count"
        BY <1>1, <2>1, <3>1 DEF IsJob
      <3>3. job' = [job EXCEPT ![p] = j]
        BY <2>3, <3>1 DEF Goes
      <3>4. job'[p] = j
        BY <3>3 DEF RowsOK, JobsAre
      <3>5. MoveOK(p)' /\ job'[p].kind = "update question"
        BY <1>1, <2>1, <3>2, <3>4 DEF JobFits, MoveOK
      <3>6. Becomes(p)
        BY <2>1, <3>2, <3>3, <3>5, Advance, Fits
      <3> QED BY <2>1, <3>6, Standing
    <2> QED BY <2>1, <2>2, <2>3
  <1>3. CASE CountToMove(p)
    <2>1. /\ UNCHANGED <<place, highlight, gone, fileVars, crossed>>
          /\ job[p].kind = "update question" /\ job[p].at = "count"
      BY <1>3 DEF CountToMove, questionVars, history
    <2>2. PICK k : k = Within(job[p].to, Count)
      OBVIOUS
    <2>3. k \in Nat
      <3>1. job[p].to \in Int
        BY <1>1, <2>1 DEF JobFits, MoveOK
      <3> QED BY <2>2, <3>1, CountIsNatural DEF Within
    <2>4. PICK j : j = [job[p] EXCEPT !.to = k, !.at = "move"]
      OBVIOUS
    <2>5. /\ IsJob(j) /\ j.kind = "update question" /\ j.row = job[p].row /\ j.new = job[p].new
          /\ j.file = job[p].file /\ j.to = k /\ j.at = "move"
      BY <1>1, <2>1, <2>4 DEF IsJob
    <2>6. job' = [job EXCEPT ![p] = j]
      BY <1>3, <2>2, <2>4 DEF CountToMove, RowsOK, JobsAre
    <2>7. job'[p] = j
      BY <2>6 DEF RowsOK, JobsAre
    <2>8. MoveOK(p)' /\ job'[p].kind = "update question"
      BY <1>1, <2>1, <2>3, <2>5, <2>7 DEF JobFits, MoveOK
    <2>9. Becomes(p)
      BY <2>1, <2>5, <2>6, <2>8, Advance, Fits
    <2> QED BY <2>1, <2>9, Standing
  <1>4. CASE BeginMove(p)
    <2>1. /\ UNCHANGED <<place, highlight, gone, fileVars, crossed>>
          /\ job[p].kind = "update question" /\ job[p].at = "move"
      BY <1>4 DEF BeginMove, questionVars, history
    <2>4. PICK j : j = [job[p] EXCEPT !.snap = Seen(Questions), !.at = "moving"]
      OBVIOUS
    <2>5. /\ IsJob(j) /\ j.kind = "update question" /\ j.row = job[p].row /\ j.new = job[p].new
          /\ j.file = job[p].file /\ j.to = job[p].to /\ j.at = "moving" /\ j.snap = Seen(Questions)
      BY <1>1, <2>1, <2>4 DEF IsJob
    <2>6. job' = [job EXCEPT ![p] = j]
      BY <1>4, <2>4 DEF BeginMove, RowsOK, JobsAre
    <2>7. job'[p] = j
      BY <2>6 DEF RowsOK, JobsAre
    <2>8. MoveOK(p)' /\ job'[p].kind = "update question"
      BY <1>1, <2>1, <2>5, <2>7, SeenPlaces DEF JobFits, MoveOK
    <2>9. Becomes(p)
      BY <2>1, <2>5, <2>6, <2>8, Advance, Fits
    <2> QED BY <2>1, <2>9, Standing
  <1>5. CASE UpdateQuestionOrder(p)
    <2>1. /\ UNCHANGED <<highlight, gone, fileVars, crossed>> /\ Ends(p)
          /\ job[p].kind = "update question" /\ job[p].at = "moving"
          /\ place' = Moved(Questions, job[p].snap, job[p].row, job[p].to)
      BY <1>5 DEF UpdateQuestionOrder, history
    <2>2. /\ job[p].row \in Questions /\ job[p].to \in Nat
          /\ \A q \in Questions : job[p].snap[q] \in Places
      BY <1>1, <2>1 DEF JobFits, MoveOK
    <2>3. PlacesKept
      BY <1>1, <2>1, <2>2, MoveKeeps
    <2>4. Becomes(p)
      BY <2>1, Ending
    <2> QED BY <2>1, <2>3, <2>4, Placing
  <1> QED BY <1>2, <1>3, <1>4, <1>5

\* A question goes with its answers: no upload and no deletion holds one.
LEMMA Removing ==
    ASSUME ContentInv, NEW p \in Requests, DeleteAndReorder(p)
    PROVE  ContentInv'
  <1> USE DEF ContentInv
  <1>1. PICK q : q = job[p].row
    OBVIOUS
  <1>2. q \in Questions
    BY <1>1 DEF DeleteAndReorder, JobFits, PointOK
  <1>3. /\ \A s \in Responses \X {q} : SlotFree(s)
        /\ place' = IF place[q] = Absent THEN place
                    ELSE [Shifted(Questions, job[p].snap, place[q], -1) EXCEPT ![q] = Absent]
        /\ gone' = gone \union {q}
        /\ answered' = answered \ (Responses \X {q})
        /\ list' = [s \in Slots |-> IF s \in Responses \X {q} THEN {} ELSE list[s]]
        /\ highlight' = IF highlight = q THEN NoRow ELSE highlight
        /\ UNCHANGED <<responses, attached, files, crossed>>
    BY <1>1 DEF DeleteAndReorder, history
  <1>4. Becomes(p)
    BY Ending DEF DeleteAndReorder
  <1>5. \A s \in Slots : s[2] \in Questions /\ (s \in Responses \X {q} <=> s[2] = q)
    BY DEF Slots
  <1>6. /\ place' = [x \in Rows |-> place'[x]]
        /\ place'[q] = Absent
        /\ \A x \in Questions \ {q} : place'[x] \in Places
                                      /\ (place'[x] = Absent <=> place[x] = Absent)
    <2>1. CASE place[q] = Absent
      BY <1>3, <2>1 DEF RowsOK
    <2>2. CASE place[q] # Absent
      <3>1. place[q] \in Nat
        BY <1>2, <2>2 DEF RowsOK, Places
      <3>2. place' = [Shifted(Questions, job[p].snap, place[q], -1) EXCEPT ![q] = Absent]
        BY <1>3, <2>2
      <3>3. ASSUME NEW x \in Questions \ {q}
            PROVE  place'[x] \in Places /\ (place'[x] = Absent <=> place[x] = Absent)
        <4>1. place'[x] = Shifted(Questions, job[p].snap, place[q], -1)[x]
          BY <3>2 DEF Shifted, Rows
        <4>2. place[x] \in Places
          BY DEF RowsOK
        <4> QED BY <3>1, <4>1, <4>2 DEF Shifted, Rows, Places, Absent
      <3>4. place' = [x \in Rows |-> place'[x]]
        BY <3>2 DEF Shifted
      <3>5. place'[q] = Absent
        BY <1>2, <3>2 DEF Shifted, Rows
      <3> QED BY <3>3, <3>4, <3>5
    <2> QED BY <2>1, <2>2
  <1>7. RowsOK'
    <2>1. list' \in [Slots -> SUBSET Files] /\ answered' \subseteq Slots
      BY <1>3 DEF RowsOK
    <2>2. \A x \in Questions : place'[x] \in Places
      BY <1>6 DEF Places
    <2> QED BY <1>3, <1>4, <1>6, <2>1, <2>2 DEF RowsOK, Becomes
  <1>8. \A s \in Slots : Parents(s)' <=> Parents(s) /\ s[2] # q
    BY <1>3, <1>5, <1>6 DEF Parents
  <1>9. AttachedOK'
    <2> SUFFICES ASSUME NEW f \in Files, attached[f] # NoSlot
                 PROVE  /\ Parents(attached[f])' => attached[f] \in answered'
                        /\ place'[attached[f][2]] # Absent \/ attached[f][2] \in gone'
      BY <1>3 DEF AttachedOK
    <2>1. attached[f] \in Slots
      BY DEF RowsOK
    <2> QED BY <1>3, <1>5, <1>6, <1>8, <2>1 DEF AttachedOK
  <1>10. AnswersListTheirFiles'
    <2>1. \A s \in answered' : s \in answered /\ s \in Slots /\ s[2] # q
      BY <1>3, <1>5 DEF RowsOK
    <2>2. \A s \in answered' \ crossed : list'[s] = {f \in files : attached[f] = s}
      BY <1>3, <1>5, <2>1 DEF AnswersListTheirFiles
    <2>3. highlight' # NoRow => place'[highlight'] # Absent
      BY <1>3, <1>6 DEF AnswersListTheirFiles, RowsOK
    <2>4. \A s \in answered' : Parents(s)'
      BY <1>8, <2>1 DEF AnswersListTheirFiles
    <2> QED BY <1>3, <2>2, <2>3, <2>4 DEF AnswersListTheirFiles
  <1>11. ASSUME NEW o \in Requests \ {p} PROVE JobFits(o)'
    <2>1. job'[o] = job[o] /\ JobFits(o)
      BY <1>4 DEF Becomes
    <2>2. AddOK(o)'
      BY <1>3, <1>6, <2>1 DEF JobFits, AddOK
    <2>3. job[o].slot \in Slots /\ HoldsSlot(o, job[o].slot) => job[o].slot[2] # q
      BY <1>3, <1>5 DEF SlotFree
    <2>4. UploadOK(o)'
      BY <1>3, <1>8, <2>1, <2>3 DEF JobFits, UploadOK, HoldsSlot
    <2>5. DeleteOK(o)'
      BY <1>3, <1>8, <2>1, <2>3 DEF JobFits, DeleteOK, HoldsSlot
    <2> QED BY <2>1, <2>2, <2>4, <2>5 DEF JobFits, KindOK, MoveOK, PointOK, ViewOK
  <1> QED BY <1>4, <1>7, <1>9, <1>10, <1>11, OthersApart DEF Becomes

LEMMA PointSteps ==
    ASSUME ContentInv, NEW p \in Requests,
           BeginRemove(p) \/ ReadToHighlight(p) \/ SetHighlight(p) \/ ClearHighlight(p)
    PROVE  ContentInv'
  <1> USE DEF ContentInv
  <1>1. JobFits(p) /\ IsJob(job[p]) /\ RowsOK
    BY DEF RowsOK, JobsAre
  <1>2. ASSUME NEW j, IsJob(j), job' = [job EXCEPT ![p] = j], j.kind = job[p].kind,
               j.kind \in {"remove question", "highlight", "clear"},
               j.row = job[p].row, j.new = job[p].new, j.file = job[p].file
        PROVE  Becomes(p)
    <2>1. job'[p] = j
      BY <1>2 DEF RowsOK, JobsAre
    <2>2. PointOK(p)' /\ job'[p].kind \in {"remove question", "highlight", "clear"}
      BY <1>1, <1>2, <2>1 DEF JobFits, PointOK
    <2> QED BY <1>2, <2>2, Advance, Fits
  <1>3. CASE BeginRemove(p)
    <2>1. PICK j : j = [job[p] EXCEPT !.snap = Seen(Questions), !.at = "removing"]
      OBVIOUS
    <2>2. /\ IsJob(j) /\ j.kind = job[p].kind /\ j.row = job[p].row /\ j.new = job[p].new
          /\ j.file = job[p].file
      BY <1>1, <2>1 DEF IsJob
    <2>3. job' = [job EXCEPT ![p] = j]
      BY <1>3, <2>1 DEF BeginRemove, RowsOK, JobsAre
    <2>4. /\ UNCHANGED <<place, highlight, gone, fileVars, crossed>>
          /\ job[p].kind = "remove question"
      BY <1>3 DEF BeginRemove, questionVars, history
    <2> QED BY <1>2, <2>2, <2>3, <2>4, Standing
  <1>4. CASE ReadToHighlight(p)
    <2>1. PICK j : j = [job[p] EXCEPT !.at = "set"]
      OBVIOUS
    <2>2. /\ IsJob(j) /\ j.kind = job[p].kind /\ j.row = job[p].row /\ j.new = job[p].new
          /\ j.file = job[p].file
      BY <1>1, <2>1 DEF IsJob
    <2>3. Ends(p) \/ job' = [job EXCEPT ![p] = j]
      BY <1>4, <2>1 DEF ReadToHighlight, Goes, RowsOK, JobsAre
    <2>4. /\ UNCHANGED <<place, highlight, gone, fileVars, crossed>>
          /\ job[p].kind = "highlight"
      BY <1>4 DEF ReadToHighlight, questionVars, history
    <2>5. Becomes(p)
      BY <1>2, <2>2, <2>3, <2>4, Ending
    <2> QED BY <2>4, <2>5, Standing
  <1>5. CASE SetHighlight(p) \/ ClearHighlight(p)
    <2>1. UNCHANGED <<place, gone, fileVars, crossed>> /\ Ends(p)
      BY <1>5 DEF SetHighlight, ClearHighlight, history
    <2>2. PlacesKept
      BY <2>1 DEF PlacesKept, RowsOK
    <2>3. /\ highlight' \in Questions \union {NoRow}
          /\ highlight' # NoRow => place[highlight'] # Absent
      BY <1>1, <1>5 DEF SetHighlight, ClearHighlight, JobFits, PointOK, RowsOK, AnswersListTheirFiles
    <2>4. Quiet(p)
      BY <2>1, <2>2, <2>3, Ending DEF Quiet
    <2> QED BY <2>4, QuietKeeps
  <1> QED BY <1>3, <1>4, <1>5

-----------------------------------------------------------------------------
(* Requests about views.                                                   *)

ViewKinds == {"create view", "update view", "duplicate view", "delete view"}

\* The request goes on with the view it is about.
Continues(p) ==
    \E j : /\ IsJob(j) /\ job' = [job EXCEPT ![p] = j]
           /\ j.kind = job[p].kind /\ j.row = job[p].row /\ j.copy = job[p].copy
           /\ j.new = job[p].new /\ j.file = job[p].file

LEMMA ContinuesTo ==
    ASSUME ContentInv, NEW p \in Requests, NEW j, IsJob(j), job' = [job EXCEPT ![p] = j],
           j.kind = job[p].kind, j.row = job[p].row, j.copy = job[p].copy,
           j.new = job[p].new, j.file = job[p].file
    PROVE  Continues(p)
  BY DEF Continues

LEMMA ContinuesOn ==
    ASSUME ContentInv, NEW p \in Requests, job[p].kind \in ViewKinds,
           Ends(p) \/ Continues(p)
    PROVE  Becomes(p)
  <1>1. CASE Ends(p)
    BY <1>1, Ending
  <1>2. CASE Continues(p)
    <2>1. PICK j : /\ IsJob(j) /\ job' = [job EXCEPT ![p] = j]
                   /\ j.kind = job[p].kind /\ j.row = job[p].row /\ j.copy = job[p].copy
                   /\ j.new = job[p].new /\ j.file = job[p].file
      BY <1>2 DEF Continues
    <2>2. job'[p] = j /\ JobFits(p)
      BY <2>1 DEF ContentInv, RowsOK, JobsAre
    <2>3. ViewOK(p)' /\ job'[p].kind \in ViewKinds
      BY <2>1, <2>2 DEF JobFits, ViewOK, ViewKinds
    <2> QED BY <2>1, <2>3, Advance, Fits DEF ViewKinds
  <1> QED BY <1>1, <1>2

\* A step to another statement, or to the end.
LEMMA ViewGoes ==
    ASSUME ContentInv, NEW p \in Requests, NEW at, Goes(p, at)
    PROVE  Continues(p)
  <1>1. IsJob(job[p]) /\ job = [o \in Requests |-> job[o]]
    BY DEF ContentInv, RowsOK, JobsAre
  <1>2. PICK j : j = [job[p] EXCEPT !.at = at]
    OBVIOUS
  <1>3. /\ IsJob(j) /\ j.kind = job[p].kind /\ j.row = job[p].row /\ j.copy = job[p].copy
        /\ j.new = job[p].new /\ j.file = job[p].file
    BY <1>1, <1>2 DEF IsJob
  <1>4. job' = [job EXCEPT ![p] = j]
    BY <1>2 DEF Goes
  <1> QED BY <1>3, <1>4, ContinuesTo

\* A step that keeps what it read.
LEMMA ViewKeeps ==
    ASSUME ContentInv, NEW p \in Requests, NEW to, NEW t, NEW snap, NEW at,
           \/ job' = [job EXCEPT ![p].to = to, ![p].at = at]
           \/ job' = [job EXCEPT ![p].title = t, ![p].at = at]
           \/ job' = [job EXCEPT ![p].to = to, ![p].title = t, ![p].at = at]
           \/ job' = [job EXCEPT ![p].snap = snap, ![p].at = at]
    PROVE  Continues(p)
  <1>1. IsJob(job[p]) /\ job = [o \in Requests |-> job[o]]
    BY DEF ContentInv, RowsOK, JobsAre
  <1>2. PICK j : job' = [job EXCEPT ![p] = j]
                 /\ \/ j = [job[p] EXCEPT !.to = to, !.at = at]
                    \/ j = [job[p] EXCEPT !.title = t, !.at = at]
                    \/ j = [job[p] EXCEPT !.to = to, !.title = t, !.at = at]
                    \/ j = [job[p] EXCEPT !.snap = snap, !.at = at]
    BY <1>1
  <1>3. /\ IsJob(j) /\ j.kind = job[p].kind /\ j.row = job[p].row /\ j.copy = job[p].copy
        /\ j.new = job[p].new /\ j.file = job[p].file
    BY <1>1, <1>2 DEF IsJob
  <1> QED BY <1>2, <1>3, ContinuesTo

\* A step that writes no place ends or goes on.
LEMMA ViewContinues ==
    ASSUME ContentInv, NEW p \in Requests,
           \/ ReadTitles(p) \/ ReadMaxOrder(p) \/ GetView(p) \/ UpdateTitle(p) \/ ReadMaxToMove(p)
           \/ BeginViewMove(p) \/ GetOriginal(p) \/ TitleCopy(p) \/ BeginViewShift(p)
           \/ DeleteIfUnlocked(p)
    PROVE  Ends(p) \/ Continues(p)
  <1>1. CASE ReadTitles(p)
    BY <1>1, ViewKeeps DEF ReadTitles
  <1>2. CASE ReadMaxOrder(p)
    BY <1>2, ViewKeeps DEF ReadMaxOrder
  <1>3. CASE GetView(p)
    BY <1>3, ViewGoes DEF GetView, MovesOrEnds
  <1>4. CASE UpdateTitle(p)
    BY <1>4, ViewGoes DEF UpdateTitle, MovesOrEnds
  <1>5. CASE ReadMaxToMove(p)
    BY <1>5, ViewKeeps DEF ReadMaxToMove
  <1>6. CASE BeginViewMove(p)
    BY <1>6, ViewKeeps DEF BeginViewMove
  <1>7. CASE GetOriginal(p)
    <2>1. Ends(p) \/ job' = [job EXCEPT ![p].to = place[job[p].row],
                                        ![p].title = title[job[p].row], ![p].at = "titles"]
      BY <1>7 DEF GetOriginal
    <2>2. PICK to, t : to = place[job[p].row] /\ t = title[job[p].row]
      OBVIOUS
    <2>3. Ends(p) \/ job' = [job EXCEPT ![p].to = to, ![p].title = t, ![p].at = "titles"]
      BY <2>1, <2>2
    <2>4. CASE job' = [job EXCEPT ![p].to = to, ![p].title = t, ![p].at = "titles"]
      BY <2>4, ViewKeeps
    <2> QED BY <2>3, <2>4
  <1>8. CASE TitleCopy(p)
    BY <1>8, ViewKeeps DEF TitleCopy
  <1>9. CASE DeleteIfUnlocked(p)
    BY <1>9, ViewGoes DEF DeleteIfUnlocked
  <1>10. CASE BeginViewShift(p)
    BY <1>10, ViewKeeps DEF BeginViewShift
  <1> QED BY <1>1, <1>2, <1>3, <1>4, <1>5, <1>6, <1>7, <1>8, <1>9, <1>10

LEMMA ViewReads ==
    ASSUME ContentInv, NEW p \in Requests,
           \/ ReadTitles(p) \/ ReadMaxOrder(p) \/ GetView(p) \/ UpdateTitle(p) \/ ReadMaxToMove(p)
           \/ BeginViewMove(p) \/ GetOriginal(p) \/ TitleCopy(p) \/ BeginViewShift(p)
           \/ DeleteIfUnlocked(p)
    PROVE  ContentInv'
  <1>1. /\ UNCHANGED <<place, highlight, gone, fileVars, crossed>>
        /\ job[p].kind \in ViewKinds
    BY DEF ReadTitles, ReadMaxOrder, GetView, UpdateTitle, ReadMaxToMove, BeginViewMove, GetOriginal,
           TitleCopy, BeginViewShift, DeleteIfUnlocked, ViewKinds, questionVars, history
  <1>2. Ends(p) \/ Continues(p)
    BY ViewContinues
  <1> QED BY <1>1, <1>2, ContinuesOn, Standing

\* Statements that write views leave the places of questions alone.
LEMMA ViewWrites ==
    ASSUME ContentInv, NEW p \in Requests,
           InsertView(p) \/ UpdateViewOrder(p) \/ Duplicate(p) \/ DeleteView(p)
    PROVE  ContentInv'
  <1> USE DEF ContentInv
  <1>1. /\ UNCHANGED <<highlight, fileVars, crossed>> /\ gone \subseteq gone' /\ Ends(p)
        /\ job[p].kind \in ViewKinds
    BY DEF InsertView, UpdateViewOrder, Duplicate, DeleteView, ViewKinds, history
  <1>2. job[p].row \in Views /\ (job[p].kind = "duplicate view" => job[p].copy \in Views)
    BY <1>1 DEF JobFits, ViewOK, ViewKinds
  <1>3. RowsOK /\ \A q \in Questions : q \notin Views
    BY ContentAssumption
  <1>4. PlacesKept
    <2>1. CASE InsertView(p)
      <3>1. place' = place \/ place' = [place EXCEPT ![job[p].row] = job[p].to]
        BY <2>1 DEF InsertView
      <3>2. /\ place' = [x \in Rows |-> place'[x]]
            /\ \A q \in Questions : place'[q] = place[q]
        BY <1>2, <1>3, <3>1 DEF RowsOK, Rows
      <3> QED BY <1>3, <3>2, ViewsKeep
    <2>2. CASE UpdateViewOrder(p)
      <3>1. place' = Moved(Views, job[p].snap, job[p].row, job[p].to)
        BY <2>2 DEF UpdateViewOrder
      <3> QED BY <1>3, <3>1, ViewsKeep DEF Moved, Rows
    <2>3. CASE Duplicate(p)
      <3>1. \/ place' = place
            \/ place' = [Shifted(Views, job[p].snap, job[p].to, 1)
                           EXCEPT ![job[p].copy] = job[p].to + 1]
        BY <2>3 DEF Duplicate
      <3>2. job[p].copy \in Views
        BY <1>2, <2>3 DEF Duplicate
      <3> QED BY <1>3, <3>1, <3>2, ViewsKeep DEF Shifted, Rows, RowsOK
    <2>4. CASE DeleteView(p)
      <3>1. place' = [Shifted(Views, job[p].snap, place[job[p].row], -1)
                           EXCEPT ![job[p].row] = Absent]
        BY <2>4 DEF DeleteView
      <3> QED BY <1>2, <1>3, <3>1, ViewsKeep DEF Shifted, Rows
    <2> QED BY <2>1, <2>2, <2>3, <2>4
  <1> QED BY <1>1, <1>4, Ending, Placing

-----------------------------------------------------------------------------
(* Requests that write no row yet, and those that are cut off.             *)

\* A new request differs from all that are there.
LEMMA Arriving ==
    ASSUME ContentInv, NEW p \in Requests, NEW j, IsJob(j), job' = [job EXCEPT ![p] = j],
           Idle(p), UNCHANGED <<place, highlight, gone, fileVars, crossed>>, JobFits(p)',
           j.kind = "delete file" => j.at = "lock",
           \A o \in Requests \ {p} :
              /\ j.new \intersect job[o].new = {}
              /\ j.kind = "add question" /\ job[o].kind = "add question" => j.row # job[o].row
    PROVE  ContentInv'
  <1>1. JobsAre' /\ job'[p] = j /\ \A o \in Requests \ {p} : job'[o] = job[o]
    BY DEF ContentInv, RowsOK, JobsAre
  <1>2. ASSUME NEW o \in Requests \ {p} PROVE Apart(p, o)' /\ Apart(o, p)'
    BY <1>1 DEF Apart, HoldsFile
  <1>3. Becomes(p)
    BY <1>1, <1>2 DEF Becomes
  <1> QED BY <1>3, Standing

LEMMA Arrivals ==
    ASSUME ContentInv, NEW p \in Requests,
           ArriveQuestion(p) \/ ArriveHighlight(p) \/ ArriveView(p) \/ ArriveUpload(p) \/ ArriveDelete(p)
    PROVE  ContentInv'
  <1> USE DEF ContentInv
  <1>1. /\ UNCHANGED <<place, highlight, gone, fileVars, crossed>> /\ Idle(p)
        /\ RowsOK /\ JobsAre
    BY DEF ArriveQuestion, ArriveHighlight, ArriveView, ArriveUpload, ArriveDelete, questionVars, history,
           RowsOK
  <1>2. ASSUME NEW j, job' = [job EXCEPT ![p] = j] PROVE job'[p] = j
    BY <1>1, <1>2 DEF JobsAre
  <1>3. CASE ArriveQuestion(p)
    <2> PICK q \in Questions, k \in Wanted, t \in Types :
         \E kind \in Kinds(Questions) :
           /\ kind = "add question" => Fresh(q)
           /\ kind # "add question" => place[q] # Absent
           /\ kind = "remove question" => k = 1 /\ t = type[q]
           /\ job' = [job EXCEPT ![p] = [NoJob EXCEPT
                        !.kind = kind, !.row = q, !.to = k, !.type = t,
                        !.at = CASE kind = "add question" -> "count"
                                 [] kind = "update question" -> "fields"
                                 [] OTHER -> "remove"]]
      BY <1>3 DEF ArriveQuestion
    <2>0. PICK kind \in Kinds(Questions) :
            /\ kind = "add question" => Fresh(q)
            /\ job' = [job EXCEPT ![p] = [NoJob EXCEPT
                         !.kind = kind, !.row = q, !.to = k, !.type = t,
                         !.at = CASE kind = "add question" -> "count"
                                  [] kind = "update question" -> "fields"
                                  [] OTHER -> "remove"]]
      OBVIOUS
    <2>1. PICK at : /\ kind = "add question" => Fresh(q) /\ at = "count"
                    /\ kind = "update question" => at = "fields"
                    /\ job' = [job EXCEPT ![p] = [NoJob EXCEPT
                                 !.kind = kind, !.row = q, !.to = k, !.type = t, !.at = at]]
      BY <2>0
    <2>2. PICK j : j = [NoJob EXCEPT !.kind = kind, !.row = q, !.to = k, !.type = t, !.at = at]
      OBVIOUS
    <2>3. /\ IsJob(j) /\ j.kind = kind /\ j.row = q /\ j.to = k /\ j.at = at /\ j.new = {}
      BY <2>2 DEF IsJob, NoJob
    <2>4. job' = [job EXCEPT ![p] = j] /\ job'[p] = j
      BY <1>2, <2>1, <2>2
    <2>5. kind \in {"add question", "update question", "remove question"} /\ k \in Int
      BY ContentAssumption DEF Kinds
    <2>6. JobFits(p)'
      <3>1. CASE kind = "add question"
        <4>1. /\ place[q] = Absent /\ q \notin gone
              /\ \A f \in Files : attached[f] # NoSlot => attached[f][2] # q
          BY <2>1, <3>1 DEF Fresh, AttachedOK
        <4>2. AddOK(p)' /\ job'[p].kind = "add question"
          BY <1>1, <2>1, <2>3, <2>4, <2>5, <3>1, <4>1 DEF AddOK, fileVars
        <4> QED BY <4>2, Fits
      <3>2. CASE kind = "update question"
        <4>2. MoveOK(p)' /\ job'[p].kind = "update question"
          BY <2>1, <2>3, <2>4, <2>5, <3>2 DEF MoveOK
        <4> QED BY <4>2, Fits
      <3>3. CASE kind = "remove question"
        <4>2. PointOK(p)' /\ job'[p].kind = "remove question"
          BY <2>3, <2>4, <3>3 DEF PointOK
        <4> QED BY <4>2, Fits
      <3> QED BY <2>5, <3>1, <3>2, <3>3
    <2>7. ASSUME NEW o \in Requests \ {p}
          PROVE  j.kind = "add question" /\ job[o].kind = "add question" => j.row # job[o].row
      BY <2>1, <2>3 DEF Fresh
    <2> QED BY <1>1, <2>3, <2>4, <2>5, <2>6, <2>7, Arriving
  <1>4. CASE ArriveHighlight(p)
    <2>1. PICK q \in Questions, at \in {"read", "set"}, kind \in {"highlight", "clear"} :
            job' = [job EXCEPT ![p] = [NoJob EXCEPT !.kind = kind, !.row = q, !.at = at]]
      BY <1>4 DEF ArriveHighlight, There
    <2>2. PICK j : j = [NoJob EXCEPT !.kind = kind, !.row = q, !.at = at]
      OBVIOUS
    <2>3. /\ IsJob(j) /\ j.kind = kind /\ j.row = q /\ j.new = {}
      BY <2>2 DEF IsJob, NoJob
    <2>4. job' = [job EXCEPT ![p] = j] /\ job'[p] = j
      BY <1>2, <2>1, <2>2
    <2>5. PointOK(p)' /\ job'[p].kind \in {"remove question", "highlight", "clear"}
      BY <2>3, <2>4 DEF PointOK
    <2> QED BY <1>1, <2>3, <2>4, <2>5, Fits, Arriving
  <1>5. CASE ArriveView(p)
    <2> PICK v \in Views, copy \in Views \union {NoRow}, k \in Wanted \union {Absent},
             t \in Names \union {<<>>} :
         \E kind \in Kinds(Views) :
           /\ kind = "update view" => place[v] # Absent
           /\ kind # "update view" => k = Absent /\ t = <<>>
           /\ kind = "create view" => Fresh(v)
           /\ IF kind = "duplicate view" THEN copy \in Views /\ Fresh(copy) ELSE copy = NoRow
           /\ kind \in {"delete view", "duplicate view"} => place[v] # Absent
           /\ job' = [job EXCEPT ![p] = [NoJob EXCEPT
                        !.kind = kind, !.row = v, !.copy = copy, !.to = k, !.title = t,
                        !.at = CASE kind = "create view" -> "titles"
                                 [] kind = "delete view" -> "remove"
                                 [] OTHER -> "get"]]
      BY <1>5 DEF ArriveView
    <2>0. PICK kind \in Kinds(Views) :
            /\ kind = "duplicate view" => copy \in Views
            /\ job' = [job EXCEPT ![p] = [NoJob EXCEPT
                         !.kind = kind, !.row = v, !.copy = copy, !.to = k, !.title = t,
                         !.at = CASE kind = "create view" -> "titles"
                                  [] kind = "delete view" -> "remove"
                                  [] OTHER -> "get"]]
      OBVIOUS
    <2>1. PICK at : job' = [job EXCEPT ![p] = [NoJob EXCEPT
                         !.kind = kind, !.row = v, !.copy = copy, !.to = k, !.title = t, !.at = at]]
      BY <2>0
    <2>2. PICK j : j = [NoJob EXCEPT !.kind = kind, !.row = v, !.copy = copy, !.to = k, !.title = t,
                                     !.at = at]
      OBVIOUS
    <2>3. /\ IsJob(j) /\ j.kind = kind /\ j.row = v /\ j.copy = copy /\ j.new = {}
      BY <2>2 DEF IsJob, NoJob
    <2>4. job' = [job EXCEPT ![p] = j] /\ job'[p] = j
      BY <1>2, <2>1, <2>2
    <2>5. kind \in ViewKinds
      BY ContentAssumption DEF Kinds, ViewKinds
    <2>6. ViewOK(p)' /\ job'[p].kind \in ViewKinds
      BY <2>0, <2>3, <2>4, <2>5 DEF ViewOK, ViewKinds
    <2> QED BY <1>1, <2>3, <2>4, <2>5, <2>6, Fits, Arriving DEF ViewKinds
  <1>6. CASE ArriveUpload(p)
    <2>1. PICK s \in Slots, new \in SUBSET Files :
            /\ new \intersect (files \union gone) = {}
            /\ \A other \in Requests : job[other].new \intersect new = {}
            /\ job' = [job EXCEPT ![p] = [NoJob EXCEPT
                         !.kind = "upload files", !.at = "check", !.slot = s, !.new = new]]
      BY <1>6 DEF ArriveUpload
    <2>2. PICK j : j = [NoJob EXCEPT !.kind = "upload files", !.at = "check", !.slot = s, !.new = new]
      OBVIOUS
    <2>3. IsJob(j) /\ j.kind = "upload files" /\ j.at = "check" /\ j.slot = s /\ j.new = new
      BY <2>2 DEF IsJob, NoJob
    <2>4. job' = [job EXCEPT ![p] = j] /\ job'[p] = j
      BY <1>2, <2>1, <2>2
    <2>5. UploadOK(p)' /\ job'[p].kind = "upload files"
      BY <1>1, <2>1, <2>3, <2>4 DEF UploadOK, fileVars
    <2> QED BY <1>1, <2>1, <2>3, <2>4, <2>5, Fits, Arriving
  <1>7. CASE ArriveDelete(p)
    <2>1. PICK f \in files :
            job' = [job EXCEPT ![p] = [NoJob EXCEPT !.kind = "delete file", !.at = "lock", !.file = f]]
      BY <1>7 DEF ArriveDelete
    <2>2. PICK j : j = [NoJob EXCEPT !.kind = "delete file", !.at = "lock", !.file = f]
      OBVIOUS
    <2>3. /\ IsJob(j) /\ j.kind = "delete file" /\ j.at = "lock" /\ j.file = f /\ j.new = {}
          /\ ~j.writes
      BY <2>2 DEF IsJob, NoJob
    <2>4. job' = [job EXCEPT ![p] = j] /\ job'[p] = j
      BY <1>2, <2>1, <2>2
    <2>5. DeleteOK(p)' /\ job'[p].kind = "delete file"
      BY <1>1, <2>3, <2>4 DEF DeleteOK, RowsOK
    <2> QED BY <1>1, <2>3, <2>4, <2>5, Fits, Arriving
  <1> QED BY <1>3, <1>4, <1>5, <1>6, <1>7

\* What an upload reads before it writes, and the lock it takes.
LEMMA UploadReads ==
    ASSUME ContentInv, NEW p \in Requests,
           CheckType(p) \/ LoadPrevious(p) \/ UpsertList(p)
    PROVE  ContentInv'
  <1> USE DEF ContentInv
  <1>1. /\ UNCHANGED <<place, highlight, gone, fileVars, crossed>>
        /\ job[p].kind = "upload files" /\ job[p].at # "attach"
    BY DEF CheckType, LoadPrevious, UpsertList, questionVars, history
  <1>2. JobFits(p) /\ UploadOK(p) /\ IsJob(job[p]) /\ RowsOK /\ JobsAre
    BY DEF RowsOK, JobsAre, JobFits
  <1>3. ASSUME NEW j, IsJob(j), job' = [job EXCEPT ![p] = j], j.kind = "upload files",
               j.row = job[p].row, j.new = job[p].new, j.file = job[p].file, j.slot = job[p].slot,
               j.at \in {"upsert", "attach"} => j.list \subseteq Files,
               j.at = "attach" => Parents(job[p].slot)
        PROVE  Becomes(p)
    <2>1. job'[p] = j
      BY <1>2, <1>3 DEF JobsAre
    <2>2. Parents(j.slot)' <=> Parents(j.slot)
      BY <1>1 DEF Parents, fileVars
    <2>3. UploadOK(p)' /\ job'[p].kind = "upload files"
      BY <1>1, <1>2, <1>3, <2>1, <2>2 DEF UploadOK, fileVars
    <2> QED BY <1>1, <1>3, <2>3, Advance, Fits
  <1>4. CASE Ends(p)
    BY <1>1, <1>4, Ending, Standing
  <1>5. CASE ~Ends(p) /\ CheckType(p)
    <2>1. PICK j : j = [job[p] EXCEPT !.at = "load"]
      OBVIOUS
    <2>2. /\ IsJob(j) /\ j.kind = "upload files" /\ j.row = job[p].row /\ j.new = job[p].new
          /\ j.file = job[p].file /\ j.slot = job[p].slot /\ j.at = "load"
      BY <1>1, <1>2, <2>1 DEF IsJob
    <2>3. job' = [job EXCEPT ![p] = j]
      BY <1>5, <2>1 DEF CheckType, Goes
    <2>4. Becomes(p)
      BY <1>3, <2>2, <2>3
    <2> QED BY <1>1, <2>4, Standing
  <1>6. CASE ~Ends(p) /\ LoadPrevious(p)
    <2>1. PICK j : j = [job[p] EXCEPT !.list = Listed(job[p].slot), !.at = "upsert"]
      OBVIOUS
    <2>2. /\ IsJob(j) /\ j.kind = "upload files" /\ j.row = job[p].row /\ j.new = job[p].new
          /\ j.file = job[p].file /\ j.slot = job[p].slot /\ j.at = "upsert"
          /\ j.list = Listed(job[p].slot)
      BY <1>1, <1>2, <2>1 DEF IsJob
    <2>3. job' = [job EXCEPT ![p] = j]
      BY <1>2, <1>6, <2>1 DEF LoadPrevious, JobsAre
    <2>4. Listed(job[p].slot) \subseteq Files
      BY <1>1, <1>2 DEF Listed, RowsOK, UploadOK
    <2>5. Becomes(p)
      BY <1>3, <2>2, <2>3, <2>4
    <2> QED BY <1>1, <2>5, Standing
  <1>7. CASE ~Ends(p) /\ UpsertList(p)
    <2>1. PICK j : j = [job[p] EXCEPT !.at = "attach"]
      OBVIOUS
    <2>2. /\ IsJob(j) /\ j.kind = "upload files" /\ j.row = job[p].row /\ j.new = job[p].new
          /\ j.file = job[p].file /\ j.slot = job[p].slot /\ j.at = "attach" /\ j.list = job[p].list
      BY <1>1, <1>2, <2>1 DEF IsJob
    <2>3. job' = [job EXCEPT ![p] = j] /\ Parents(job[p].slot)
      BY <1>7, <2>1 DEF UpsertList, Goes
    <2>4. job[p].list \subseteq Files
      BY <1>1, <1>2, <1>7 DEF UpsertList, UploadOK
    <2>5. Becomes(p)
      BY <1>3, <2>2, <2>3, <2>4
    <2> QED BY <1>1, <2>5, Standing
  <1> QED BY <1>4, <1>5, <1>6, <1>7

LEMMA DeleteReads ==
    ASSUME ContentInv, NEW p \in Requests, FindReference(p) \/ PutShorterList(p)
    PROVE  ContentInv'
  <1> USE DEF ContentInv
  <1>1. /\ UNCHANGED <<place, highlight, gone, fileVars, crossed>>
        /\ job[p].kind = "delete file" /\ job[p].at \in {"find", "put"}
    BY DEF FindReference, PutShorterList, questionVars, history
  <1>2. JobFits(p) /\ DeleteOK(p) /\ IsJob(job[p]) /\ RowsOK /\ JobsAre
    BY DEF RowsOK, JobsAre, JobFits
  <1>3. /\ job[p].slot \in Slots /\ job[p].file \in files /\ job[p].new = {}
        /\ job[p].slot = attached[job[p].file] /\ ~job[p].writes
        /\ job[p].file \in Files
    BY <1>1, <1>2 DEF DeleteOK
  <1>4. ASSUME NEW j, IsJob(j), job' = [job EXCEPT ![p] = j], j.kind = "delete file",
               j.row = job[p].row, j.new = job[p].new, j.file = job[p].file, j.slot = job[p].slot,
               \/ j.at = "put" /\ ~j.writes /\ j.list \subseteq Files /\ j.file \in j.list
               \/ j.at = "erase" /\ ~j.writes /\ j.slot \in crossed
               \/ /\ j.at = "erase" /\ j.writes /\ Parents(job[p].slot)
                  /\ j.list \subseteq Files /\ j.file \in j.list
        PROVE  Becomes(p)
    <2>1. job'[p] = j
      BY <1>2, <1>4 DEF JobsAre
    <2>2. Parents(j.slot)' <=> Parents(j.slot)
      BY <1>1 DEF Parents, fileVars
    <2>3. DeleteOK(p)' /\ job'[p].kind = "delete file"
      <3>1. /\ j.file \in Files /\ j.file \in files' /\ j.slot = attached'[j.file]
            /\ j.slot \in Slots /\ j.new = {} /\ crossed' = crossed
        BY <1>1, <1>3, <1>4 DEF fileVars
      <3>2. Parents(j.slot)' <=> Parents(job[p].slot)
        BY <1>4, <2>2
      <3>3. CASE j.at = "put"
        BY <1>4, <2>1, <3>1, <3>3 DEF DeleteOK
      <3>4. CASE j.at = "erase" /\ ~j.writes /\ j.slot \in crossed
        <4>1. job'[p].slot \in crossed'
          BY <2>1, <3>1, <3>4
        <4>2. ~job'[p].writes
          BY <2>1, <3>4
        <4>3. job'[p].at = "erase"
          BY <2>1, <3>4
        <4>4. job'[p].file = j.file /\ job'[p].slot = j.slot /\ job'[p].new = {}
          BY <2>1, <3>1
        <4>5. job'[p].kind = "delete file"
          BY <1>4, <2>1
        <4> QED BY <3>1, <4>1, <4>2, <4>3, <4>4, <4>5 DEF DeleteOK
      <3>5. CASE j.at = "erase" /\ j.writes
        <4>1. Parents(j.slot)' /\ j.list \subseteq Files /\ j.file \in j.list
          BY <1>4, <3>2, <3>5
        <4> QED BY <1>4, <2>1, <3>1, <3>5, <4>1 DEF DeleteOK
      <3> QED BY <1>4, <3>3, <3>4, <3>5
    <2> QED BY <1>1, <1>4, <2>3, Advance, Fits
  <1>5. CASE Ends(p)
    BY <1>1, <1>5, Ending, Standing
  <1>6. CASE ~Ends(p) /\ FindReference(p)
    <2>1. PICK s, f : s = job[p].slot /\ f = job[p].file
      OBVIOUS
    <2>2. s \in answered
      BY <1>6, <2>1 DEF FindReference
    <2>3. PICK j : j = [job[p] EXCEPT !.list = list[s], !.at = IF f \in list[s] THEN "put" ELSE "erase"]
      OBVIOUS
    <2>4. /\ IsJob(j) /\ j.kind = "delete file" /\ j.row = job[p].row /\ j.new = job[p].new
          /\ j.file = job[p].file /\ j.slot = job[p].slot /\ j.list = list[s] /\ ~j.writes
          /\ j.at = IF f \in list[s] THEN "put" ELSE "erase"
      BY <1>1, <1>2, <1>3, <2>3 DEF IsJob
    <2>5. job' = [job EXCEPT ![p] = j]
      BY <1>2, <1>6, <2>1, <2>2, <2>3 DEF FindReference, JobsAre
    <2>6. f \in list[s] \/ s \in crossed
      BY <1>3, <2>1, <2>2 DEF AnswersListTheirFiles
    <2>7. list[s] \subseteq Files
      BY <1>2, <1>3, <2>1 DEF RowsOK
    <2>8. Becomes(p)
      BY <1>4, <2>1, <2>4, <2>5, <2>6, <2>7
    <2> QED BY <1>1, <2>8, Standing
  <1>7. CASE ~Ends(p) /\ PutShorterList(p)
    <2>1. PICK j : j = [job[p] EXCEPT !.writes = TRUE, !.at = "erase"]
      OBVIOUS
    <2>2. /\ IsJob(j) /\ j.kind = "delete file" /\ j.row = job[p].row /\ j.new = job[p].new
          /\ j.file = job[p].file /\ j.slot = job[p].slot /\ j.list = job[p].list
          /\ j.writes /\ j.at = "erase"
      BY <1>1, <1>2, <2>1 DEF IsJob
    <2>3. job' = [job EXCEPT ![p] = j] /\ Parents(job[p].slot)
      BY <1>2, <1>7, <2>1 DEF PutShorterList, JobsAre
    <2>4. job[p].list \subseteq Files /\ job[p].file \in job[p].list
      BY <1>1, <1>2, <1>7 DEF PutShorterList, DeleteOK
    <2>5. Becomes(p)
      BY <1>4, <2>2, <2>3, <2>4
    <2> QED BY <1>1, <2>5, Standing
  <1> QED BY <1>5, <1>6, <1>7

\* Who locks a file is the only one to have it.
LEMMA Locking ==
    ASSUME ContentInv, NEW p \in Requests, LockFile(p)
    PROVE  ContentInv'
  <1> USE DEF ContentInv
  <1>1. /\ UNCHANGED <<place, highlight, gone, fileVars, crossed>>
        /\ job[p].kind = "delete file" /\ job[p].at = "lock"
        /\ \A o \in Requests : ~HoldsFile(o, job[p].file)
    BY DEF LockFile, questionVars, history
  <1>2. DeleteOK(p) /\ IsJob(job[p]) /\ RowsOK /\ JobsAre
    BY DEF RowsOK, JobsAre, JobFits
  <1>3. CASE Ends(p)
    BY <1>1, <1>3, Ending, Standing
  <1>4. CASE ~Ends(p)
    <2>1. PICK f, at : f = job[p].file /\ at = IF attached[f] = NoSlot THEN "erase" ELSE "find"
      OBVIOUS
    <2>2. f \in files /\ job' = [job EXCEPT ![p].slot = attached[f], ![p].at = at]
      BY <1>4, <2>1 DEF LockFile
    <2>3. PICK j : j = [job[p] EXCEPT !.slot = attached[f], !.at = at]
      OBVIOUS
    <2>4. /\ IsJob(j) /\ j.kind = "delete file" /\ j.file = f /\ j.slot = attached[f] /\ j.at = at
          /\ j.new = {} /\ ~j.writes /\ f \in Files
      BY <1>1, <1>2, <2>1, <2>3 DEF IsJob, DeleteOK
    <2>5. job' = [job EXCEPT ![p] = j]
      BY <1>2, <2>2, <2>3 DEF JobsAre
    <2>6. JobsAre' /\ job'[p] = j /\ \A o \in Requests \ {p} : job'[o] = job[o]
      BY <1>2, <2>4, <2>5 DEF JobsAre
    <2>7. at \in {"find", "erase"} /\ (at = "find" => attached[f] \in Slots)
          /\ (at = "erase" => attached[f] = NoSlot)
      BY <1>2, <2>1, <2>4 DEF RowsOK
    <2>8. DeleteOK(p)' /\ job'[p].kind = "delete file"
      <3>1. f \in files' /\ attached'[f] = attached[f]
        BY <1>1, <2>2 DEF fileVars
      <3> QED BY <2>4, <2>6, <2>7, <3>1 DEF DeleteOK
    <2>9. ASSUME NEW o \in Requests \ {p} PROVE Apart(p, o)' /\ Apart(o, p)'
      <3>1. job'[o] = job[o] /\ ~HoldsFile(o, f)
        BY <1>1, <2>1, <2>6
      <3> QED BY <2>4, <2>6, <3>1 DEF Apart, HoldsFile
    <2>10. Becomes(p)
      BY <2>6, <2>8, <2>9, Fits DEF Becomes
    <2> QED BY <1>1, <2>10, Standing
  <1> QED BY <1>3, <1>4

-----------------------------------------------------------------------------
(* What a transaction on files writes when it ends.                        *)

LEMMA UploadCommits ==
    ASSUME ContentInv, NEW p \in Requests, CommitUpload(p)
    PROVE  ContentInv'
  <1> USE DEF ContentInv
  <1>1. PICK s, new, read : s = job[p].slot /\ new = job[p].new /\ read = job[p].list
    OBVIOUS
  <1>2. /\ s \in Slots /\ new \subseteq Files /\ new \intersect files = {} /\ read \subseteq Files
        /\ Parents(s)
    BY <1>1 DEF CommitUpload, JobFits, UploadOK
  <1>3. /\ answered' = answered \union {s}
        /\ list' = [list EXCEPT ![s] = read \union new]
        /\ crossed' = IF Listed(s) = read THEN crossed ELSE crossed \union {s}
        /\ files' = files \union new
        /\ attached' = [f \in Files |-> IF f \in new THEN s ELSE attached[f]]
        /\ UNCHANGED <<place, highlight, gone, responses>>
    BY <1>1 DEF CommitUpload, Write, questionVars
  <1>4. Becomes(p)
    BY Ending DEF CommitUpload
  <1>5. RowsOK'
    <2>1. list' \in [Slots -> SUBSET Files]
      BY <1>2, <1>3 DEF RowsOK
    <2>2. attached' \in [Files -> Slots \union {NoSlot}]
      BY <1>2, <1>3 DEF RowsOK
    <2>3. answered' \subseteq Slots /\ files' \subseteq Files
      BY <1>2, <1>3 DEF RowsOK
    <2> QED BY <1>3, <1>4, <2>1, <2>2, <2>3 DEF RowsOK, Becomes
  <1>6. \A x : Parents(x)' <=> Parents(x)
    BY <1>3 DEF Parents
  <1>7. AttachedOK'
    <2> SUFFICES ASSUME NEW f \in Files, attached'[f] # NoSlot
                 PROVE  /\ Parents(attached'[f]) => attached'[f] \in answered'
                        /\ place[attached'[f][2]] # Absent \/ attached'[f][2] \in gone
      BY <1>3, <1>6 DEF AttachedOK, Parents
    <2>1. CASE f \in new
      BY <1>2, <1>3, <2>1 DEF Parents
    <2>2. CASE f \notin new
      BY <1>3, <2>2 DEF AttachedOK
    <2> QED BY <2>1, <2>2
  <1>8. AnswersListTheirFiles'
    <2>1. ASSUME NEW t \in answered' \ crossed'
          PROVE  list'[t] = {f \in files' : attached'[f] = t}
      <3>1. CASE t # s
        <4>1. t \in answered \ crossed /\ list'[t] = list[t]
          BY <1>3, <2>1, <3>1 DEF RowsOK
        <4>2. list[t] = {f \in files : attached[f] = t}
          BY <4>1 DEF AnswersListTheirFiles
        <4>3. {f \in files' : attached'[f] = t} = {f \in files : attached[f] = t}
          BY <1>2, <1>3, <3>1 DEF RowsOK
        <4> QED BY <4>1, <4>2, <4>3
      <3>2. CASE t = s
        <4>1. Listed(s) = read /\ s \notin crossed
          BY <1>3, <2>1, <3>2
        <4>2. read = {f \in files : attached[f] = s}
          <5>1. CASE s \in answered
            BY <4>1, <5>1 DEF Listed, AnswersListTheirFiles
          <5>2. CASE s \notin answered
            <6>1. \A f \in Files : attached[f] # s
              BY <1>2, <5>2, ContentAssumption DEF AttachedOK
            <6> QED BY <4>1, <5>2, <6>1 DEF Listed, RowsOK
          <5> QED BY <5>1, <5>2
        <4>3. {f \in files' : attached'[f] = s} = {f \in files : attached[f] = s} \union new
          BY <1>2, <1>3 DEF RowsOK
        <4>4. list'[s] = read \union new
          BY <1>2, <1>3 DEF RowsOK
        <4> QED BY <3>2, <4>2, <4>3, <4>4
      <3> QED BY <3>1, <3>2
    <2>2. \A f \in Files \ files' : attached'[f] = NoSlot
      BY <1>3 DEF AnswersListTheirFiles
    <2>3. \A t \in answered' : Parents(t)'
      BY <1>2, <1>3, <1>6 DEF AnswersListTheirFiles
    <2> QED BY <1>3, <2>1, <2>2, <2>3 DEF AnswersListTheirFiles
  <1>9. ASSUME NEW o \in Requests \ {p} PROVE JobFits(o)'
    <2>1. job'[o] = job[o] /\ JobFits(o) /\ Apart(p, o)
      BY <1>4 DEF Becomes
    <2>2. AddOK(o)'
      <3>1. job[o].kind = "add question" => s[2] # job[o].row
        BY <1>2, <2>1 DEF JobFits, AddOK, Parents
      <3>2. \A f \in Files : attached'[f] = s \/ attached'[f] = attached[f]
        BY <1>3
      <3> QED BY <1>3, <2>1, <3>1, <3>2 DEF JobFits, AddOK
    <2>3. UploadOK(o)'
      BY <1>1, <1>3, <1>6, <2>1 DEF JobFits, UploadOK, Apart, Parents
    <2>4. DeleteOK(o)'
      <3>1. job[o].file \in files => job[o].file \in files' /\ attached'[job[o].file] = attached[job[o].file]
        BY <1>2, <1>3 DEF RowsOK
      <3>2. crossed \subseteq crossed'
        BY <1>3
      <3> QED BY <1>3, <2>1, <3>1, <3>2 DEF JobFits, DeleteOK, Parents
    <2> QED BY <2>1, <2>2, <2>3, <2>4 DEF JobFits, KindOK, MoveOK, PointOK, ViewOK
  <1> QED BY <1>4, <1>5, <1>7, <1>8, <1>9, OthersApart DEF Becomes

LEMMA DeleteCommits ==
    ASSUME ContentInv, NEW p \in Requests, CommitDelete(p)
    PROVE  ContentInv'
  <1> USE DEF ContentInv
  <1>1. PICK s, f, read : s = job[p].slot /\ f = job[p].file /\ read = job[p].list
    OBVIOUS
  <1>2. /\ f \in Files /\ f \in files /\ s = attached[f]
        /\ IF job[p].writes
             THEN s \in Slots /\ Parents(s) /\ read \subseteq Files /\ f \in read
             ELSE s = NoSlot \/ s \in crossed
    BY <1>1 DEF CommitDelete, JobFits, DeleteOK
  <1>3. /\ IF job[p].writes
             THEN /\ answered' = answered \union {s}
                  /\ list' = [list EXCEPT ![s] = read \ {f}]
                  /\ crossed' = IF Listed(s) = read THEN crossed ELSE crossed \union {s}
             ELSE UNCHANGED <<answered, list, crossed>>
        /\ files' = files \ {f}
        /\ attached' = [attached EXCEPT ![f] = NoSlot]
        /\ gone' = gone \union {f}
        /\ UNCHANGED <<place, highlight, responses>>
    BY <1>1 DEF CommitDelete, Write
  <1>4. Becomes(p)
    BY Ending DEF CommitDelete
  <1>5. /\ attached'[f] = NoSlot
        /\ \A g \in Files \ {f} : attached'[g] = attached[g]
        /\ crossed \subseteq crossed'
        /\ answered' \ {s} = answered \ {s} /\ answered \subseteq answered'
        /\ \A t \in Slots \ {s} : list'[t] = list[t]
    BY <1>2, <1>3 DEF RowsOK
  <1>6. RowsOK'
    <2>1. list' \in [Slots -> SUBSET Files]
      BY <1>2, <1>3 DEF RowsOK
    <2>2. attached' \in [Files -> Slots \union {NoSlot}]
      BY <1>2, <1>3 DEF RowsOK
    <2>3. answered' \subseteq Slots /\ files' \subseteq Files
      BY <1>2, <1>3 DEF RowsOK
    <2> QED BY <1>3, <1>4, <2>1, <2>2, <2>3 DEF RowsOK, Becomes
  <1>7. \A x : Parents(x)' <=> Parents(x)
    BY <1>3 DEF Parents
  <1>8. AttachedOK'
    <2> SUFFICES ASSUME NEW g \in Files, attached'[g] # NoSlot
                 PROVE  /\ Parents(attached[g]) => attached[g] \in answered'
                        /\ place[attached[g][2]] # Absent \/ attached[g][2] \in gone'
                        /\ attached'[g] = attached[g]
      BY <1>3, <1>7 DEF AttachedOK, Parents
    <2>1. g # f /\ attached'[g] = attached[g]
      BY <1>5
    <2> QED BY <1>3, <1>5, <2>1 DEF AttachedOK
  <1>9. AnswersListTheirFiles'
    <2>1. ASSUME NEW t \in answered' \ crossed'
          PROVE  list'[t] = {g \in files' : attached'[g] = t}
      <3>0. t \in Slots /\ t # NoSlot
        BY <1>6, ContentAssumption DEF RowsOK
      <3>1. CASE t # s
        <4>1. t \in answered \ crossed /\ list'[t] = list[t]
          BY <1>5, <2>1, <3>0, <3>1
        <4>2. list[t] = {g \in files : attached[g] = t}
          BY <4>1 DEF AnswersListTheirFiles
        <4>3. {g \in files' : attached'[g] = t} = {g \in files : attached[g] = t}
          BY <1>2, <1>3, <1>5, <3>1 DEF RowsOK
        <4> QED BY <4>1, <4>2, <4>3
      <3>2. CASE t = s
        <4>1. job[p].writes /\ Listed(s) = read /\ s \notin crossed
          BY <1>2, <1>3, <1>5, <2>1, <3>0, <3>2
        <4>2. s \in answered
          BY <1>2, <4>1 DEF Listed
        <4>3. read = {g \in files : attached[g] = s}
          BY <4>1, <4>2 DEF Listed, AnswersListTheirFiles
        <4>4. {g \in files' : attached'[g] = s} = {g \in files : attached[g] = s} \ {f}
          BY <1>2, <1>3, <1>5, <3>0, <3>2 DEF RowsOK
        <4>5. list'[s] = read \ {f}
          BY <1>2, <1>3, <4>1 DEF RowsOK
        <4> QED BY <3>2, <4>3, <4>4, <4>5
      <3> QED BY <3>1, <3>2
    <2>2. \A g \in Files \ files' : attached'[g] = NoSlot
      BY <1>3, <1>5 DEF AnswersListTheirFiles
    <2>3. \A t \in answered' : Parents(t)'
      BY <1>2, <1>3, <1>7 DEF AnswersListTheirFiles
    <2> QED BY <1>3, <2>1, <2>2, <2>3 DEF AnswersListTheirFiles
  <1>10. ASSUME NEW o \in Requests \ {p} PROVE JobFits(o)'
    <2>1. job'[o] = job[o] /\ JobFits(o) /\ Apart(p, o)
      BY <1>4 DEF Becomes
    <2>2. AddOK(o)'
      <3>1. \A g \in Files : attached'[g] # NoSlot => attached[g] # NoSlot /\ attached'[g] = attached[g]
        BY <1>5
      <3> QED BY <1>3, <2>1, <3>1 DEF JobFits, AddOK
    <2>3. UploadOK(o)'
      BY <1>3, <2>1 DEF JobFits, UploadOK, Parents
    <2>4. DeleteOK(o)'
      <3>1. HoldsFile(p, f)
        BY <1>1 DEF CommitDelete, HoldsFile
      <3>2. job[o].kind = "delete file" /\ job[o].at # "lock" => job[o].file # f
        BY <1>2, <2>1, <3>1 DEF Apart, HoldsFile
      <3>3. job[o].kind = "delete file" /\ job[o].at # "lock" =>
              job[o].file \in files' /\ attached'[job[o].file] = attached[job[o].file]
        BY <1>3, <1>5, <2>1, <3>2 DEF JobFits, DeleteOK
      <3> QED BY <1>3, <1>5, <2>1, <3>3 DEF JobFits, DeleteOK, Parents
    <2> QED BY <2>1, <2>2, <2>3, <2>4 DEF JobFits, KindOK, MoveOK, PointOK, ViewOK
  <1> QED BY <1>4, <1>6, <1>8, <1>9, <1>10, OthersApart DEF Becomes

\* PATCH writes a list that the client sends: it counts as written over.
LEMMA Patching ==
    ASSUME ContentInv, NEW p \in Requests, PatchAnswer(p)
    PROVE  ContentInv'
  <1> USE DEF ContentInv
  <1>1. PICK s \in Slots, sent \in SUBSET files :
          /\ Parents(s)
          /\ answered' = answered \union {s}
          /\ list' = [list EXCEPT ![s] = sent]
          /\ crossed' = crossed \union {s}
    BY DEF PatchAnswer
  <1>2. UNCHANGED <<job, place, highlight, gone, responses, attached, files>>
    BY DEF PatchAnswer, questionVars
  <1>3. RowsOK'
    <2>1. list' \in [Slots -> SUBSET Files]
      BY <1>1 DEF RowsOK
    <2> QED BY <1>1, <1>2, <2>1 DEF RowsOK, JobsAre
  <1>4. \A x : Parents(x)' <=> Parents(x)
    BY <1>2 DEF Parents
  <1>5. AttachedOK'
    BY <1>1, <1>2, <1>4 DEF AttachedOK, Parents
  <1>6. AnswersListTheirFiles'
    <2>1. \A t \in answered' \ crossed' : t \in answered \ crossed /\ list'[t] = list[t]
      BY <1>1 DEF RowsOK
    <2>2. \A t \in answered' : Parents(t)'
      BY <1>1, <1>4 DEF AnswersListTheirFiles
    <2> QED BY <1>2, <2>1, <2>2 DEF AnswersListTheirFiles
  <1>7. ASSUME NEW o \in Requests PROVE JobFits(o)'
    BY <1>1, <1>2 DEF JobFits, KindOK, AddOK, MoveOK, PointOK, ViewOK, UploadOK, DeleteOK, Parents
  <1>8. ASSUME NEW o \in Requests, NEW other \in Requests, o # other PROVE Apart(o, other)'
    BY <1>2, <1>8 DEF Apart, HoldsFile
  <1> QED BY <1>3, <1>5, <1>6, <1>7, <1>8

\* A response goes with its answers: no upload and no deletion holds one.
LEMMA DeletingResponse ==
    ASSUME ContentInv, NEW p \in Requests, DeleteResponse(p)
    PROVE  ContentInv'
  <1> USE DEF ContentInv
  <1>1. PICK r \in responses :
          /\ \A s \in {r} \X Questions : SlotFree(s)
          /\ responses' = responses \ {r}
          /\ answered' = answered \ ({r} \X Questions)
          /\ list' = [s \in Slots |-> IF s \in {r} \X Questions THEN {} ELSE list[s]]
    BY DEF DeleteResponse
  <1>2. UNCHANGED <<job, place, highlight, gone, attached, files, crossed>>
    BY DEF DeleteResponse, questionVars, history
  <1>3. RowsOK'
    <2>1. list' \in [Slots -> SUBSET Files] /\ answered' \subseteq Slots
      BY <1>1 DEF RowsOK
    <2> QED BY <1>1, <1>2, <2>1 DEF RowsOK, JobsAre
  <1>4. \A s \in Slots : s \in {r} \X Questions <=> s[1] = r
    BY DEF Slots
  <1>5. \A s \in Slots : Parents(s)' <=> Parents(s) /\ s[1] # r
    BY <1>1, <1>2, <1>4 DEF Parents
  <1>6. AttachedOK'
    <2> SUFFICES ASSUME NEW f \in Files, attached[f] # NoSlot
                 PROVE  /\ Parents(attached[f])' => attached[f] \in answered'
                        /\ place[attached[f][2]] # Absent \/ attached[f][2] \in gone
      BY <1>2 DEF AttachedOK
    <2>1. attached[f] \in Slots
      BY DEF RowsOK
    <2>2. /\ Parents(attached[f]) => attached[f] \in answered
          /\ place[attached[f][2]] # Absent \/ attached[f][2] \in gone
      BY DEF AttachedOK
    <2>3. Parents(attached[f])' => Parents(attached[f]) /\ attached[f] \notin {r} \X Questions
      BY <1>2, <1>4, <1>5, <2>1 DEF Parents
    <2> QED BY <1>1, <2>2, <2>3
  <1>7. AnswersListTheirFiles'
    <2>1. \A s \in answered' : s \in answered /\ s \in Slots /\ s[1] # r /\ list'[s] = list[s]
      BY <1>1, <1>4 DEF RowsOK
    <2> QED BY <1>2, <1>5, <2>1 DEF AnswersListTheirFiles
  <1>8. ASSUME NEW o \in Requests PROVE JobFits(o)'
    <2>1. job'[o] = job[o] /\ JobFits(o)
      BY <1>2
    <2>2. job[o].slot \in Slots /\ HoldsSlot(o, job[o].slot) => job[o].slot[1] # r
      BY <1>1, <1>4 DEF SlotFree
    <2>3. AddOK(o)'
      BY <1>2, <2>1 DEF JobFits, AddOK
    <2>4. UploadOK(o)'
      BY <1>2, <1>5, <2>1, <2>2 DEF JobFits, UploadOK, HoldsSlot
    <2>5. DeleteOK(o)'
      BY <1>2, <1>5, <2>1, <2>2 DEF JobFits, DeleteOK, HoldsSlot
    <2> QED BY <2>1, <2>3, <2>4, <2>5 DEF JobFits, KindOK, MoveOK, PointOK, ViewOK
  <1>9. ASSUME NEW o \in Requests, NEW other \in Requests, o # other PROVE Apart(o, other)'
    BY <1>2, <1>9 DEF Apart, HoldsFile
  <1> QED BY <1>3, <1>6, <1>7, <1>8, <1>9

-----------------------------------------------------------------------------
(* The theorem.                                                            *)

\* The first rows are at places of their list.
LEMMA FirstPlaces ==
    ASSUME NEW q \in Questions
    PROVE  /\ PlaceIn(OldQuestions, q, 1) \in Places
           /\ (\E i \in DOMAIN OldQuestions : OldQuestions[i] = q) => PlaceIn(OldQuestions, q, 1) \in Nat
  <1>1. OldQuestions \in Seq(Questions) /\ DOMAIN OldQuestions \subseteq Nat
    BY ContentAssumption
  <1>2. CASE \E i \in DOMAIN OldQuestions : OldQuestions[i] = q
    <2>1. PICK i : i = CHOOSE k \in DOMAIN OldQuestions : OldQuestions[k] = q
      OBVIOUS
    <2>2. i \in DOMAIN OldQuestions
      BY <1>2, <2>1
    <2>3. PlaceIn(OldQuestions, q, 1) = 1 - 1 + i
      BY <1>2, <2>1 DEF PlaceIn
    <2> QED BY <1>1, <2>2, <2>3 DEF Places
  <1>3. CASE ~ \E i \in DOMAIN OldQuestions : OldQuestions[i] = q
    BY <1>3 DEF PlaceIn, Places
  <1> QED BY <1>2, <1>3

LEMMA InvStarts ==
    ASSUME Init PROVE ContentInv
  <1> USE DEF Init
  <1>1. \A p \in Requests : job[p] = NoJob
    OBVIOUS
  <1>2. \A f \in Files : OldFiles[f] # NoSlot => /\ OldFiles[f] \in Slots
                                                 /\ OldFiles[f][1] \in Responses
                                                 /\ place[OldFiles[f][2]] \in Nat
    <2> SUFFICES ASSUME NEW f \in Files, OldFiles[f] # NoSlot
                 PROVE  /\ OldFiles[f] \in Slots /\ OldFiles[f][1] \in Responses
                        /\ place[OldFiles[f][2]] \in Nat
      OBVIOUS
    <2>1. OldFiles[f] \in Slots
      BY ContentAssumption
    <2>2. PICK q : q = OldFiles[f][2]
      OBVIOUS
    <2>3. q \in Questions /\ \E i \in DOMAIN OldQuestions : OldQuestions[i] = q
      BY <2>1, <2>2, ContentAssumption DEF Slots
    <2>4. place[q] = PlaceIn(OldQuestions, q, 1)
      BY <2>3 DEF Rows
    <2>5. PlaceIn(OldQuestions, q, 1) \in Nat
      BY <2>3, FirstPlaces
    <2> QED BY <2>1, <2>2, <2>4, <2>5 DEF Slots
  <1>3. RowsOK
    <2>1. \A q \in Questions : place[q] \in Places
      BY FirstPlaces DEF Rows
    <2>2. JobsAre
      BY DEF JobsAre, IsJob, NoJob
    <2>3. list \in [Slots -> SUBSET Files] /\ answered \subseteq Slots
      BY <1>2
    <2> QED BY <2>1, <2>2, <2>3, ContentAssumption DEF RowsOK
  <1>4. AttachedOK
    BY <1>2 DEF AttachedOK, Absent
  <1>5. AnswersListTheirFiles
    BY <1>2, <1>3 DEF AnswersListTheirFiles, RowsOK, Parents, Absent
  <1>6. \A p \in Requests : JobFits(p)
    BY <1>1 DEF JobFits, NoJob, KindOK, AddOK, MoveOK, PointOK, ViewOK, UploadOK, DeleteOK
  <1>7. \A p, o \in Requests : p # o => Apart(p, o)
    BY <1>1 DEF Apart, NoJob, HoldsFile
  <1> QED BY <1>3, <1>4, <1>5, <1>6, <1>7 DEF ContentInv

LEMMA Unchanged ==
    ASSUME ContentInv, UNCHANGED <<job, place, highlight, gone, fileVars, crossed>>
    PROVE  ContentInv'
  <1> USE DEF ContentInv, fileVars
  <1>1. RowsOK' /\ AttachedOK' /\ AnswersListTheirFiles'
    BY DEF RowsOK, JobsAre, AttachedOK, AnswersListTheirFiles, Parents
  <1>2. ASSUME NEW p \in Requests PROVE JobFits(p)'
    <2>1. JobFits(p)
      OBVIOUS
    <2> QED BY <2>1 DEF JobFits, KindOK, AddOK, MoveOK, PointOK, ViewOK, UploadOK, DeleteOK, Parents
  <1>3. ASSUME NEW p \in Requests, NEW o \in Requests, p # o PROVE Apart(p, o)'
    BY <1>3 DEF Apart, HoldsFile
  <1> QED BY <1>1, <1>2, <1>3

LEMMA InvStays ==
    ASSUME ContentInv, [Next]_vars PROVE ContentInv'
  <1>1. CASE UNCHANGED vars
    BY <1>1, Unchanged DEF vars, questionVars, history
  <1>2. ASSUME NEW p \in Requests, Arrive(p) PROVE ContentInv'
    <2>1. CASE UpdateLocked(p)
      <3>1. UNCHANGED <<job, place, highlight, gone, fileVars, crossed>>
        BY <2>1 DEF UpdateLocked, questionVars, history
      <3> QED BY <3>1, Unchanged
    <2> QED BY <1>2, <2>1, Arrivals, Patching, DeletingResponse DEF Arrive
  <1>3. ASSUME NEW p \in Requests, Step(p) PROVE ContentInv'
    <2>1. CASE QuestionStep(p)
      BY <2>1, AddSteps, Inserting, MoveSteps, Removing, PointSteps DEF QuestionStep
    <2>2. CASE ViewStep(p)
      BY <2>2, ViewReads, ViewWrites DEF ViewStep
    <2>3. CASE FileStep(p)
      BY <2>3, UploadReads, UploadCommits, Locking, DeleteReads, DeleteCommits DEF FileStep
    <2> QED BY <1>3, <2>1, <2>2, <2>3 DEF Step
  <1>4. ASSUME NEW p \in Requests, Cut(p) PROVE ContentInv'
    <2>1. Ends(p) /\ UNCHANGED <<place, highlight, gone, fileVars, crossed>>
      BY <1>4 DEF Cut, questionVars
    <2> QED BY <2>1, Ending, Standing
  <1> QED BY <1>1, <1>2, <1>3, <1>4 DEF Next

\* However uploads, deletions of files, changes of answers, of questions and of views
\* and deletions of responses overlap, and wherever they are cut off: an answer lists
\* the files attached to it, unless its list was written over by one who had read an
\* older one (answer/service.go UploadFiles, file/service.go Delete); it has its response
\* and its question, and the highlight its question.
THEOREM FilesListed == Spec => []AnswersListTheirFiles
  <1>1. ContentInv => AnswersListTheirFiles
    BY DEF ContentInv
  <1> QED BY <1>1, InvStarts, InvStays, PTL DEF Spec

-----------------------------------------------------------------------------
(* A set of numbers has a least one, finitely many rows have a last one,   *)
(* and some number makes a title none of finitely many.                    *)

LEMMA Least ==
    ASSUME NEW T \in SUBSET Nat, T # {}
    PROVE  \E n \in T : \A m \in T : n <= m
  <1>1. PICK R : R = OpToRel(<, Nat)
    OBVIOUS
  <1>2. IsWellFoundedOn(R, Nat)
    BY <1>1, NatLessThanWellFounded
  <1>3. R = {ss \in Nat \X Nat : ss[1] < ss[2]}
    BY <1>1 DEF OpToRel
  <1>4. PICK n \in T : \A m \in T : ~ (<<m, n>> \in R)
    BY <1>2, WFMin
  <1>5. ASSUME NEW m \in T, m < n PROVE FALSE
    <2>1. PICK ss : ss = <<m, n>> 
      OBVIOUS
    <2>2. ss \in Nat \X Nat /\ ss[1] < ss[2]
      BY <1>5, <2>1
    <2> QED BY <1>3, <1>4, <2>1, <2>2
  <1> QED BY <1>5

\* Of finitely many rows that have places one is the last.
HasLast(S, f) == \E v \in S : \A w \in S : f[w] <= f[v]

LEMMA LastOne ==
    ASSUME NEW S, IsFiniteSet(S), S # {}, NEW f, \A x \in S : f[x] \in Int
    PROVE  HasLast(S, f)
  <1> DEFINE Bad == {n \in Nat : \E U \in SUBSET S : U # {} /\ Cardinality(U) = n /\ ~HasLast(U, f)}
  <1>1. ASSUME NEW n \in Bad PROVE \E m \in Bad : m < n
    <2>1. PICK U \in SUBSET S : U # {} /\ Cardinality(U) = n /\ ~HasLast(U, f)
      OBVIOUS
    <2>2. PICK x \in U : TRUE
      BY <2>1
    <2>3. PICK V : V = U \ {x}
      OBVIOUS
    <2>4. IsFiniteSet(U) /\ IsFiniteSet(V) /\ Cardinality(V) = n - 1 /\ Cardinality(V) \in Nat
      BY <2>1, <2>2, <2>3, FS_Subset, FS_RemoveElement, FS_CardinalityType
    <2>5. V # {}
      BY <2>1, <2>2, <2>3 DEF HasLast
    <2>6. ~HasLast(V, f)
      BY <2>1, <2>2, <2>3 DEF HasLast
    <2> QED BY <2>3, <2>4, <2>5, <2>6
  <1>2. Bad = {}
    <2>1. Bad \in SUBSET Nat
      OBVIOUS
    <2> HIDE DEF Bad
    <2> QED BY <1>1, <2>1, Least
  <1>3. Cardinality(S) \in Nat
    BY FS_CardinalityType
  <1> QED BY <1>2, <1>3

\* Some number up to that of the titles is free.
LEMMA TitleFree ==
    ASSUME NEW titles, IsFiniteSet(titles), NEW t \in Seq(Nat)
    PROVE  UniqueTitle(titles, t) \in Seq(Nat)
  <1>1. PICK c : c = Cardinality(titles)
    OBVIOUS
  <1>2. c \in Nat
    BY <1>1, FS_CardinalityType
  <1>3. PICK free : free = {n \in 0 .. c : Append(t, n) \notin titles}
    OBVIOUS
  <1>4. free # {}
    <2> SUFFICES ASSUME \A n \in 0 .. c : Append(t, n) \in titles PROVE FALSE
      BY <1>3
    <2>1. PICK g : g = [n \in 0 .. c |-> Append(t, n)]
      OBVIOUS
    <2>2. g \in [0 .. c -> titles]
      BY <2>1
    <2>3. IsFiniteSet(0 .. c) /\ Cardinality(0 .. c) = c + 1
      BY <1>2, FS_Interval
    <2>4. PICK m, n \in 0 .. c : m # n /\ g[m] = g[n]
      <3>1. Cardinality(titles) < Cardinality(0 .. c)
        BY <1>1, <1>2, <2>3
      <3> QED BY <2>2, <2>3, <3>1, FS_PigeonHole
    <2>5. Append(t, m) = Append(t, n) /\ m \in Nat /\ n \in Nat
      BY <1>2, <2>1, <2>4
    <2>6. Append(t, m)[Len(t) + 1] = m /\ Append(t, n)[Len(t) + 1] = n
      BY <2>5
    <2> QED BY <2>4, <2>5, <2>6
  <1>5. free \subseteq Nat
    BY <1>2, <1>3
  <1>6. \E n \in free : \A m \in free : n <= m
    BY <1>4, <1>5, Least
  <1>7. (CHOOSE n \in free : \A m \in free : n <= m) \in Nat
    BY <1>5, <1>6
  <1>8. UniqueTitle(titles, t) = Append(t, CHOOSE n \in free : \A m \in free : n <= m)
    BY <1>1, <1>3 DEF UniqueTitle
  <1> QED BY <1>7, <1>8

-----------------------------------------------------------------------------
LEMMA StepIn ==
    ASSUME NEW j \in Jobs, NEW to \in Int, NEW t \in Seq(Nat), NEW snap \in [Rows -> Int], NEW at \in Steps
    PROVE  /\ [j EXCEPT !.at = at] \in Jobs
           /\ [j EXCEPT !.to = to, !.at = at] \in Jobs
           /\ [j EXCEPT !.title = t, !.at = at] \in Jobs
           /\ [j EXCEPT !.to = to, !.title = t, !.at = at] \in Jobs
           /\ [j EXCEPT !.snap = snap, !.at = at] \in Jobs
           /\ [j EXCEPT !.title = t, !.snap = snap, !.at = at] \in Jobs
  BY DEF Jobs

LEMMA FileStepIn ==
    ASSUME NEW j \in Jobs, NEW s \in Slots \union {NoSlot}, NEW l \in SUBSET Files, NEW at \in Steps
    PROVE  /\ [j EXCEPT !.slot = s, !.at = at] \in Jobs
           /\ [j EXCEPT !.list = l, !.at = at] \in Jobs
           /\ [j EXCEPT !.writes = TRUE, !.at = at] \in Jobs
  BY DEF Jobs

LEMMA NoJobIn == NoJob \in Jobs
  BY DEF NoJob, Jobs, Types, Steps, Absent

LEMMA Puts ==
    ASSUME job \in [Requests -> Jobs], NEW p \in Requests, NEW to \in Int, NEW t \in Seq(Nat),
           NEW snap \in [Rows -> Int], NEW at \in Steps,
           \/ job' = [job EXCEPT ![p].at = at]
           \/ job' = [job EXCEPT ![p].to = to, ![p].at = at]
           \/ job' = [job EXCEPT ![p].title = t, ![p].at = at]
           \/ job' = [job EXCEPT ![p].to = to, ![p].title = t, ![p].at = at]
           \/ job' = [job EXCEPT ![p].snap = snap, ![p].at = at]
           \/ job' = [job EXCEPT ![p].title = t, ![p].snap = snap, ![p].at = at]
    PROVE  job' \in [Requests -> Jobs]
  <1>1. PICK j : j = job[p]
    OBVIOUS
  <1>2. j \in Jobs
    BY <1>1
  <1>3. PICK k \in Jobs : job' = [job EXCEPT ![p] = k]
    BY <1>1, <1>2, StepIn
  <1> QED BY <1>3

LEMMA LastPlaceTyped ==
    ASSUME TypeOK PROVE MaxOrder \in Int
  <1>1. CASE There(Views) = {}
    BY <1>1 DEF MaxOrder
  <1>2. CASE There(Views) # {}
    <2>1. IsFiniteSet(There(Views)) /\ \A v \in There(Views) : place[v] \in Int
      BY ContentAssumption, FS_Subset DEF There, TypeOK, Rows
    <2>2. \E v \in There(Views) : \A w \in There(Views) : place[w] <= place[v]
      BY <1>2, <2>1, LastOne DEF HasLast
    <2>3. (CHOOSE v \in There(Views) : \A w \in There(Views) : place[w] <= place[v]) \in There(Views)
      BY <2>2
    <2> QED BY <1>2, <2>1, <2>3 DEF MaxOrder
  <1> QED BY <1>1, <1>2

LEMMA TitlesReadFinite == IsFiniteSet(TitlesRead)
  <1>1. IsFiniteSet(There(Views))
    BY ContentAssumption, FS_Subset DEF There
  <1>2. PICK f : f = [v \in There(Views) |-> title[v]]
    OBVIOUS
  <1>3. f \in Surjection(There(Views), TitlesRead)
    BY <1>2 DEF TitlesRead, Surjection
  <1> QED BY <1>1, <1>3, FS_Surjection

LEMMA SeenTyped ==
    ASSUME TypeOK, NEW rows PROVE Seen(rows) \in [Rows -> Int]
  BY DEF TypeOK, Seen, Absent

\* What a request carries is typed after each of its steps.
LEMMA QuestionJobsTyped ==
    ASSUME TypeOK, NEW p \in Requests, QuestionStep(p)
    PROVE  job' \in [Requests -> Jobs]
  <1>1. /\ job \in [Requests -> Jobs] /\ job[p].to \in Int /\ job[p].title \in Seq(Nat)
        /\ Seen(Questions) \in [Rows -> Int]
    BY SeenTyped DEF TypeOK, Jobs
  <1>2. \A k \in Int : Within(k, Count + 1) \in Int /\ Within(k, Count) \in Int
    BY CountIsNatural DEF Within
  <1>3. CASE Ends(p)
    BY <1>1, <1>3, NoJobIn DEF Ends
  <1>4. ASSUME NEW at \in Steps, Goes(p, at) PROVE job' \in [Requests -> Jobs]
    BY <1>1, <1>4, Puts DEF Goes
  <1>5. CASE CountToAdd(p)
    <2>1. PICK k : k = Within(job[p].to, Count + 1)
      OBVIOUS
    <2>2. PICK at \in {"shift", "insert"} : job' = [job EXCEPT ![p].to = k, ![p].at = at]
      BY <1>5, <2>1 DEF CountToAdd
    <2>3. k \in Int /\ at \in Steps
      BY <1>1, <1>2, <2>1 DEF Steps
    <2> QED BY <1>1, <2>2, <2>3, Puts
  <1>6. CASE BeginShift(p)
    <2>1. job' = [job EXCEPT ![p].snap = Seen(Questions), ![p].at = "shifting"] /\ "shifting" \in Steps
      BY <1>6 DEF BeginShift, Steps
    <2> QED BY <1>1, <2>1, Puts
  <1>7. CASE CountToMove(p)
    <2>1. PICK k : k = Within(job[p].to, Count)
      OBVIOUS
    <2>2. job' = [job EXCEPT ![p].to = k, ![p].at = "move"]
      BY <1>7, <2>1 DEF CountToMove
    <2>3. k \in Int /\ "move" \in Steps
      BY <1>1, <1>2, <2>1 DEF Steps
    <2> QED BY <1>1, <2>2, <2>3, Puts
  <1>8. CASE BeginMove(p)
    <2>1. job' = [job EXCEPT ![p].snap = Seen(Questions), ![p].at = "moving"] /\ "moving" \in Steps
      BY <1>8 DEF BeginMove, Steps
    <2> QED BY <1>1, <2>1, Puts
  <1>9. CASE BeginRemove(p)
    <2>1. job' = [job EXCEPT ![p].snap = Seen(Questions), ![p].at = "removing"] /\ "removing" \in Steps
      BY <1>9 DEF BeginRemove, Steps
    <2> QED BY <1>1, <2>1, Puts
  <1>10. \/ Ends(p) \/ Goes(p, "insert") \/ Goes(p, "count") \/ Goes(p, "set")
         \/ CountToAdd(p) \/ BeginShift(p) \/ CountToMove(p) \/ BeginMove(p) \/ BeginRemove(p)
    BY DEF QuestionStep, ShiftOrdersForInsert, InsertQuestion, UpdateFields, UpdateQuestionOrder,
           DeleteAndReorder, ReadToHighlight, SetHighlight, ClearHighlight
  <1>11. "insert" \in Steps /\ "count" \in Steps /\ "set" \in Steps
    BY DEF Steps
  <1> QED BY <1>3, <1>4, <1>5, <1>6, <1>7, <1>8, <1>9, <1>10, <1>11

LEMMA ViewJobsTyped ==
    ASSUME TypeOK, ContentInv, NEW p \in Requests, ViewStep(p)
    PROVE  job' \in [Requests -> Jobs]
  <1>1. job \in [Requests -> Jobs] /\ job[p].to \in Int /\ job[p].title \in Seq(Nat)
    BY DEF TypeOK, Jobs
  <1>2. MaxOrder \in Int /\ \A k \in Int : Clamped(k, MaxOrder) \in Int
    BY LastPlaceTyped DEF Clamped
  <1>3. /\ UniqueTitle(TitlesRead, <<>>) \in Seq(Nat)
        /\ UniqueTitle(TitlesRead, job[p].title) \in Seq(Nat)
    <2>1. <<>> \in Seq(Nat)
      OBVIOUS
    <2> QED BY <1>1, <2>1, TitlesReadFinite, TitleFree
  <1>4. Seen(Views) \in [Rows -> Int]
    BY SeenTyped
  <1>5. /\ "max" \in Steps /\ "insert" \in Steps /\ "rename" \in Steps /\ "move" \in Steps
        /\ "moving" \in Steps /\ "titles" \in Steps /\ "shift" \in Steps
        /\ "shifting" \in Steps
    BY DEF Steps
  <1>6. CASE Ends(p)
    BY <1>1, <1>6, NoJobIn DEF Ends
  <1>7. ASSUME NEW at \in Steps, Goes(p, at) PROVE job' \in [Requests -> Jobs]
    BY <1>1, <1>4, <1>7, Puts DEF Goes
  <1>8. CASE ReadTitles(p)
    <2>1. job' = [job EXCEPT ![p].title = UniqueTitle(TitlesRead, <<>>), ![p].at = "max"]
      BY <1>8 DEF ReadTitles
    <2> QED BY <1>1, <1>3, <1>4, <1>5, <2>1, Puts
  <1>9. CASE ReadMaxOrder(p)
    <2>1. PICK k \in Int : job' = [job EXCEPT ![p].to = k, ![p].at = "insert"]
      <3>1. job' = [job EXCEPT ![p].to = MaxOrder + 1, ![p].at = "insert"]
        BY <1>9 DEF ReadMaxOrder
      <3>2. MaxOrder + 1 \in Int
        BY <1>2
      <3> QED BY <3>1, <3>2
    <2> QED BY <1>1, <1>4, <1>5, <2>1, Puts
  <1>10. CASE ReadMaxToMove(p)
    <2>1. PICK k \in Int : job' = [job EXCEPT ![p].to = k, ![p].at = "move"]
      BY <1>1, <1>2, <1>10 DEF ReadMaxToMove
    <2> QED BY <1>1, <1>4, <1>5, <2>1, Puts
  <1>11. CASE BeginViewMove(p)
    <2>1. job' = [job EXCEPT ![p].snap = Seen(Views), ![p].at = "moving"]
      BY <1>11 DEF BeginViewMove
    <2> QED BY <1>1, <1>4, <1>5, <2>1, Puts
  <1>12. CASE GetOriginal(p) /\ ~Ends(p)
    <2>1. place[job[p].row] \in Int /\ title[job[p].row] \in Seq(Nat)
      BY <1>12 DEF GetOriginal, TypeOK, ContentInv, JobFits, ViewOK, Rows
    <2>2. PICK k \in Int, t \in Seq(Nat) : k = place[job[p].row] /\ t = title[job[p].row]
      BY <2>1
    <2>3. job' = [job EXCEPT ![p].to = k, ![p].title = t, ![p].at = "titles"]
      BY <1>12, <2>2 DEF GetOriginal
    <2> QED BY <1>1, <1>4, <1>5, <2>3, Puts
  <1>13. CASE TitleCopy(p)
    <2>1. PICK t \in Seq(Nat) : job' = [job EXCEPT ![p].title = t, ![p].at = "shift"]
      BY <1>3, <1>13 DEF TitleCopy
    <2> QED BY <1>1, <1>4, <1>5, <2>1, Puts
  <1>14. CASE BeginViewShift(p)
    <2>1. job' = [job EXCEPT ![p].snap = Seen(Views), ![p].at = "shifting"]
      BY <1>14 DEF BeginViewShift
    <2> QED BY <1>1, <1>4, <1>5, <2>1, Puts
  <1>15. \/ Ends(p) \/ Goes(p, "rename") \/ Goes(p, "max") \/ Goes(p, "shift")
         \/ ReadTitles(p) \/ ReadMaxOrder(p) \/ ReadMaxToMove(p) \/ BeginViewMove(p) \/ GetOriginal(p)
         \/ TitleCopy(p) \/ BeginViewShift(p)
    BY DEF ViewStep, InsertView, GetView, UpdateTitle, MovesOrEnds, UpdateViewOrder, Duplicate,
           DeleteIfUnlocked, DeleteView
  <1> QED BY <1>5, <1>6, <1>7, <1>8, <1>9, <1>10, <1>11, <1>12, <1>13, <1>14, <1>15

LEMMA FilePuts ==
    ASSUME job \in [Requests -> Jobs], NEW p \in Requests, NEW s \in Slots \union {NoSlot},
           NEW l \in SUBSET Files, NEW at \in Steps,
           \/ job' = [job EXCEPT ![p].slot = s, ![p].at = at]
           \/ job' = [job EXCEPT ![p].list = l, ![p].at = at]
           \/ job' = [job EXCEPT ![p].writes = TRUE, ![p].at = at]
    PROVE  job' \in [Requests -> Jobs]
  <1>1. PICK j : j = job[p]
    OBVIOUS
  <1>2. j \in Jobs
    BY <1>1
  <1>3. PICK k \in Jobs : job' = [job EXCEPT ![p] = k]
    BY <1>1, <1>2, FileStepIn
  <1> QED BY <1>3

LEMMA FileJobsTyped ==
    ASSUME TypeOK, ContentInv, NEW p \in Requests, FileStep(p)
    PROVE  job' \in [Requests -> Jobs]
  <1>1. /\ job \in [Requests -> Jobs] /\ job[p].slot \in Slots \union {NoSlot}
        /\ job[p].list \in SUBSET Files
        /\ job[p].to \in Int /\ job[p].title \in Seq(Nat) /\ Seen(Views) \in [Rows -> Int]
    BY SeenTyped DEF TypeOK, Jobs
  <1>2. CASE Ends(p)
    BY <1>1, <1>2, NoJobIn DEF Ends
  <1>3. ASSUME NEW at \in Steps, Goes(p, at) PROVE job' \in [Requests -> Jobs]
    BY <1>1, <1>3, Puts DEF Goes
  <1>4. CASE LoadPrevious(p) /\ ~Ends(p)
    <2>1. PICK l : l = Listed(job[p].slot)
      OBVIOUS
    <2>2. job' = [job EXCEPT ![p].list = l, ![p].at = "upsert"] /\ "upsert" \in Steps
      BY <1>4, <2>1 DEF LoadPrevious, Steps
    <2>3. l \in SUBSET Files
      BY <2>1 DEF Listed, TypeOK
    <2> QED BY <1>1, <2>2, <2>3, FilePuts
  <1>5. CASE LockFile(p) /\ ~Ends(p)
    <2>1. PICK s : s = attached[job[p].file]
      OBVIOUS
    <2>2. PICK at \in {"erase", "find"} : job' = [job EXCEPT ![p].slot = s, ![p].at = at]
      BY <1>5, <2>1 DEF LockFile
    <2>3. s \in Slots \union {NoSlot} /\ at \in Steps
      BY <1>5, <2>1 DEF LockFile, TypeOK, Steps
    <2> QED BY <1>1, <2>2, <2>3, FilePuts
  <1>6. CASE FindReference(p) /\ ~Ends(p)
    <2>1. PICK l : l = list[job[p].slot]
      OBVIOUS
    <2>2. PICK at \in {"erase", "put"} : job' = [job EXCEPT ![p].list = l, ![p].at = at]
      BY <1>6, <2>1 DEF FindReference
    <2>3. l \in SUBSET Files /\ at \in Steps
      BY <1>6, <2>1 DEF FindReference, TypeOK, Steps
    <2> QED BY <1>1, <2>2, <2>3, FilePuts
  <1>7. CASE PutShorterList(p) /\ ~Ends(p)
    <2>1. job' = [job EXCEPT ![p].writes = TRUE, ![p].at = "erase"] /\ "erase" \in Steps
      BY <1>7 DEF PutShorterList, Steps
    <2> QED BY <1>1, <2>1, FilePuts
  <1>8. \/ Ends(p) \/ Goes(p, "load") \/ Goes(p, "attach")
        \/ LoadPrevious(p) \/ LockFile(p) \/ FindReference(p) \/ PutShorterList(p)
    BY DEF FileStep, CheckType, UpsertList, CommitUpload, CommitDelete
  <1>9. "load" \in Steps /\ "attach" \in Steps
    BY DEF Steps
  <1> QED BY <1>2, <1>3, <1>4, <1>5, <1>6, <1>7, <1>8, <1>9

LEMMA NewJobsTyped ==
    ASSUME TypeOK, NEW p \in Requests, Arrive(p)
    PROVE  job' \in [Requests -> Jobs]
  <1>1. job \in [Requests -> Jobs] /\ NoJob \in Jobs
    BY NoJobIn DEF TypeOK
  <1>2. ASSUME NEW j \in Jobs, job' = [job EXCEPT ![p] = j] PROVE job' \in [Requests -> Jobs]
    BY <1>1, <1>2
  <1>3. Wanted \subseteq Int /\ Names \subseteq Seq(Nat) /\ <<>> \in Seq(Nat) /\ Absent \in Int
    BY ContentAssumption DEF Absent
  <1>4. /\ "count" \in Steps /\ "fields" \in Steps /\ "remove" \in Steps /\ "read" \in Steps /\ "set" \in Steps
        /\ "titles" \in Steps /\ "get" \in Steps /\ "check" \in Steps /\ "lock" \in Steps
    BY DEF Steps
  <1>5. CASE ArriveQuestion(p)
    <2> PICK q \in Questions, k \in Wanted, t \in Types :
         \E kind \in Kinds(Questions) :
           /\ kind = "add question" => Fresh(q)
           /\ kind # "add question" => place[q] # Absent
           /\ kind = "remove question" => k = 1 /\ t = type[q]
           /\ job' = [job EXCEPT ![p] = [NoJob EXCEPT
                        !.kind = kind, !.row = q, !.to = k, !.type = t,
                        !.at = CASE kind = "add question" -> "count"
                                 [] kind = "update question" -> "fields"
                                 [] OTHER -> "remove"]]
      BY <1>5 DEF ArriveQuestion
    <2>1. PICK kind \in Kinds(Questions), at \in {"count", "fields", "remove"} :
            job' = [job EXCEPT ![p] = [NoJob EXCEPT
                        !.kind = kind, !.row = q, !.to = k, !.type = t, !.at = at]]
      OBVIOUS
    <2>2. PICK j : j = [NoJob EXCEPT !.kind = kind, !.row = q, !.to = k, !.type = t, !.at = at]
      OBVIOUS
    <2>3. j \in Jobs
      BY <1>1, <1>3, <1>4, <2>2 DEF Jobs, Rows
    <2> QED BY <1>2, <2>1, <2>2, <2>3
  <1>6. CASE ArriveHighlight(p)
    <2>1. PICK q \in Questions, at \in {"read", "set"}, kind \in {"highlight", "clear"} :
            job' = [job EXCEPT ![p] = [NoJob EXCEPT !.kind = kind, !.row = q, !.at = at]]
      BY <1>6 DEF ArriveHighlight, There
    <2>2. PICK j : j = [NoJob EXCEPT !.kind = kind, !.row = q, !.at = at]
      OBVIOUS
    <2>3. j \in Jobs
      BY <1>1, <1>4, <2>2 DEF Jobs, Rows
    <2> QED BY <1>2, <2>1, <2>2, <2>3
  <1>7. CASE ArriveView(p)
    <2> PICK v \in Views, copy \in Views \union {NoRow}, k \in Wanted \union {Absent},
             t \in Names \union {<<>>} :
         \E kind \in Kinds(Views) :
           /\ kind = "update view" => place[v] # Absent
           /\ kind # "update view" => k = Absent /\ t = <<>>
           /\ kind = "create view" => Fresh(v)
           /\ IF kind = "duplicate view" THEN copy \in Views /\ Fresh(copy) ELSE copy = NoRow
           /\ kind \in {"delete view", "duplicate view"} => place[v] # Absent
           /\ job' = [job EXCEPT ![p] = [NoJob EXCEPT
                        !.kind = kind, !.row = v, !.copy = copy, !.to = k, !.title = t,
                        !.at = CASE kind = "create view" -> "titles"
                                 [] kind = "delete view" -> "remove"
                                 [] OTHER -> "get"]]
      BY <1>7 DEF ArriveView
    <2>1. PICK kind \in Kinds(Views), at \in {"titles", "remove", "get"} :
            job' = [job EXCEPT ![p] = [NoJob EXCEPT
                      !.kind = kind, !.row = v, !.copy = copy, !.to = k, !.title = t, !.at = at]]
      OBVIOUS
    <2>2. PICK j : j = [NoJob EXCEPT !.kind = kind, !.row = v, !.copy = copy, !.to = k, !.title = t,
                                     !.at = at]
      OBVIOUS
    <2>3. j \in Jobs
      BY <1>1, <1>3, <1>4, <2>2 DEF Jobs, Rows
    <2> QED BY <1>2, <2>1, <2>2, <2>3
  <1>8. CASE ArriveUpload(p)
    <2>1. PICK s \in Slots, new \in SUBSET Files :
            job' = [job EXCEPT ![p] = [NoJob EXCEPT
                      !.kind = "upload files", !.at = "check", !.slot = s, !.new = new]]
      BY <1>8 DEF ArriveUpload
    <2>2. PICK j : j = [NoJob EXCEPT !.kind = "upload files", !.at = "check", !.slot = s, !.new = new]
      OBVIOUS
    <2>3. j \in Jobs
      BY <1>1, <1>4, <2>2 DEF Jobs
    <2> QED BY <1>2, <2>1, <2>2, <2>3
  <1>9. CASE ArriveDelete(p)
    <2>1. PICK f \in files :
            job' = [job EXCEPT ![p] = [NoJob EXCEPT !.kind = "delete file", !.at = "lock", !.file = f]]
      BY <1>9 DEF ArriveDelete
    <2>2. PICK j : j = [NoJob EXCEPT !.kind = "delete file", !.at = "lock", !.file = f]
      OBVIOUS
    <2>3. j \in Jobs
      BY <1>1, <1>4, <2>2 DEF Jobs, TypeOK
    <2> QED BY <1>2, <2>1, <2>2, <2>3
  <1>10. CASE UpdateLocked(p) \/ PatchAnswer(p) \/ DeleteResponse(p)
    BY <1>1, <1>10 DEF UpdateLocked, PatchAnswer, DeleteResponse
  <1> QED BY <1>5, <1>6, <1>7, <1>8, <1>9, <1>10 DEF Arrive

-----------------------------------------------------------------------------
(* Steps change one request, and take the lock of a free answer only.      *)

OneJob(p) ==
    /\ \A o \in Requests \ {p} : job'[o] = job[o]
    /\ \A s \in Slots : HoldsSlot(p, s)' => HoldsSlot(p, s) \/ SlotFree(s)

LEMMA ArrivalsAreOne ==
    ASSUME TypeOK, NEW p \in Requests, Arrive(p)
    PROVE  OneJob(p)
  <1>1. job = [o \in Requests |-> job[o]]
    BY DEF TypeOK
  <1>2. ASSUME NEW j, job' = [job EXCEPT ![p] = j], j.kind # "upload files" \/ j.at # "attach",
               j.kind # "delete file" \/ j.at # "erase"
        PROVE  OneJob(p)
    BY <1>1, <1>2 DEF OneJob, HoldsSlot
  <1>3. CASE ArriveQuestion(p)
    <2> PICK q \in Questions, k \in Wanted, t \in Types :
         \E kind \in Kinds(Questions) :
           /\ kind = "add question" => Fresh(q)
           /\ kind # "add question" => place[q] # Absent
           /\ kind = "remove question" => k = 1 /\ t = type[q]
           /\ job' = [job EXCEPT ![p] = [NoJob EXCEPT
                        !.kind = kind, !.row = q, !.to = k, !.type = t,
                        !.at = CASE kind = "add question" -> "count"
                                 [] kind = "update question" -> "fields"
                                 [] OTHER -> "remove"]]
      BY <1>3 DEF ArriveQuestion
    <2>3. PICK kind \in Kinds(Questions), at \in {"count", "fields", "remove"} :
            job' = [job EXCEPT ![p] = [NoJob EXCEPT
                        !.kind = kind, !.row = q, !.to = k, !.type = t, !.at = at]]
      OBVIOUS
    <2> QED BY <1>2, <2>3 DEF NoJob
  <1>4. CASE ArriveHighlight(p)
    BY <1>2, <1>4 DEF ArriveHighlight, NoJob
  <1>5. CASE ArriveView(p)
    <2> PICK v \in Views, copy \in Views \union {NoRow}, k \in Wanted \union {Absent},
             t \in Names \union {<<>>} :
         \E kind \in Kinds(Views) :
           /\ kind = "update view" => place[v] # Absent
           /\ kind # "update view" => k = Absent /\ t = <<>>
           /\ kind = "create view" => Fresh(v)
           /\ IF kind = "duplicate view" THEN copy \in Views /\ Fresh(copy) ELSE copy = NoRow
           /\ kind \in {"delete view", "duplicate view"} => place[v] # Absent
           /\ job' = [job EXCEPT ![p] = [NoJob EXCEPT
                        !.kind = kind, !.row = v, !.copy = copy, !.to = k, !.title = t,
                        !.at = CASE kind = "create view" -> "titles"
                                 [] kind = "delete view" -> "remove"
                                 [] OTHER -> "get"]]
      BY <1>5 DEF ArriveView
    <2>2. PICK kind \in Kinds(Views), at \in {"titles", "remove", "get"} :
            job' = [job EXCEPT ![p] = [NoJob EXCEPT
                      !.kind = kind, !.row = v, !.copy = copy, !.to = k, !.title = t, !.at = at]]
      OBVIOUS
    <2> QED BY <1>2, <2>2 DEF NoJob
  <1>6. CASE ArriveUpload(p)
    BY <1>2, <1>6 DEF ArriveUpload, NoJob
  <1>7. CASE ArriveDelete(p)
    BY <1>2, <1>7 DEF ArriveDelete, NoJob
  <1>8. CASE UpdateLocked(p) \/ PatchAnswer(p) \/ DeleteResponse(p)
    BY <1>8 DEF UpdateLocked, PatchAnswer, DeleteResponse, OneJob, HoldsSlot
  <1> QED BY <1>3, <1>4, <1>5, <1>6, <1>7, <1>8 DEF Arrive

LEMMA StepsAreOne ==
    ASSUME TypeOK, ContentInv, NEW p \in Requests, Step(p) \/ Cut(p)
    PROVE  OneJob(p)
  <1>1. job = [o \in Requests |-> job[o]] /\ IsJob(job[p])
    BY DEF TypeOK, ContentInv, RowsOK, JobsAre
  <1>2. CASE Ends(p)
    BY <1>1, <1>2 DEF Ends, OneJob, HoldsSlot, NoJob
  <1>3. ASSUME NEW at, Goes(p, at), job[p].kind = "upload files" => at # "attach",
               job[p].kind = "delete file" => at # "erase"
        PROVE  OneJob(p)
    BY <1>1, <1>3 DEF Goes, OneJob, HoldsSlot, IsJob
  <1>4. CASE QuestionStep(p) /\ ~Ends(p)
    <2>1. job[p].kind \in {"add question", "update question", "remove question", "highlight"}
      BY <1>4 DEF QuestionStep, CountToAdd, BeginShift, ShiftOrdersForInsert, UpdateFields, CountToMove,
         BeginMove, BeginRemove, ReadToHighlight, InsertQuestion, UpdateQuestionOrder, DeleteAndReorder,
         SetHighlight, ClearHighlight
    <2>2. CASE \E at \in {"insert", "count", "set"} : Goes(p, at)
      BY <1>3, <2>1, <2>2
    <2>3. CASE CountToAdd(p)
      BY <1>1, <2>1, <2>3 DEF CountToAdd, OneJob, HoldsSlot, IsJob
    <2>4. CASE BeginShift(p)
      BY <1>1, <2>1, <2>4 DEF BeginShift, OneJob, HoldsSlot, IsJob
    <2>5. CASE CountToMove(p)
      BY <1>1, <2>1, <2>5 DEF CountToMove, OneJob, HoldsSlot, IsJob
    <2>6. CASE BeginMove(p)
      BY <1>1, <2>1, <2>6 DEF BeginMove, OneJob, HoldsSlot, IsJob
    <2>7. CASE BeginRemove(p)
      BY <1>1, <2>1, <2>7 DEF BeginRemove, OneJob, HoldsSlot, IsJob
    <2> QED BY <1>4, <2>2, <2>3, <2>4, <2>5, <2>6, <2>7 DEF QuestionStep, ShiftOrdersForInsert,
           InsertQuestion, UpdateFields, UpdateQuestionOrder, DeleteAndReorder, ReadToHighlight,
           SetHighlight, ClearHighlight
  <1>5. CASE ViewStep(p) /\ ~Ends(p)
    <2>1. job[p].kind \in ViewKinds
      BY <1>5 DEF ViewStep, ReadTitles, ReadMaxOrder, InsertView, GetView, UpdateTitle, ReadMaxToMove,
         BeginViewMove, UpdateViewOrder, GetOriginal, TitleCopy, BeginViewShift, Duplicate,
         DeleteIfUnlocked, DeleteView,
         ViewKinds
    <2>2. Continues(p)
      BY <1>5, ViewContinues DEF ViewStep, InsertView, UpdateViewOrder, Duplicate, DeleteView
    <2>3. PICK j : /\ IsJob(j) /\ job' = [job EXCEPT ![p] = j] /\ j.kind = job[p].kind
      BY <2>2 DEF Continues
    <2> QED BY <1>1, <2>1, <2>3 DEF OneJob, HoldsSlot, ViewKinds
  <1>6. CASE FileStep(p) /\ ~Ends(p)
    <2>1. CASE CheckType(p)
      BY <1>3, <1>6, <2>1 DEF CheckType
    <2>2. CASE LoadPrevious(p)
      BY <1>1, <1>6, <2>2 DEF LoadPrevious, OneJob, HoldsSlot, IsJob
    <2>3. CASE UpsertList(p)
      <3>1. Goes(p, "attach") /\ SlotFree(job[p].slot)
        BY <1>6, <2>3 DEF UpsertList
      <3> QED BY <1>1, <3>1 DEF Goes, OneJob, HoldsSlot, IsJob
    <2>4. CASE LockFile(p)
      <3>1. job[p].kind = "delete file" /\ job[p].at = "lock" /\ ~job[p].writes
        BY <2>4 DEF LockFile, ContentInv, JobFits, DeleteOK
      <3>2. PICK at : job' = [job EXCEPT ![p].slot = attached[job[p].file], ![p].at = at]
        BY <1>6, <2>4 DEF LockFile
      <3>3. job'[p].kind = "delete file" /\ ~job'[p].writes
        BY <1>1, <3>1, <3>2 DEF IsJob
      <3> QED BY <1>1, <3>2, <3>3 DEF OneJob, HoldsSlot
    <2>5. CASE FindReference(p)
      <3>1. job[p].kind = "delete file" /\ job[p].at = "find" /\ ~job[p].writes
        BY <2>5 DEF FindReference, ContentInv, JobFits, DeleteOK
      <3>2. PICK at : job' = [job EXCEPT ![p].list = list[job[p].slot], ![p].at = at]
        BY <1>6, <2>5 DEF FindReference
      <3>3. job'[p].kind = "delete file" /\ ~job'[p].writes
        BY <1>1, <3>1, <3>2 DEF IsJob
      <3> QED BY <1>1, <3>2, <3>3 DEF OneJob, HoldsSlot
    <2>6. CASE PutShorterList(p)
      <3>1. /\ job' = [job EXCEPT ![p].writes = TRUE, ![p].at = "erase"]
            /\ SlotFree(job[p].slot)
        BY <1>6, <2>6 DEF PutShorterList
      <3> QED BY <1>1, <3>1 DEF OneJob, HoldsSlot, IsJob
    <2> QED BY <1>6, <2>1, <2>2, <2>3, <2>4, <2>5, <2>6 DEF FileStep, CommitUpload, CommitDelete
  <1> QED BY <1>2, <1>4, <1>5, <1>6 DEF Step, Cut

\* Rows keep their types.
RowsTyped ==
    /\ place' \in [Rows -> Int]
    /\ type' \in [Questions -> Types]
    /\ title' \in [Views -> Seq(Nat)]
    /\ locked' \in [Views -> BOOLEAN]
    /\ responses' \subseteq Responses
    /\ gone' \subseteq Rows \union Files
    /\ mixed' \subseteq {Questions, Views} /\ crossed' \subseteq Slots

LEMMA PlacesTyped ==
    ASSUME TypeOK
    PROVE  /\ \A rows, snap, after : /\ Shifted(rows, snap, after, 1) \in [Rows -> Int]
                                     /\ Shifted(rows, snap, after, -1) \in [Rows -> Int]
           /\ \A rows, snap, r : \A to \in Int : Moved(rows, snap, r, to) \in [Rows -> Int]
  BY DEF TypeOK, Shifted, Moved

LEMMA ArrivalRows ==
    ASSUME TypeOK, NEW p \in Requests, Arrive(p)
    PROVE  RowsTyped
  <1> USE DEF RowsTyped, TypeOK
  <1>1. CASE ArriveQuestion(p) \/ ArriveView(p)
    BY <1>1 DEF ArriveQuestion, ArriveView, Mixing, questionVars, viewVars, fileVars
  <1>2. CASE ArriveHighlight(p) \/ ArriveUpload(p) \/ ArriveDelete(p)
    BY <1>2 DEF ArriveHighlight, ArriveUpload, ArriveDelete, questionVars, viewVars, fileVars, history
  <1>3. CASE UpdateLocked(p) \/ DeleteResponse(p)
    BY <1>3 DEF UpdateLocked, DeleteResponse, questionVars, viewVars, fileVars, history
  <1>4. CASE PatchAnswer(p)
    BY <1>4 DEF PatchAnswer, questionVars, viewVars
  <1> QED BY <1>1, <1>2, <1>3, <1>4 DEF Arrive

LEMMA QuestionRows ==
    ASSUME TypeOK, ContentInv, NEW p \in Requests, QuestionStep(p)
    PROVE  RowsTyped
  <1>1. /\ job[p].to \in Int /\ job[p].type \in Types
        /\ job[p].kind = "remove question" => job[p].row \in Rows
    BY DEF TypeOK, Jobs, ContentInv, JobFits, PointOK, Rows
  <1>2. UNCHANGED <<viewVars, responses, history>>
    BY DEF QuestionStep, CountToAdd, BeginShift, ShiftOrdersForInsert, UpdateFields, CountToMove,
         BeginMove, BeginRemove, ReadToHighlight, InsertQuestion, UpdateQuestionOrder, DeleteAndReorder,
         SetHighlight, ClearHighlight, fileVars
  <1>3. place' \in [Rows -> Int]
    <2>1. CASE ShiftOrdersForInsert(p)
      BY <1>1, <2>1, PlacesTyped DEF ShiftOrdersForInsert
    <2>2. CASE InsertQuestion(p)
      BY <1>1, <2>2 DEF InsertQuestion, TypeOK
    <2>3. CASE UpdateQuestionOrder(p)
      BY <1>1, <2>3, PlacesTyped DEF UpdateQuestionOrder
    <2>4. CASE DeleteAndReorder(p)
      <3>1. Shifted(Questions, job[p].snap, place[job[p].row], -1) \in [Rows -> Int]
        BY PlacesTyped
      <3>2. Absent \in Int
        BY DEF Absent
      <3> QED BY <2>4, <3>1, <3>2 DEF DeleteAndReorder, TypeOK
    <2>5. CASE UNCHANGED place
      BY <2>5 DEF TypeOK
    <2> QED BY <2>1, <2>2, <2>3, <2>4, <2>5 DEF QuestionStep, CountToAdd, BeginShift, UpdateFields,
         CountToMove, BeginMove, BeginRemove, ReadToHighlight, SetHighlight, ClearHighlight, questionVars
  <1>4. type' \in [Questions -> Types]
    <2>1. UNCHANGED type \/ InsertQuestion(p) \/ UpdateFields(p)
      BY DEF QuestionStep, CountToAdd, BeginShift, CountToMove, ShiftOrdersForInsert, UpdateQuestionOrder,
         DeleteAndReorder, BeginMove, BeginRemove, ReadToHighlight, SetHighlight, ClearHighlight, questionVars
    <2> QED BY <1>1, <2>1 DEF InsertQuestion, UpdateFields, TypeOK
  <1>5. gone' \subseteq Rows \union Files
    <2>1. UNCHANGED gone \/ DeleteAndReorder(p)
      BY DEF QuestionStep, CountToAdd, BeginShift, CountToMove, ShiftOrdersForInsert, UpdateQuestionOrder,
         InsertQuestion, UpdateFields, BeginMove, BeginRemove, ReadToHighlight, SetHighlight, ClearHighlight,
         questionVars
    <2> QED BY <1>1, <2>1 DEF DeleteAndReorder, TypeOK
  <1> QED BY <1>2, <1>3, <1>4, <1>5 DEF RowsTyped, TypeOK, viewVars, history

LEMMA ViewRows ==
    ASSUME TypeOK, ContentInv, NEW p \in Requests, ViewStep(p)
    PROVE  RowsTyped
  <1>1. /\ job[p].to \in Int /\ job[p].title \in Seq(Nat)
        /\ job[p].kind = "delete view" => job[p].row \in Rows
    BY DEF TypeOK, Jobs, ContentInv, JobFits, ViewOK, Rows
  <1>2. UNCHANGED <<type, responses, history>>
    BY DEF ViewStep, ReadTitles, ReadMaxOrder, InsertView, GetView, UpdateTitle, ReadMaxToMove,
         BeginViewMove, UpdateViewOrder, GetOriginal, TitleCopy, BeginViewShift, Duplicate,
         DeleteIfUnlocked, DeleteView,
         fileVars, questionVars
  <1>3. place' \in [Rows -> Int]
    <2>1. CASE InsertView(p)
      BY <1>1, <2>1 DEF InsertView, TypeOK
    <2>2. CASE UpdateViewOrder(p)
      BY <1>1, <2>2, PlacesTyped DEF UpdateViewOrder
    <2>3. CASE Duplicate(p)
      <3>1. PICK k \in Int : k = job[p].to
        BY <1>1
      <3>2. Shifted(Views, job[p].snap, k, 1) \in [Rows -> Int]
        BY PlacesTyped
      <3>3. \/ place' = place
            \/ place' = [Shifted(Views, job[p].snap, k, 1) EXCEPT ![job[p].copy] = k + 1]
        BY <2>3, <3>1 DEF Duplicate
      <3>4. k + 1 \in Int
        OBVIOUS
      <3> QED BY <3>2, <3>3, <3>4 DEF TypeOK
    <2>4. CASE DeleteView(p)
      <3>1. Shifted(Views, job[p].snap, place[job[p].row], -1) \in [Rows -> Int]
        BY PlacesTyped
      <3>2. Absent \in Int
        BY DEF Absent
      <3> QED BY <2>4, <3>1, <3>2 DEF DeleteView
    <2>5. CASE UNCHANGED place
      BY <2>5 DEF TypeOK
    <2> QED BY <2>1, <2>2, <2>3, <2>4, <2>5 DEF ViewStep, ReadTitles, ReadMaxOrder, GetView, UpdateTitle,
         ReadMaxToMove, BeginViewMove, GetOriginal, TitleCopy, BeginViewShift, DeleteIfUnlocked, questionVars
  <1>4. title' \in [Views -> Seq(Nat)] /\ locked' \in [Views -> BOOLEAN]
    <2>1. UNCHANGED viewVars \/ InsertView(p) \/ UpdateTitle(p) \/ Duplicate(p)
      BY DEF ViewStep, ReadTitles, ReadMaxOrder, GetView, UpdateViewOrder, DeleteView,
         ReadMaxToMove, BeginViewMove, GetOriginal, TitleCopy, BeginViewShift, DeleteIfUnlocked
    <2> QED BY <1>1, <2>1 DEF InsertView, UpdateTitle, Duplicate, TypeOK, viewVars
  <1>5. gone' \subseteq Rows \union Files
    <2>1. UNCHANGED gone \/ DeleteView(p)
      BY DEF ViewStep, ReadTitles, ReadMaxOrder, GetView, UpdateTitle, InsertView, UpdateViewOrder, Duplicate,
         ReadMaxToMove, BeginViewMove, GetOriginal, TitleCopy, BeginViewShift, DeleteIfUnlocked, questionVars
    <2> QED BY <1>1, <2>1 DEF DeleteView, TypeOK
  <1> QED BY <1>2, <1>3, <1>4, <1>5 DEF RowsTyped, TypeOK, history

LEMMA FileRows ==
    ASSUME TypeOK, ContentInv, NEW p \in Requests, FileStep(p) \/ Cut(p)
    PROVE  RowsTyped
  <1> USE DEF RowsTyped, TypeOK
  <1>1. CASE CommitUpload(p)
    <2>1. job[p].slot \in Slots
      BY <1>1 DEF CommitUpload, ContentInv, JobFits, UploadOK
    <2> QED BY <1>1, <2>1 DEF CommitUpload, Write, questionVars, viewVars
  <1>2. CASE CommitDelete(p)
    <2>1. job[p].file \in Files /\ (job[p].writes => job[p].slot \in Slots)
      BY <1>2 DEF CommitDelete, ContentInv, JobFits, DeleteOK
    <2> QED BY <1>2, <2>1 DEF CommitDelete, Write, viewVars
  <1>3. CASE Cut(p)
    BY <1>3 DEF Cut, questionVars, viewVars, fileVars
  <1>4. CASE UNCHANGED <<questionVars, viewVars, fileVars, history>>
    BY <1>4 DEF questionVars, viewVars, fileVars, history
  <1> QED BY <1>1, <1>2, <1>3, <1>4 DEF FileStep, CheckType, LoadPrevious, UpsertList, LockFile, FindReference,
       PutShorterList

LEMMA FirstViewPlaces ==
    ASSUME NEW v \in Views
    PROVE  /\ PlaceIn(OldViews, v, 0) \in Places
           /\ (\E i \in DOMAIN OldViews : OldViews[i] = v) => PlaceIn(OldViews, v, 0) \in Nat
  <1>1. OldViews \in Seq(Views) /\ DOMAIN OldViews \subseteq Nat \ {0}
    BY ContentAssumption
  <1>2. CASE \E i \in DOMAIN OldViews : OldViews[i] = v
    <2>1. PICK i : i = CHOOSE k \in DOMAIN OldViews : OldViews[k] = v
      OBVIOUS
    <2>2. i \in DOMAIN OldViews
      BY <1>2, <2>1
    <2>3. PlaceIn(OldViews, v, 0) = 0 - 1 + i
      BY <1>2, <2>1 DEF PlaceIn
    <2> QED BY <1>1, <2>2, <2>3 DEF Places
  <1>3. CASE ~ \E i \in DOMAIN OldViews : OldViews[i] = v
    BY <1>3 DEF PlaceIn, Places
  <1> QED BY <1>2, <1>3

LEMMA TypeStarts ==
    ASSUME Init PROVE TypeOK
  <1>1. ContentInv
    BY InvStarts
  <1>2. place \in [Rows -> Int] /\ \A v \in Views : place[v] # Absent => place[v] \in Nat
    <2>1. \A q \in Questions : PlaceIn(OldQuestions, q, 1) \in Int
      BY FirstPlaces DEF Places, Absent
    <2>2. \A v \in Views : PlaceIn(OldViews, v, 0) \in Int /\ (PlaceIn(OldViews, v, 0) # Absent => PlaceIn(OldViews, v, 0) \in Nat)
      BY FirstViewPlaces DEF Places, Absent
    <2>3. place = [x \in Rows |-> IF x \in Questions THEN PlaceIn(OldQuestions, x, 1) ELSE PlaceIn(OldViews, x, 0)]
      BY DEF Init
    <2>4. \A v \in Views : v \notin Questions
      BY ContentAssumption
    <2> QED BY <2>1, <2>2, <2>3, <2>4 DEF Rows
  <1>3. title \in [Views -> Seq(Nat)]
    <2>1. \A v \in Views : (IF place[v] = Absent THEN <<>> ELSE <<place[v]>>) \in Seq(Nat)
      BY <1>2
    <2>2. title = [v \in Views |-> IF place[v] = Absent THEN <<>> ELSE <<place[v]>>]
      BY DEF Init
    <2> QED BY <2>1, <2>2
  <1>4. /\ type \in [Questions -> Types] /\ locked \in [Views -> BOOLEAN]
        /\ responses \subseteq Responses /\ gone \subseteq Rows \union Files
        /\ mixed \subseteq {Questions, Views} /\ crossed \subseteq Slots /\ asked \in Nat
    BY ContentAssumption DEF Init
  <1>5. job \in [Requests -> Jobs] /\ \A p \in Requests : job[p] = NoJob
    BY NoJobIn DEF Init
  <1>6. \A p \in Requests : (\A s \in Slots : ~HoldsSlot(p, s)) /\ \A f \in Files : ~HoldsFile(p, f)
    <2>1. \A p \in Requests : job[p].kind = "none"
      BY <1>5 DEF NoJob
    <2> QED BY <2>1 DEF HoldsSlot, HoldsFile
  <1> QED BY <1>1, <1>2, <1>3, <1>4, <1>5, <1>6 DEF TypeOK, ContentInv, RowsOK

LEMMA TypeStays ==
    ASSUME TypeOK, ContentInv, [Next]_vars PROVE TypeOK'
  <1>1. ContentInv'
    BY InvStays
  <1>2. CASE UNCHANGED vars
    BY <1>2 DEF vars, questionVars, viewVars, fileVars, history, TypeOK, HoldsSlot, HoldsFile
  <1>3. ASSUME NEW p \in Requests,
               \/ asked' = asked + 1 /\ Arrive(p)
               \/ (Step(p) \/ Cut(p)) /\ UNCHANGED asked
        PROVE  TypeOK'
    <2>1. job' \in [Requests -> Jobs]
      <3>1. CASE Cut(p)
        BY <3>1, NoJobIn DEF Cut, Ends, TypeOK
      <3> QED BY <1>3, <3>1, NewJobsTyped, QuestionJobsTyped, ViewJobsTyped, FileJobsTyped DEF Step
    <2>2. RowsTyped
      BY <1>3, ArrivalRows, QuestionRows, ViewRows, FileRows DEF Step
    <2>3. OneJob(p)
      BY <1>3, ArrivalsAreOne, StepsAreOne
    <2>4. \A o, other \in Requests : o # other =>
            \A s \in Slots : ~(HoldsSlot(o, s)' /\ HoldsSlot(other, s)')
      <3> SUFFICES ASSUME NEW o \in Requests, NEW other \in Requests, o # other, NEW s \in Slots,
                          HoldsSlot(o, s)', HoldsSlot(other, s)'
                   PROVE  FALSE
        OBVIOUS
      <3>1. \A x \in Requests \ {p} : HoldsSlot(x, s)' => HoldsSlot(x, s)
        BY <2>3 DEF OneJob, HoldsSlot
      <3>2. HoldsSlot(p, s)' => HoldsSlot(p, s) \/ \A x \in Requests : ~HoldsSlot(x, s)
        BY <2>3 DEF OneJob, SlotFree
      <3> QED BY <3>1, <3>2 DEF TypeOK
    <2>5. asked' \in Nat
      BY <1>3 DEF TypeOK
    <2>6. \A o, other \in Requests : o # other => \A f \in Files : ~(HoldsFile(o, f)' /\ HoldsFile(other, f)')
      BY <1>1 DEF ContentInv, Apart
    <2>7. /\ highlight' \in Questions \union {NoRow} /\ answered' \subseteq Slots
          /\ list' \in [Slots -> SUBSET Files] /\ attached' \in [Files -> Slots \union {NoSlot}]
          /\ files' \subseteq Files
      BY <1>1 DEF ContentInv, RowsOK
    <2> QED BY <2>1, <2>2, <2>4, <2>5, <2>6, <2>7 DEF TypeOK, RowsTyped
  <1>4. ASSUME NEW p \in Requests, Cut(p) PROVE UNCHANGED asked
    BY <1>4 DEF Cut
  <1> QED BY <1>2, <1>3, <1>4 DEF Next

\* The rows of the tables and what requests carry have their types, a row that a request
\* reads in between is one that is there, some number makes a title unique, and two
\* transactions never hold the lock of the same file or answer.
THEOREM ContentTyped == Spec => []TypeOK
  <1>1. Init => ContentInv /\ TypeOK
    BY InvStarts, TypeStarts
  <1>2. ContentInv /\ TypeOK /\ [Next]_vars => (ContentInv /\ TypeOK)'
    BY InvStays, TypeStays
  <1> QED BY <1>1, <1>2, PTL DEF Spec

-----------------------------------------------------------------------------
(* What a statement does to the places of a list that nothing else changes. *)

\* The rows of a list have the places S, one each.
Fills(rows, S) ==
    /\ \A x \in There(rows) : place[x] \in S
    /\ \A s \in S : \E x \in rows : place[x] = s
    /\ \A x, y \in There(rows) : place[x] = place[y] => x = y

LEMMA RowsShift ==
    ASSUME NEW rows \in SUBSET Rows, NEW a \in Nat, NEW n \in Nat, NEW k \in a .. a + n - 1,
           NEW snap, \A x \in rows : snap[x] = place[x],
           Fills(rows, a .. a + n - 1), place' = Shifted(rows, snap, k - 1, 1)
    PROVE  Fills(rows, (a .. a + n) \ {k})'
  <1> USE DEF Absent, There
  <1>1. \A x \in rows : place[x] = Absent \/ place[x] \in a .. a + n - 1
    BY DEF Fills
  <1>2. \A x \in rows : place'[x] = IF place[x] # Absent /\ place[x] >= k THEN place[x] + 1 ELSE place[x]
    BY <1>1 DEF Shifted
  <1>3. \A x \in rows : place'[x] # Absent <=> place[x] # Absent
    BY <1>1, <1>2
  <1>4. ASSUME NEW x \in rows, place'[x] # Absent PROVE place'[x] \in (a .. a + n) \ {k}
    BY <1>1, <1>2, <1>3, <1>4
  <1>5. ASSUME NEW s \in (a .. a + n) \ {k} PROVE \E x \in rows : place'[x] = s
    <2>1. CASE s < k
      <3>1. PICK x \in rows : place[x] = s
        BY <2>1, <1>5 DEF Fills
      <3> QED BY <1>2, <2>1, <3>1
    <2>2. CASE s > k
      <3>1. PICK x \in rows : place[x] = s - 1
        BY <2>2, <1>5 DEF Fills
      <3> QED BY <1>2, <2>2, <3>1
    <2> QED BY <2>1, <2>2
  <1>6. ASSUME NEW x \in rows, NEW y \in rows, place'[x] # Absent, place'[y] # Absent, place'[x] = place'[y]
        PROVE  x = y
    <2>1. place[x] # Absent /\ place[y] # Absent /\ place[x] \in Int /\ place[y] \in Int
      BY <1>1, <1>3, <1>6
    <2>2. place[x] = place[y]
      BY <1>2, <1>6, <2>1
    <2> QED BY <2>1, <2>2 DEF Fills
  <1> QED BY <1>4, <1>5, <1>6 DEF Fills

LEMMA RowPut ==
    ASSUME NEW rows \in SUBSET Rows, NEW S, Absent \notin S, NEW k, k # Absent, k \notin S, NEW r \in rows,
           place[r] = Absent, place \in [Rows -> Int], Fills(rows, S),
           place' = [place EXCEPT ![r] = k]
    PROVE  Fills(rows, S \union {k})'
  <1> USE DEF There
  <1>1. place'[r] = k /\ \A x \in rows \ {r} : place'[x] = place[x]
    OBVIOUS
  <1>2. ASSUME NEW x \in rows, place'[x] # Absent PROVE place'[x] \in S \union {k}
    BY <1>1, <1>2 DEF Fills
  <1>3. ASSUME NEW s \in S \union {k} PROVE \E x \in rows : place'[x] = s
    <2>1. CASE s = k
      BY <1>1, <2>1
    <2>2. CASE s # k
      <3>1. PICK x \in rows : place[x] = s
        BY <1>3, <2>2 DEF Fills
      <3>2. CASE x = r
        BY <1>3, <2>2, <3>1, <3>2
      <3> QED BY <1>1, <3>1, <3>2
    <2> QED BY <2>1, <2>2
  <1>4. ASSUME NEW x \in rows, NEW y \in rows, place'[x] # Absent, place'[y] # Absent, place'[x] = place'[y]
        PROVE  x = y
    BY <1>1, <1>4 DEF Fills
  <1> QED BY <1>2, <1>3, <1>4 DEF Fills

LEMMA RowMoves ==
    ASSUME NEW rows \in SUBSET Rows, NEW a \in Nat, NEW n \in Nat, NEW to \in a .. a + n - 1, NEW r \in There(rows),
           NEW snap, \A x \in rows : snap[x] = place[x],
           Fills(rows, a .. a + n - 1), place' = Moved(rows, snap, r, to)
    PROVE  Fills(rows, a .. a + n - 1)'
  <1> USE DEF Absent, There
  <1>1. \A x \in rows : place[x] = Absent \/ place[x] \in a .. a + n - 1
    BY DEF Fills
  <1>2. PICK s \in a .. a + n - 1 : s = place[r]
    BY <1>1
  <1>3. \A x \in rows : place'[x] = IF place[x] = Absent THEN place[x]
                                    ELSE IF x = r THEN to
                                    ELSE IF s < place[x] /\ place[x] <= to THEN place[x] - 1
                                    ELSE IF to <= place[x] /\ place[x] < s THEN place[x] + 1
                                    ELSE place[x]
    BY <1>2 DEF Moved
  <1>4. \A x \in rows : place[x] # Absent /\ x # r => place[x] # s
    BY <1>2 DEF Fills
  <1>5. \A x \in rows : place'[x] = Absent <=> place[x] = Absent
    BY <1>1, <1>3
  <1>6. ASSUME NEW x \in rows, place'[x] # Absent PROVE place'[x] \in a .. a + n - 1
    BY <1>1, <1>2, <1>3, <1>4, <1>5, <1>6
  <1>7. ASSUME NEW m \in a .. a + n - 1 PROVE \E x \in rows : place'[x] = m
    <2>1. CASE m = to
      BY <1>2, <1>3, <2>1
    <2>2. CASE s <= m /\ m < to
      <3>1. PICK x \in rows : place[x] = m + 1
        BY <2>2 DEF Fills
      <3>2. x # r
        BY <1>2, <2>2, <3>1
      <3> QED BY <1>1, <1>3, <2>2, <3>1, <3>2
    <2>3. CASE to < m /\ m <= s
      <3>1. PICK x \in rows : place[x] = m - 1
        BY <2>3 DEF Fills
      <3>2. x # r
        BY <1>2, <2>3, <3>1
      <3> QED BY <1>1, <1>3, <2>3, <3>1, <3>2
    <2>4. CASE m # to /\ ~(s <= m /\ m < to) /\ ~(to < m /\ m <= s)
      <3>1. PICK x \in rows : place[x] = m
        BY DEF Fills
      <3>2. x # r
        BY <1>2, <2>4, <3>1
      <3> QED BY <1>1, <1>3, <2>4, <3>1, <3>2
    <2> QED BY <2>1, <2>2, <2>3, <2>4
  <1>8. ASSUME NEW x \in rows, NEW y \in rows, place'[x] # Absent, place'[y] # Absent, place'[x] = place'[y]
        PROVE  x = y
    <2> SUFFICES ASSUME x # y PROVE FALSE
      OBVIOUS
    <2>1. place[x] # Absent /\ place[y] # Absent /\ place[x] \in Int /\ place[y] \in Int /\ place[x] # place[y]
      BY <1>1, <1>5, <1>8 DEF Fills
    <2>2. (x = r => place[x] = s /\ place[y] # s) /\ (y = r => place[y] = s /\ place[x] # s)
      BY <1>2, <2>1
    <2>3. x # r => place[x] # s
      BY <1>4, <2>1
    <2>4. y # r => place[y] # s
      BY <1>4, <2>1
    <2> QED BY <1>2, <1>3, <1>8, <2>1, <2>2, <2>3, <2>4
  <1> QED BY <1>6, <1>7, <1>8 DEF Fills

LEMMA RowsClose ==
    ASSUME NEW rows \in SUBSET Rows, NEW a \in Nat, NEW n \in Nat, NEW r \in There(rows),
           NEW snap, \A x \in rows : snap[x] = place[x],
           Fills(rows, a .. a + n - 1),
           place' = [Shifted(rows, snap, place[r], -1) EXCEPT ![r] = Absent]
    PROVE  /\ n - 1 \in Nat
           /\ Fills(rows, a .. a + (n - 1) - 1)'
  <1> USE DEF Absent, There
  <1>1. \A x \in rows : place[x] = Absent \/ place[x] \in a .. a + n - 1
    BY DEF Fills
  <1>2. PICK s \in a .. a + n - 1 : s = place[r]
    BY <1>1
  <1>3. \A x \in rows : place'[x] = IF x = r THEN Absent
                                    ELSE IF place[x] # Absent /\ place[x] > s THEN place[x] - 1 ELSE place[x]
    BY <1>1, <1>2 DEF Shifted
  <1>4. \A x \in rows \ {r} : place[x] # Absent => place[x] # s
    BY <1>2 DEF Fills
  <1>5. \A x \in rows : place'[x] # Absent <=> place[x] # Absent /\ x # r
    BY <1>1, <1>3
  <1>6. ASSUME NEW x \in rows, place'[x] # Absent PROVE place'[x] \in a .. a + (n - 1) - 1
    BY <1>1, <1>2, <1>3, <1>4, <1>5, <1>6
  <1>7. ASSUME NEW m \in a .. a + (n - 1) - 1 PROVE \E x \in rows : place'[x] = m
    <2>1. CASE m < s
      <3>1. PICK x \in rows : place[x] = m
        BY DEF Fills
      <3> QED BY <1>1, <1>2, <1>3, <2>1, <3>1
    <2>2. CASE m >= s
      <3>1. PICK x \in rows : place[x] = m + 1
        BY DEF Fills
      <3> QED BY <1>1, <1>2, <1>3, <2>2, <3>1
    <2> QED BY <2>1, <2>2
  <1>8. ASSUME NEW x \in rows, NEW y \in rows, place'[x] # Absent, place'[y] # Absent, place'[x] = place'[y]
        PROVE  x = y
    <2>1. /\ place[x] # Absent /\ place[y] # Absent /\ place[x] \in Int /\ place[y] \in Int
          /\ x # r /\ y # r /\ place[x] # s /\ place[y] # s
      BY <1>1, <1>4, <1>5, <1>8
    <2>2. place[x] = place[y]
      BY <1>2, <1>3, <1>8, <2>1
    <2> QED BY <2>1, <2>2 DEF Fills
  <1>9. n - 1 \in Nat
    BY <1>2
  <1> QED BY <1>6, <1>7, <1>8, <1>9 DEF Fills

\* The rows after k make room and a row is put there, by one statement after another
\* of one transaction.
LEMMA RowsSplit ==
    ASSUME NEW rows \in SUBSET Rows, NEW a \in Nat, NEW n \in Nat, NEW k \in a .. a + n - 1, NEW r \in rows,
           place[r] = Absent, NEW snap, \A x \in rows : snap[x] = place[x],
           Fills(rows, a .. a + n - 1),
           place' = [Shifted(rows, snap, k, 1) EXCEPT ![r] = k + 1]
    PROVE  Fills(rows, a .. a + (n + 1) - 1)'
  <1> USE DEF Absent, There
  <1>1. \A x \in rows : place[x] = Absent \/ place[x] \in a .. a + n - 1
    BY DEF Fills
  <1>2. \A x \in rows : place'[x] = IF x = r THEN k + 1
                                    ELSE IF place[x] # Absent /\ place[x] > k THEN place[x] + 1 ELSE place[x]
    BY <1>1 DEF Shifted
  <1>3. \A x \in rows : place'[x] # Absent <=> place[x] # Absent \/ x = r
    BY <1>1, <1>2
  <1>4. ASSUME NEW x \in rows, place'[x] # Absent PROVE place'[x] \in a .. a + (n + 1) - 1
    BY <1>1, <1>2, <1>3, <1>4
  <1>5. ASSUME NEW m \in a .. a + (n + 1) - 1 PROVE \E x \in rows : place'[x] = m
    <2>1. CASE m = k + 1
      BY <1>2, <2>1
    <2>2. CASE m <= k
      <3>1. PICK x \in rows : place[x] = m
        BY <2>2 DEF Fills
      <3> QED BY <1>1, <1>2, <2>2, <3>1
    <2>3. CASE m > k + 1
      <3>1. PICK x \in rows : place[x] = m - 1
        BY <2>3 DEF Fills
      <3> QED BY <1>1, <1>2, <2>3, <3>1
    <2> QED BY <2>1, <2>2, <2>3
  <1>6. ASSUME NEW x \in rows, NEW y \in rows, place'[x] # Absent, place'[y] # Absent, place'[x] = place'[y]
        PROVE  x = y
    <2> SUFFICES ASSUME x # y PROVE FALSE
      OBVIOUS
    <2>1. (x = r \/ place[x] \in a .. a + n - 1) /\ (y = r \/ place[y] \in a .. a + n - 1)
      BY <1>1, <1>3, <1>6
    <2>2. CASE x = r
      BY <1>2, <1>6, <2>1, <2>2
    <2>3. CASE y = r
      BY <1>2, <1>6, <2>1, <2>3
    <2>4. CASE x # r /\ y # r
      <3>1. place[x] # Absent /\ place[y] # Absent
        BY <1>3, <1>6, <2>4
      <3>2. place[x] # place[y]
        BY <3>1 DEF Fills
      <3> QED BY <1>2, <1>6, <2>1, <2>4, <3>1, <3>2
    <2> QED BY <2>2, <2>3, <2>4
  <1> QED BY <1>4, <1>5, <1>6 DEF Fills

LEMMA RowsCounted ==
    ASSUME NEW rows, IsFiniteSet(rows), NEW a \in Nat, NEW n \in Nat, Fills(rows, a .. a + n - 1)
    PROVE  Cardinality(There(rows)) = n /\ {place[x] : x \in There(rows)} = a .. a + n - 1
  <1>1. {place[x] : x \in There(rows)} = a .. a + n - 1
    <2>1. \A s \in a .. a + n - 1 : s # Absent
      BY DEF Absent
    <2> QED BY <2>1 DEF Fills, There
  <1>2. IsFiniteSet(There(rows))
    BY FS_Subset DEF There
  <1>3. PICK f : f = [x \in There(rows) |-> place[x]]
    OBVIOUS
  <1>4. f \in Injection(There(rows), a .. a + n - 1)
    BY <1>3 DEF Fills, Injection, IsInjective
  <1>5. f \in Surjection(There(rows), a .. a + n - 1)
    BY <1>1, <1>3 DEF Surjection
  <1>6. IsFiniteSet(a .. a + n - 1) /\ Cardinality(a .. a + n - 1) = n
    <2>1. Cardinality(a .. a + n - 1) = IF a > a + n - 1 THEN 0 ELSE a + n - 1 - a + 1
      BY FS_Interval
    <2> QED BY <2>1, FS_Interval
  <1>7. Cardinality(There(rows)) = Cardinality(a .. a + n - 1)
    BY <1>2, <1>4, <1>5, <1>6, FS_Injection
  <1> QED BY <1>1, <1>6, <1>7

-----------------------------------------------------------------------------
(* Places begin at the first one.                                          *)

FirstOf(x) == IF x \in Questions THEN 1 ELSE 0

AtFirst == \A x \in Rows : place[x] # Absent => place[x] >= FirstOf(x)

\* The row a request is to make, and the rows it has to do with.
Makes(j, x) ==
    \/ j.kind \in {"add question", "create view"} /\ j.row = x
    \/ j.kind = "duplicate view" /\ j.copy = x

Concerns(j, x) == x = j.row \/ x = j.copy

Deletes(p, x) ==
    job[p].kind = "delete view" /\ job[p].at \in {"shift", "shifting"} /\ job[p].row = x

\* Where a request is about to put its row: before the first place only a row that has
\* gone in the meantime.
Aims(p) ==
    /\ job[p].kind = "add question" /\ job[p].at # "count" => job[p].to >= 1
    /\ job[p].kind = "update question" /\ job[p].at \in {"move", "moving"} =>
          job[p].to >= 1 \/ place[job[p].row] = Absent
    /\ job[p].kind = "update question" /\ job[p].at = "moving" =>
          /\ job[p].snap[job[p].row] # Absent => job[p].to >= 1
          /\ \A x \in Questions : job[p].snap[x] # Absent => job[p].snap[x] >= 1
    /\ job[p].kind = "create view" /\ job[p].at = "insert" => job[p].to >= 0
    /\ job[p].kind = "update view" /\ job[p].at \in {"move", "moving"} =>
          job[p].to >= 0 \/ place[job[p].row] = Absent
    /\ job[p].kind = "update view" /\ job[p].at = "moving" =>
          /\ job[p].snap[job[p].row] # Absent => job[p].to >= 0
          /\ \A x \in Views : job[p].snap[x] # Absent => job[p].snap[x] >= 0
    /\ job[p].kind = "duplicate view" /\ job[p].at \in {"titles", "shift", "shifting"} => job[p].to >= 0
    /\ job[p].kind = "delete view" /\ job[p].at \in {"shift", "shifting"} => place[job[p].row] # Absent

OrderInv ==
    /\ AtFirst
    /\ \A p \in Requests : Aims(p)
    /\ \A p \in Requests, x \in Rows : Makes(job[p], x) =>
         place[x] = Absent /\ \A o \in Requests \ {p} : ~Concerns(job[o], x)
    /\ \A p, o \in Requests, x \in Rows : Deletes(p, x) /\ Deletes(o, x) => p = o

\* What a step does to the rows there are.
RowsComeAndGo(p) ==
    /\ \A x \in Rows : place[x] = Absent /\ place'[x] # Absent => Makes(job[p], x)
    /\ \A x \in Rows : place[x] # Absent /\ place'[x] = Absent => x \in Questions \/ Deletes(p, x)

LEMMA OrderStep ==
    ASSUME TypeOK, ContentInv, OrderInv, NEW p \in Requests, OneJob(p), AtFirst', RowsComeAndGo(p), Aims(p)',
           \A x \in Rows : Concerns(job'[p], x) => Concerns(job[p], x) \/ place[x] # Absent \/ Fresh(x),
           \A x \in Rows : Makes(job'[p], x) => place'[x] = Absent /\ (Makes(job[p], x) \/ Fresh(x)),
           \A x \in Rows : Deletes(p, x)' => Deletes(p, x) \/ ~Taken(x)
    PROVE  OrderInv'
  <1>1. \A o \in Requests \ {p} : job'[o] = job[o]
    BY DEF OneJob
  <1>2. ASSUME NEW o \in Requests \ {p} PROVE Aims(o)'
    <2>1. job'[o] = job[o] /\ Aims(o) /\ JobFits(o)
      BY <1>1 DEF OrderInv, ContentInv
    <2>2. ASSUME job[o].row \in Rows, place[job[o].row] = Absent PROVE place'[job[o].row] = Absent
      BY <2>2 DEF RowsComeAndGo, OrderInv, Concerns
    <2>3. ASSUME job[o].kind = "delete view", job[o].at \in {"shift", "shifting"}
          PROVE  place'[job[o].row] # Absent
      <3>1. job[o].row \in Rows /\ job[o].row \notin Questions
        BY <2>1, <2>3, ContentAssumption DEF JobFits, ViewOK, Rows
      <3>2. place[job[o].row] # Absent /\ Deletes(o, job[o].row)
        BY <2>1, <2>3 DEF Aims, Deletes
      <3>3. ~Deletes(p, job[o].row)
        BY <3>1, <3>2 DEF OrderInv
      <3> QED BY <3>1, <3>2, <3>3 DEF RowsComeAndGo
    <2>4. job[o].kind = "update question" \/ job[o].kind = "update view" => job[o].row \in Rows
      BY <2>1 DEF JobFits, MoveOK, ViewOK, Rows
    <2> QED BY <2>1, <2>2, <2>3, <2>4 DEF Aims
  <1>3. ASSUME NEW o \in Requests, NEW x \in Rows, Makes(job'[o], x)
        PROVE  place'[x] = Absent /\ \A other \in Requests \ {o} : ~Concerns(job'[other], x)
    <2>1. CASE o = p
      <3>1. place'[x] = Absent /\ (Makes(job[p], x) \/ Fresh(x))
        BY <1>3, <2>1
      <3>2. \A other \in Requests \ {p} : ~Concerns(job[other], x)
        BY <3>1 DEF OrderInv, Fresh, Concerns
      <3> QED BY <1>1, <2>1, <3>1, <3>2
    <2>2. CASE o # p
      <3>1. Makes(job[o], x) /\ place[x] = Absent /\ \A other \in Requests \ {o} : ~Concerns(job[other], x)
        BY <1>1, <1>3, <2>2 DEF OrderInv
      <3>2. ~Makes(job[p], x)
        <4>1. ~Concerns(job[p], x)
          BY <2>2, <3>1
        <4> QED BY <4>1 DEF Makes, Concerns
      <3>3. place'[x] = Absent
        BY <3>1, <3>2 DEF RowsComeAndGo
      <3>4. ~Fresh(x)
        BY <2>2, <3>1 DEF Fresh, Makes
      <3>5. ~Concerns(job'[p], x)
        BY <2>2, <3>1, <3>4
      <3> QED BY <1>1, <2>2, <3>1, <3>3, <3>5
    <2> QED BY <2>1, <2>2
  <1>4. ASSUME NEW o \in Requests, NEW other \in Requests, NEW x \in Rows, Deletes(o, x)', Deletes(other, x)'
        PROVE  o = other
    <2>1. \A r \in Requests \ {p} : Deletes(r, x)' => Deletes(r, x) /\ Taken(x)
      BY <1>1 DEF Deletes, Taken
    <2> QED BY <1>4, <2>1 DEF OrderInv
  <1>5. \A o \in Requests : Aims(o)'
    BY <1>2
  <1> QED BY <1>3, <1>4, <1>5 DEF OrderInv

\* A request goes on with the rows it had, or ends.
Proceeds(p) ==
    \/ job'[p] = NoJob
    \/ job'[p].kind = job[p].kind /\ job'[p].row = job[p].row /\ job'[p].copy = job[p].copy

LEMMA StepsProceed ==
    ASSUME TypeOK, ContentInv, NEW p \in Requests, Step(p) \/ Cut(p)
    PROVE  Proceeds(p)
  <1>1. job = [o \in Requests |-> job[o]] /\ IsJob(job[p])
    BY DEF TypeOK, ContentInv, RowsOK, JobsAre
  <1>2. CASE Ends(p)
    BY <1>1, <1>2 DEF Ends, Proceeds
  <1>3. ASSUME NEW at, Goes(p, at) PROVE Proceeds(p)
    BY <1>1, <1>3 DEF Goes, Proceeds, IsJob
  <1>4. CASE QuestionStep(p)
    <2>1. CASE CountToAdd(p)
      BY <1>1, <2>1 DEF CountToAdd, Proceeds, IsJob
    <2>2. CASE BeginShift(p)
      BY <1>1, <2>2 DEF BeginShift, Proceeds, IsJob
    <2>3. CASE CountToMove(p)
      BY <1>1, <2>3 DEF CountToMove, Proceeds, IsJob
    <2>4. CASE BeginMove(p)
      BY <1>1, <2>4 DEF BeginMove, Proceeds, IsJob
    <2>5. CASE BeginRemove(p)
      BY <1>1, <2>5 DEF BeginRemove, Proceeds, IsJob
    <2> QED BY <1>2, <1>3, <1>4, <2>1, <2>2, <2>3, <2>4, <2>5 DEF QuestionStep, ShiftOrdersForInsert,
           InsertQuestion, UpdateFields, UpdateQuestionOrder, DeleteAndReorder, ReadToHighlight,
           SetHighlight, ClearHighlight
  <1>5. CASE ViewStep(p) /\ ~Ends(p)
    <2>1. Continues(p)
      BY <1>5, ViewContinues DEF ViewStep, InsertView, UpdateViewOrder, Duplicate, DeleteView
    <2> QED BY <1>1, <2>1 DEF Continues, Proceeds
  <1>6. CASE FileStep(p) /\ ~Ends(p)
    <2>1. CASE LoadPrevious(p)
      BY <1>1, <1>6, <2>1 DEF LoadPrevious, Proceeds, IsJob
    <2>2. CASE LockFile(p)
      <3>1. PICK at : job' = [job EXCEPT ![p].slot = attached[job[p].file], ![p].at = at]
        BY <1>6, <2>2 DEF LockFile
      <3> QED BY <1>1, <3>1 DEF Proceeds, IsJob
    <2>3. CASE FindReference(p)
      <3>1. PICK at : job' = [job EXCEPT ![p].list = list[job[p].slot], ![p].at = at]
        BY <1>6, <2>3 DEF FindReference
      <3> QED BY <1>1, <3>1 DEF Proceeds, IsJob
    <2>4. CASE PutShorterList(p)
      <3>1. job' = [job EXCEPT ![p].writes = TRUE, ![p].at = "erase"]
        BY <1>6, <2>4 DEF PutShorterList
      <3> QED BY <1>1, <3>1 DEF Proceeds, IsJob
    <2> QED BY <1>3, <1>6, <2>1, <2>2, <2>3, <2>4 DEF FileStep, CheckType, UpsertList, CommitUpload, CommitDelete
  <1> QED BY <1>2, <1>4, <1>5, <1>6 DEF Step, Cut

\* Rows stay where they are.
LEMMA OrderReads ==
    ASSUME TypeOK, ContentInv, OrderInv, NEW p \in Requests, Step(p) \/ Cut(p), UNCHANGED place, Aims(p)',
           \A x \in Rows : Deletes(p, x)' => Deletes(p, x) \/ ~Taken(x)
    PROVE  OrderInv'
  <1>1. OneJob(p) /\ Proceeds(p)
    BY StepsAreOne, StepsProceed
  <1>2. AtFirst' /\ RowsComeAndGo(p)
    BY DEF OrderInv, AtFirst, RowsComeAndGo
  <1>3. NoRow \notin Rows
    BY ContentAssumption
  <1>4. \A x \in Rows : Concerns(job'[p], x) => Concerns(job[p], x)
    BY <1>1, <1>3 DEF Proceeds, Concerns, NoJob
  <1>5. \A x \in Rows : Makes(job'[p], x) => Makes(job[p], x)
    <2>1. CASE job'[p] = NoJob
      <3>1. job'[p].kind = "none"
        BY <2>1 DEF NoJob
      <3> QED BY <3>1 DEF Makes
    <2>2. CASE job'[p].kind = job[p].kind /\ job'[p].row = job[p].row /\ job'[p].copy = job[p].copy
      BY <2>2 DEF Makes
    <2> QED BY <1>1, <2>1, <2>2 DEF Proceeds
  <1>6. \A x \in Rows : Makes(job'[p], x) => place'[x] = Absent
    BY <1>5 DEF OrderInv
  <1> QED BY <1>1, <1>2, <1>4, <1>5, <1>6, OrderStep

\* A statement that writes places, with which its request ends.
LEMMA OrderWrites ==
    ASSUME TypeOK, ContentInv, OrderInv, NEW p \in Requests, Step(p), Ends(p), AtFirst', RowsComeAndGo(p)
    PROVE  OrderInv'
  <1>1. OneJob(p) /\ job'[p] = NoJob
    BY StepsAreOne DEF TypeOK, Ends
  <1>2. NoRow \notin Rows
    BY ContentAssumption
  <1>3. \A x \in Rows : ~Concerns(job'[p], x) /\ ~Makes(job'[p], x) /\ ~Deletes(p, x)'
    BY <1>1, <1>2 DEF Concerns, Makes, Deletes, NoJob
  <1>4. Aims(p)'
    BY <1>1 DEF Aims, NoJob
  <1> QED BY <1>1, <1>3, <1>4, OrderStep

-----------------------------------------------------------------------------
(* Requests about questions.                                               *)

QuestionKinds == {"add question", "update question", "remove question"}

\* Of where a request aims, what its kind asks for.
LEMMA AimsFits ==
    ASSUME NEW p \in Requests,
           \/ job'[p].kind \notin QuestionKinds \union ViewKinds
           \/ job'[p].kind = "remove question"
           \/ job'[p].kind = "add question" /\ (job'[p].at # "count" => job'[p].to >= 1)
           \/ job'[p].kind = "update question" /\ job'[p].at \notin {"move", "moving"}
           \/ job'[p].kind \in ViewKinds /\ job'[p].at \notin {"insert", "move", "moving", "titles", "shift", "shifting"}
    PROVE  Aims(p)'
  BY DEF Aims, QuestionKinds, ViewKinds

LEMMA CountIsOne ==
    ASSUME NEW x \in There(Questions) PROVE Count >= 1
  <1>1. IsFiniteSet(There(Questions))
    BY ContentAssumption, FS_Subset DEF There
  <1>2. Cardinality(There(Questions)) # 0
    BY <1>1, FS_EmptySet
  <1> QED BY <1>1, <1>2, FS_CardinalityType DEF Count

LEMMA QuestionAims ==
    ASSUME TypeOK, ContentInv, OrderInv, NEW p \in Requests, QuestionStep(p), ~Ends(p)
    PROVE  Aims(p)'
  <1>1. /\ job = [o \in Requests |-> job[o]] /\ IsJob(job[p]) /\ Aims(p) /\ JobFits(p)
        /\ job[p].to \in Int
    BY DEF TypeOK, Jobs, ContentInv, RowsOK, JobsAre, OrderInv
  <1>2. CASE CountToAdd(p)
    <2>1. PICK k : k = Within(job[p].to, Count + 1)
      OBVIOUS
    <2>2. PICK at : job' = [job EXCEPT ![p].to = k, ![p].at = at]
      BY <1>2, <2>1 DEF CountToAdd
    <2>3. k >= 1
      BY <1>1, <2>1, CountIsNatural DEF Within
    <2>4. job'[p].kind = "add question" /\ job'[p].to = k
      <3>1. job'[p] = [job[p] EXCEPT !.to = k, !.at = at] /\ job[p].kind = "add question"
        BY <1>1, <1>2, <2>2 DEF CountToAdd
      <3> QED BY <1>1, <3>1 DEF IsJob
    <2> QED BY <2>3, <2>4, AimsFits
  <1>3. CASE BeginShift(p) \/ ShiftOrdersForInsert(p)
    <2>1. job'[p].kind = "add question" /\ job'[p].to = job[p].to
      BY <1>1, <1>3 DEF BeginShift, ShiftOrdersForInsert, Goes, IsJob
    <2>2. job[p].to >= 1
      BY <1>1, <1>3 DEF BeginShift, ShiftOrdersForInsert, Aims
    <2> QED BY <2>1, <2>2, AimsFits
  <1>4. CASE UpdateFields(p)
    <2>1. job'[p].kind = "update question" /\ job'[p].at = "count"
      BY <1>1, <1>4 DEF UpdateFields, Goes, IsJob
    <2> QED BY <2>1, AimsFits
  <1>5. CASE CountToMove(p)
    <2>1. PICK k : k = Within(job[p].to, Count)
      OBVIOUS
    <2>2. /\ job'[p].kind = "update question" /\ job'[p].to = k /\ job'[p].at = "move"
          /\ job'[p].row = job[p].row /\ UNCHANGED place
      BY <1>1, <1>5, <2>1 DEF CountToMove, IsJob, questionVars
    <2>3. job[p].row \in Questions
      BY <1>1, <1>5 DEF JobFits, MoveOK, CountToMove
    <2>4. CASE place[job[p].row] = Absent
      BY <2>2, <2>4 DEF Aims
    <2>5. CASE place[job[p].row] # Absent
      <3>1. Count >= 1 /\ Count \in Nat
        BY <2>3, <2>5, CountIsOne, CountIsNatural DEF There
      <3>2. k >= 1
        BY <1>1, <2>1, <3>1 DEF Within
      <3> QED BY <2>2, <3>2 DEF Aims
    <2> QED BY <2>4, <2>5
  <1>6. CASE BeginMove(p)
    <2>1. PICK snap : snap = Seen(Questions)
      OBVIOUS
    <2>2. /\ job'[p].kind = "update question" /\ job'[p].to = job[p].to /\ job'[p].at = "moving"
          /\ job'[p].row = job[p].row /\ job'[p].snap = snap /\ UNCHANGED place
      BY <1>1, <1>6, <2>1 DEF BeginMove, IsJob, questionVars
    <2>3. job[p].row \in Questions
      BY <1>1, <1>6 DEF JobFits, MoveOK, BeginMove
    <2>4. \A x \in Questions : snap[x] = place[x] /\ (place[x] # Absent => place[x] >= 1)
      BY <2>1 DEF Seen, Rows, OrderInv, AtFirst, FirstOf
    <2>5. job[p].to >= 1 \/ place[job[p].row] = Absent
      BY <1>1, <1>6 DEF BeginMove, Aims
    <2> QED BY <2>2, <2>3, <2>4, <2>5 DEF Aims
  <1>7. CASE BeginRemove(p)
    <2>1. job'[p].kind = "remove question"
      BY <1>1, <1>7 DEF BeginRemove, IsJob
    <2> QED BY <2>1, AimsFits
  <1>8. CASE ReadToHighlight(p)
    <2>1. job'[p].kind = "highlight"
      BY <1>1, <1>8 DEF ReadToHighlight, Goes, IsJob
    <2> QED BY <2>1, AimsFits DEF QuestionKinds, ViewKinds
  <1> QED BY <1>2, <1>3, <1>4, <1>5, <1>6, <1>7, <1>8 DEF QuestionStep, InsertQuestion, UpdateQuestionOrder,
         DeleteAndReorder, SetHighlight, ClearHighlight

LEMMA QuestionOrder ==
    ASSUME TypeOK, ContentInv, OrderInv, NEW p \in Requests, QuestionStep(p)
    PROVE  OrderInv'
  <1>1. /\ job = [o \in Requests |-> job[o]] /\ IsJob(job[p]) /\ Aims(p) /\ JobFits(p)
        /\ job[p].to \in Int /\ place \in [Rows -> Int]
        /\ \A x \in Rows : place[x] # Absent => place[x] >= FirstOf(x)
    BY DEF TypeOK, Jobs, ContentInv, RowsOK, JobsAre, OrderInv, AtFirst
  <1>2. Step(p)
    BY DEF Step
  <1>3. CASE UNCHANGED place
    <2>1. Aims(p)'
      <3>1. CASE Ends(p)
        BY <1>1, <3>1, AimsFits DEF Ends, NoJob, QuestionKinds, ViewKinds
      <3> QED BY <3>1, QuestionAims
    <2>2. job'[p].kind # "delete view"
      <3>1. job[p].kind # "delete view"
        BY DEF QuestionStep, CountToAdd, BeginShift, ShiftOrdersForInsert, UpdateFields, CountToMove,
         BeginMove, BeginRemove, ReadToHighlight, InsertQuestion, UpdateQuestionOrder, DeleteAndReorder,
         SetHighlight, ClearHighlight
      <3>2. NoJob.kind = "none"
        BY DEF NoJob
      <3> QED BY <1>2, <3>1, <3>2, StepsProceed DEF Proceeds
    <2> QED BY <1>2, <1>3, <2>1, <2>2, OrderReads DEF Deletes
  <1>4. CASE ShiftOrdersForInsert(p)
    <2>1. PICK k : k = job[p].to
      OBVIOUS
    <2>2. k \in Int /\ k >= 1 /\ place' = Shifted(Questions, job[p].snap, k - 1, 1)
      BY <1>1, <1>4, <2>1 DEF ShiftOrdersForInsert, Aims
    <2>3. \A x \in Rows : place'[x] = place[x] \/ (place[x] # Absent /\ place[x] > k - 1 /\ place'[x] = place[x] + 1)
      BY <2>2 DEF Shifted
    <2>4. AtFirst' /\ RowsComeAndGo(p)
      BY <1>1, <2>2, <2>3 DEF AtFirst, RowsComeAndGo, FirstOf, Absent
    <2>5. Aims(p)'
      <3>1. ~Ends(p)
        <4>1. job'[p].kind = "add question"
          BY <1>1, <1>4 DEF ShiftOrdersForInsert, Goes, IsJob
        <4>2. NoJob.kind = "none"
          BY DEF NoJob
        <4> QED BY <1>1, <4>1, <4>2 DEF Ends
      <3> QED BY <3>1, QuestionAims
    <2>6. /\ job'[p].kind = "add question" /\ job'[p].row = job[p].row /\ job'[p].copy = job[p].copy
          /\ job[p].kind = "add question"
      BY <1>1, <1>4 DEF ShiftOrdersForInsert, Goes, IsJob
    <2>7. \A x \in Rows : Makes(job'[p], x) => Makes(job[p], x) /\ place[x] = Absent
      BY <2>6 DEF Makes, OrderInv
    <2>8. \A x \in Rows : place[x] = Absent => place'[x] = Absent
      BY <2>3
    <2> QED BY <1>2, <2>4, <2>5, <2>6, <2>7, <2>8, OrderStep, StepsAreOne DEF Concerns, Deletes
  <1>5. CASE InsertQuestion(p)
    <2>1. place' = [place EXCEPT ![job[p].row] = job[p].to] /\ Ends(p) /\ job[p].to >= 1
      BY <1>1, <1>5 DEF InsertQuestion, Aims
    <2>2. job[p].row \in Questions /\ Makes(job[p], job[p].row)
      BY <1>1, <1>5 DEF InsertQuestion, JobFits, AddOK, Makes
    <2>3. \A x \in Rows : place'[x] = IF x = job[p].row THEN job[p].to ELSE place[x]
      BY <1>1, <2>1
    <2>4. AtFirst'
      BY <1>1, <2>1, <2>2, <2>3 DEF AtFirst, FirstOf
    <2>5. RowsComeAndGo(p)
      BY <1>1, <2>1, <2>2, <2>3 DEF RowsComeAndGo, Absent
    <2> QED BY <1>2, <2>1, <2>4, <2>5, OrderWrites
  <1>6. CASE UpdateQuestionOrder(p)
    <2>1. PICK k, r, snap : k = job[p].to /\ r = job[p].row /\ snap = job[p].snap
      OBVIOUS
    <2>2. place' = Moved(Questions, snap, r, k) /\ Ends(p)
      BY <1>6, <2>1 DEF UpdateQuestionOrder
    <2>3. /\ k \in Int /\ r \in Questions /\ (k >= 1 \/ place[r] = Absent)
          /\ snap[r] # Absent => k >= 1
          /\ \A x \in Questions : snap[x] # Absent => snap[x] >= 1 
          /\ \A x \in Questions : snap[x] \in Places
      BY <1>1, <1>6, <2>1 DEF UpdateQuestionOrder, Aims, JobFits, MoveOK
    <2>4. ASSUME NEW x \in Rows
          PROVE  /\ place'[x] = Absent <=> place[x] = Absent
                 /\ place'[x] # Absent => place'[x] >= FirstOf(x)
      <3>1. CASE x \in Questions
        <4>1. place[x] = Absent \/ place[x] >= 1
          BY <1>1, <3>1 DEF FirstOf
        <4>2. place[x] \in Int /\ snap[r] \in Places /\ snap[x] \in Places
          BY <1>1, <2>3, <3>1
        <4> QED BY <2>2, <2>3, <3>1, <4>1, <4>2 DEF Moved, FirstOf, Absent, Places
      <3>2. CASE x \notin Questions
        BY <1>1, <2>2, <3>2 DEF Moved
      <3> QED BY <3>1, <3>2
    <2>5. AtFirst' /\ RowsComeAndGo(p)
      BY <2>4 DEF AtFirst, RowsComeAndGo, FirstOf
    <2> QED BY <1>2, <2>2, <2>5, OrderWrites
  <1>7. CASE DeleteAndReorder(p)
    <2>1. PICK q : q = job[p].row
      OBVIOUS
    <2>2. /\ place' = IF place[q] = Absent THEN place
                      ELSE [Shifted(Questions, job[p].snap, place[q], -1) EXCEPT ![q] = Absent]
          /\ Ends(p) /\ q \in Questions
      BY <1>1, <1>7, <2>1 DEF DeleteAndReorder, JobFits, PointOK
    <2>3. CASE place[q] = Absent
      BY <1>3, <2>2, <2>3
    <2>4. CASE place[q] # Absent
      <3>1. place[q] \in Int /\ place[q] >= 1
        BY <1>1, <2>2, <2>4 DEF Rows, FirstOf
      <3>2. \A x \in Rows : \/ place'[x] = place[x]
                            \/ x = q /\ place'[x] = Absent
                            \/ place[x] # Absent /\ place[x] > place[q] /\ place'[x] = place[x] - 1
        BY <1>1, <2>2, <2>4 DEF Shifted
      <3>3. AtFirst'
        BY <1>1, <3>1, <3>2 DEF AtFirst, FirstOf
      <3>4. RowsComeAndGo(p)
        BY <1>1, <2>2, <3>1, <3>2 DEF RowsComeAndGo, Absent
      <3> QED BY <1>2, <2>2, <3>3, <3>4, OrderWrites
    <2> QED BY <2>3, <2>4
  <1> QED BY <1>3, <1>4, <1>5, <1>6, <1>7 DEF QuestionStep, CountToAdd, BeginShift, UpdateFields,
         CountToMove, BeginMove, BeginRemove, ReadToHighlight, SetHighlight, ClearHighlight, questionVars

-----------------------------------------------------------------------------
(* Requests about views.                                                   *)

LEMMA LastPlaceAtFirst ==
    ASSUME TypeOK, AtFirst
    PROVE  MaxOrder >= -1 /\ (There(Views) # {} => MaxOrder >= 0)
  <1>1. CASE There(Views) = {}
    BY <1>1 DEF MaxOrder
  <1>2. CASE There(Views) # {}
    <2>1. /\ IsFiniteSet(There(Views))
          /\ \A v \in There(Views) : place[v] \in Int /\ place[v] >= 0
      BY ContentAssumption, FS_Subset DEF There, TypeOK, Rows, AtFirst, FirstOf
    <2>2. \E v \in There(Views) : \A w \in There(Views) : place[w] <= place[v]
      BY <1>2, <2>1, LastOne DEF HasLast
    <2>3. PICK v : v = CHOOSE u \in There(Views) : \A w \in There(Views) : place[w] <= place[u]
      OBVIOUS
    <2>4. v \in There(Views)
      BY <2>2, <2>3
    <2>5. MaxOrder = place[v]
      BY <1>2, <2>3 DEF MaxOrder
    <2> QED BY <2>1, <2>4, <2>5
  <1> QED BY <1>1, <1>2

LEMMA ViewAims ==
    ASSUME TypeOK, ContentInv, OrderInv, NEW p \in Requests, ViewStep(p), ~Ends(p)
    PROVE  Aims(p)'
  <1>1. /\ job = [o \in Requests |-> job[o]] /\ IsJob(job[p]) /\ Aims(p) /\ JobFits(p)
        /\ job[p].to \in Int /\ AtFirst
    BY DEF TypeOK, Jobs, ContentInv, RowsOK, JobsAre, OrderInv
  <1>2. MaxOrder \in Int /\ MaxOrder >= -1 /\ (There(Views) # {} => MaxOrder >= 0)
    BY <1>1, LastPlaceTyped, LastPlaceAtFirst
  <1>3. job[p].kind \in ViewKinds
    BY DEF ViewStep, ReadTitles, ReadMaxOrder, InsertView, GetView, UpdateTitle, ReadMaxToMove,
         BeginViewMove, UpdateViewOrder, GetOriginal, TitleCopy, BeginViewShift, Duplicate,
         DeleteIfUnlocked, DeleteView,
         ViewKinds
  <1>4. job[p].row \in Views
    BY <1>1, <1>3 DEF JobFits, ViewOK, ViewKinds
  <1>5. CASE ReadTitles(p)
    <2>1. job'[p].kind = job[p].kind /\ job'[p].at = "max"
      BY <1>1, <1>5 DEF ReadTitles, IsJob
    <2> QED BY <1>3, <2>1, AimsFits
  <1>6. CASE ReadMaxOrder(p)
    <2>1. PICK k : k = MaxOrder + 1
      OBVIOUS
    <2>2. job'[p] = [job[p] EXCEPT !.to = k, !.at = "insert"] /\ job[p].kind = "create view"
      BY <1>1, <1>6, <2>1 DEF ReadMaxOrder
    <2>3. job'[p].kind = "create view" /\ job'[p].to = k
      BY <1>1, <2>2 DEF IsJob
    <2>4. k >= 0
      BY <1>2, <2>1
    <2> QED BY <2>3, <2>4 DEF Aims
  <1>7. CASE GetView(p) \/ UpdateTitle(p)
    <2>1. PICK at \in {"rename", "max"} : Goes(p, at)
      BY <1>7 DEF GetView, UpdateTitle, MovesOrEnds
    <2>2. job'[p].kind = job[p].kind /\ job'[p].at = at
      BY <1>1, <2>1 DEF Goes, IsJob
    <2> QED BY <1>3, <2>2, AimsFits
  <1>8. CASE ReadMaxToMove(p)
    <2>1. PICK k : k = Clamped(job[p].to, MaxOrder)
      OBVIOUS
    <2>2. job'[p] = [job[p] EXCEPT !.to = k, !.at = "move"] /\ job[p].kind = "update view" /\ UNCHANGED place
      BY <1>1, <1>8, <2>1 DEF ReadMaxToMove, questionVars
    <2>3. job'[p].kind = "update view" /\ job'[p].to = k /\ job'[p].row = job[p].row /\ job'[p].at = "move"
      BY <1>1, <2>2 DEF IsJob
    <2>4. CASE place[job[p].row] = Absent
      BY <2>2, <2>3, <2>4 DEF Aims
    <2>5. CASE place[job[p].row] # Absent
      <3>1. There(Views) # {}
        BY <1>4, <2>5 DEF There
      <3>2. k >= 0
        BY <1>1, <1>2, <2>1, <3>1 DEF Clamped
      <3> QED BY <2>3, <3>2 DEF Aims
    <2> QED BY <2>4, <2>5
  <1>9. CASE BeginViewMove(p)
    <2>1. PICK snap : snap = Seen(Views)
      OBVIOUS
    <2>2. /\ job'[p].kind = "update view" /\ job'[p].to = job[p].to /\ job'[p].at = "moving"
          /\ job'[p].row = job[p].row /\ job'[p].snap = snap /\ UNCHANGED place
      BY <1>1, <1>9, <2>1 DEF BeginViewMove, IsJob, questionVars
    <2>3. \A x \in Views : snap[x] = place[x] /\ (place[x] # Absent => place[x] >= 0)
      <3>1. \A x \in Views : x \in Rows /\ FirstOf(x) = 0
        BY ContentAssumption DEF Rows, FirstOf
      <3> QED BY <1>1, <2>1, <3>1 DEF Seen, AtFirst
    <2>4. job[p].to >= 0 \/ place[job[p].row] = Absent
      BY <1>1, <1>9 DEF BeginViewMove, Aims
    <2> QED BY <1>4, <2>2, <2>3, <2>4 DEF Aims
  <1>10. CASE GetOriginal(p)
    <2>1. PICK k, t : k = place[job[p].row] /\ t = title[job[p].row]
      OBVIOUS
    <2>2. /\ job'[p] = [job[p] EXCEPT !.to = k, !.title = t, !.at = "titles"]
          /\ job[p].kind = "duplicate view" /\ k # Absent
      BY <1>1, <1>10, <2>1 DEF GetOriginal
    <2>3. job'[p].kind = "duplicate view" /\ job'[p].to = k
      BY <1>1, <2>2 DEF IsJob
    <2>4. k >= 0
      <3>1. job[p].row \in Rows /\ FirstOf(job[p].row) = 0
        BY <1>4, ContentAssumption DEF Rows, FirstOf
      <3> QED BY <1>1, <2>1, <2>2, <3>1 DEF AtFirst
    <2> QED BY <2>3, <2>4 DEF Aims
  <1>11. CASE TitleCopy(p)
    <2>1. job'[p].kind = "duplicate view" /\ job'[p].to = job[p].to
      BY <1>1, <1>11 DEF TitleCopy, IsJob
    <2>2. job[p].to >= 0
      BY <1>1, <1>11 DEF TitleCopy, Aims
    <2> QED BY <2>1, <2>2 DEF Aims
  <1>12. CASE DeleteIfUnlocked(p)
    <2>1. /\ job'[p].kind = "delete view" /\ job'[p].row = job[p].row
          /\ place[job[p].row] # Absent /\ UNCHANGED place
      BY <1>1, <1>12 DEF DeleteIfUnlocked, Goes, IsJob, questionVars
    <2> QED BY <2>1 DEF Aims
  <1>13. CASE BeginViewShift(p)
    <2>1. PICK snap : snap = Seen(Views)
      OBVIOUS
    <2>2. job'[p] = [job[p] EXCEPT !.snap = snap, !.at = "shifting"] /\ UNCHANGED place
      BY <1>1, <1>13, <2>1 DEF BeginViewShift, questionVars
    <2>3. /\ job'[p].kind = job[p].kind /\ job'[p].to = job[p].to /\ job'[p].row = job[p].row
          /\ job'[p].at = "shifting"
      BY <1>1, <2>2 DEF IsJob
    <2>4. /\ job[p].kind = "duplicate view" => job[p].to >= 0
          /\ job[p].kind = "delete view" => place[job[p].row] # Absent
          /\ job[p].kind \in {"duplicate view", "delete view"}
      BY <1>1, <1>13 DEF BeginViewShift, Aims
    <2> QED BY <2>2, <2>3, <2>4 DEF Aims
  <1> QED BY <1>5, <1>6, <1>7, <1>8, <1>9, <1>10, <1>11, <1>12, <1>13 DEF ViewStep, InsertView, UpdateViewOrder,
         Duplicate, DeleteView

LEMMA ViewOrder ==
    ASSUME TypeOK, ContentInv, OrderInv, NEW p \in Requests, ViewStep(p)
    PROVE  OrderInv'
  <1>1. /\ job = [o \in Requests |-> job[o]] /\ IsJob(job[p]) /\ Aims(p) /\ JobFits(p)
        /\ job[p].to \in Int /\ place \in [Rows -> Int]
        /\ \A x \in Rows : place[x] # Absent => place[x] >= FirstOf(x)
    BY DEF TypeOK, Jobs, ContentInv, RowsOK, JobsAre, OrderInv, AtFirst
  <1>2. Step(p)
    BY DEF Step
  <1>3. job[p].kind \in ViewKinds
    BY DEF ViewStep, ReadTitles, ReadMaxOrder, InsertView, GetView, UpdateTitle, ReadMaxToMove,
         BeginViewMove, UpdateViewOrder, GetOriginal, TitleCopy, BeginViewShift, Duplicate,
         DeleteIfUnlocked, DeleteView,
         ViewKinds
  <1>4. job[p].row \in Views /\ job[p].row \in Rows /\ \A v \in Views : v \in Rows /\ FirstOf(v) = 0
    BY <1>1, <1>3, ContentAssumption DEF JobFits, ViewOK, ViewKinds, FirstOf, Rows
  <1>5. CASE UNCHANGED place
    <2>1. Aims(p)'
      <3>1. CASE Ends(p)
        BY <1>1, <3>1, AimsFits DEF Ends, NoJob, QuestionKinds, ViewKinds
      <3> QED BY <3>1, ViewAims
    <2>2. ASSUME NEW x \in Rows, Deletes(p, x)' PROVE Deletes(p, x) \/ ~Taken(x)
      <3>1. CASE DeleteIfUnlocked(p)
        <4>1. ~Taken(job[p].row)
          BY <3>1 DEF DeleteIfUnlocked
        <4>2. job'[p].kind = "delete view" /\ job'[p].row = x
          BY <2>2 DEF Deletes
        <4>3. NoJob.kind = "none"
          BY DEF NoJob
        <4>4. job'[p].row = job[p].row
          BY <1>2, <4>2, <4>3, StepsProceed DEF Proceeds
        <4> QED BY <4>1, <4>2, <4>4
      <3>2. CASE BeginViewShift(p)
        <4>1. PICK snap : snap = Seen(Views)
          OBVIOUS
        <4>2. /\ job'[p] = [job[p] EXCEPT !.snap = snap, !.at = "shifting"] /\ job[p].at = "shift"
          BY <1>1, <3>2, <4>1 DEF BeginViewShift
        <4>3. job'[p].kind = job[p].kind /\ job'[p].row = job[p].row
          BY <1>1, <4>2 DEF IsJob
        <4> QED BY <2>2, <4>2, <4>3 DEF Deletes
      <3>3. CASE ~DeleteIfUnlocked(p) /\ ~BeginViewShift(p)
        <4>1. job'[p].kind = "delete view"
          BY <2>2 DEF Deletes
        <4>2. NoJob.kind = "none"
          BY DEF NoJob
        <4>3. job[p].kind = "delete view"
          BY <1>2, <4>1, <4>2, StepsProceed DEF Proceeds
        <4>4. DeleteView(p)
          BY <3>3, <4>3 DEF ViewStep, ReadTitles, ReadMaxOrder, InsertView, GetView, UpdateTitle,
             ReadMaxToMove, BeginViewMove, UpdateViewOrder, GetOriginal, TitleCopy, Duplicate
        <4>5. job'[p] = NoJob
          BY <1>1, <4>4 DEF DeleteView, Ends
        <4> QED BY <4>1, <4>2, <4>5
      <3> QED BY <3>1, <3>2, <3>3
    <2> QED BY <1>2, <1>5, <2>1, <2>2, OrderReads
  <1>6. CASE InsertView(p)
    <2>1. CASE UNCHANGED place
      BY <1>5, <2>1
    <2>2. CASE place' = [place EXCEPT ![job[p].row] = job[p].to]
      <3>1. job[p].to >= 0 /\ Makes(job[p], job[p].row) /\ Ends(p)
        BY <1>1, <1>6 DEF InsertView, Aims, Makes
      <3>2. \A x \in Rows : place'[x] = IF x = job[p].row THEN job[p].to ELSE place[x]
        BY <1>1, <2>2
      <3>3. AtFirst'
        BY <1>1, <1>4, <3>1, <3>2 DEF AtFirst, FirstOf
      <3>4. RowsComeAndGo(p)
        BY <1>1, <3>1, <3>2 DEF RowsComeAndGo, Absent
      <3> QED BY <1>2, <3>1, <3>3, <3>4, OrderWrites
    <2> QED BY <1>6, <2>1, <2>2 DEF InsertView
  <1>7. CASE UpdateViewOrder(p)
    <2>1. PICK k, r, snap : k = job[p].to /\ r = job[p].row /\ snap = job[p].snap
      OBVIOUS
    <2>2. place' = Moved(Views, snap, r, k) /\ Ends(p)
      BY <1>7, <2>1 DEF UpdateViewOrder
    <2>3. /\ k \in Int /\ r \in Views /\ (k >= 0 \/ place[r] = Absent)
          /\ snap[r] # Absent => k >= 0
          /\ \A x \in Views : snap[x] # Absent => snap[x] >= 0
      BY <1>1, <1>4, <1>7, <2>1 DEF UpdateViewOrder, Aims
    <2>4. \A x \in Views : snap[x] \in Int
      BY <1>4, <2>1 DEF TypeOK, Jobs
    <2>5. ASSUME NEW x \in Rows
          PROVE  /\ place'[x] = Absent <=> place[x] = Absent
                 /\ place'[x] # Absent => place'[x] >= FirstOf(x)
      <3>1. CASE x \in Views
        <4>1. (place[x] = Absent \/ place[x] >= 0) /\ FirstOf(x) = 0
          BY <1>1, <1>4, <3>1
        <4>2. place[x] \in Int /\ snap[r] \in Int /\ snap[x] \in Int
          BY <1>1, <2>3, <2>4, <3>1
        <4> QED BY <2>2, <2>3, <3>1, <4>1, <4>2 DEF Moved, Absent
      <3>2. CASE x \notin Views
        BY <1>1, <2>2, <3>2 DEF Moved
      <3> QED BY <3>1, <3>2
    <2>6. AtFirst' /\ RowsComeAndGo(p)
      BY <2>5 DEF AtFirst, RowsComeAndGo, FirstOf
    <2> QED BY <1>2, <2>2, <2>6, OrderWrites
  <1>8. CASE Duplicate(p)
    <2>1. PICK k, copy, snap : k = job[p].to /\ copy = job[p].copy /\ snap = job[p].snap
      OBVIOUS
    <2>2. k >= 0 /\ k \in Int /\ copy \in Views /\ Makes(job[p], copy) /\ Ends(p)
      BY <1>1, <1>8, <2>1 DEF Duplicate, Aims, JobFits, ViewOK, Makes
    <2>3. CASE UNCHANGED place
      BY <1>5, <2>3
    <2>4. CASE place' = [Shifted(Views, snap, k, 1) EXCEPT ![copy] = k + 1]
      <3>1. \A x \in Rows : \/ x = copy /\ place'[x] = k + 1
                            \/ x # copy /\ place'[x] = place[x]
                            \/ x # copy /\ place[x] # Absent /\ place[x] > k /\ place'[x] = place[x] + 1
        BY <1>4, <2>2, <2>4 DEF Shifted
      <3>2. AtFirst'
        BY <1>1, <1>4, <2>2, <3>1 DEF AtFirst, FirstOf
      <3>3. RowsComeAndGo(p)
        BY <1>1, <2>2, <3>1 DEF RowsComeAndGo, Absent
      <3> QED BY <1>2, <2>2, <3>2, <3>3, OrderWrites
    <2> QED BY <1>8, <2>1, <2>3, <2>4 DEF Duplicate
  <1>9. CASE DeleteView(p)
    <2>1. PICK v : v = job[p].row
      OBVIOUS
    <2>2. /\ place' = [Shifted(Views, job[p].snap, place[v], -1) EXCEPT ![v] = Absent]
          /\ Ends(p) /\ Deletes(p, v) /\ place[v] # Absent
      BY <1>1, <1>9, <2>1 DEF DeleteView, Aims, Deletes
    <2>3. place[v] \in Int /\ place[v] >= 0
      BY <1>1, <1>4, <2>1, <2>2
    <2>4. \A x \in Rows : \/ x # v /\ place'[x] = place[x]
                          \/ x = v /\ place'[x] = Absent
                          \/ place[x] # Absent /\ place[x] > place[v] /\ place'[x] = place[x] - 1 /\ x \in Views
      BY <1>1, <1>4, <2>1, <2>2 DEF Shifted
    <2>5. AtFirst'
      BY <1>1, <1>4, <2>3, <2>4 DEF AtFirst, FirstOf
    <2>6. RowsComeAndGo(p)
      BY <1>1, <2>2, <2>3, <2>4 DEF RowsComeAndGo, Absent
    <2> QED BY <1>2, <2>2, <2>5, <2>6, OrderWrites
  <1> QED BY <1>5, <1>6, <1>7, <1>8, <1>9 DEF ViewStep, ReadTitles, ReadMaxOrder, GetView, UpdateTitle,
         ReadMaxToMove, BeginViewMove, GetOriginal, TitleCopy, BeginViewShift, DeleteIfUnlocked, questionVars

-----------------------------------------------------------------------------
(* Requests about files, those that are cut off, and new ones.             *)

LEMMA FileOrder ==
    ASSUME TypeOK, ContentInv, OrderInv, NEW p \in Requests, FileStep(p) \/ Cut(p)
    PROVE  OrderInv'
  <1>1. UNCHANGED place
    BY DEF FileStep, CheckType, LoadPrevious, UpsertList, CommitUpload, LockFile, FindReference,
       PutShorterList, CommitDelete, Cut, questionVars
  <1>2. Step(p) \/ Cut(p)
    BY DEF Step
  <1>3. job'[p].kind \in {"none", "upload files", "delete file"}
    <2>1. NoJob.kind = "none"
      BY DEF NoJob
    <2>2. CASE Cut(p)
      BY <2>1, <2>2 DEF Cut, Ends, TypeOK
    <2>3. CASE FileStep(p)
      <3>1. job[p].kind \in {"upload files", "delete file"}
        BY <2>3 DEF FileStep, CheckType, LoadPrevious, UpsertList, CommitUpload, LockFile, FindReference,
           PutShorterList, CommitDelete
      <3> QED BY <1>2, <2>1, <3>1, StepsProceed DEF Proceeds
    <2> QED BY <2>2, <2>3
  <1>4. Aims(p)' /\ \A x \in Rows : ~Deletes(p, x)'
    BY <1>3, AimsFits DEF QuestionKinds, ViewKinds, Deletes
  <1> QED BY <1>1, <1>2, <1>4, OrderReads

LEMMA OrderArrives ==
    ASSUME TypeOK, ContentInv, OrderInv, NEW p \in Requests, Arrive(p), UNCHANGED place, NEW j,
           job' = [job EXCEPT ![p] = j],
           j.at \in {"count", "fields", "remove", "read", "set", "titles", "get", "check", "lock"},
           j.at = "titles" => j.kind = "create view",
           j.kind = "add question" => j.at = "count",
           \A x \in Rows : Concerns(j, x) => place[x] # Absent \/ Fresh(x),
           \A x \in Rows : Makes(j, x) => Fresh(x)
    PROVE  OrderInv'
  <1>1. OneJob(p) /\ job'[p] = j
    BY ArrivalsAreOne DEF TypeOK
  <1>2. AtFirst' /\ RowsComeAndGo(p)
    BY DEF OrderInv, AtFirst, RowsComeAndGo
  <1>3. Aims(p)'
    BY <1>1 DEF Aims
  <1>4. \A x \in Rows : ~Deletes(p, x)'
    BY <1>1 DEF Deletes
  <1>5. \A x \in Rows : Makes(job'[p], x) => place'[x] = Absent /\ Fresh(x)
    BY <1>1 DEF Fresh
  <1> QED BY <1>1, <1>2, <1>3, <1>4, <1>5, OrderStep

LEMMA ArrivalOrder ==
    ASSUME TypeOK, ContentInv, OrderInv, NEW p \in Requests, Arrive(p)
    PROVE  OrderInv'
  <1>1. UNCHANGED place
    BY DEF Arrive, ArriveQuestion, ArriveHighlight, ArriveView, UpdateLocked, ArriveUpload, ArriveDelete,
       PatchAnswer, DeleteResponse, questionVars
  <1>2. NoRow \notin Rows
    BY ContentAssumption
  <1>3. CASE ArriveQuestion(p)
    <2> PICK q \in Questions, k \in Wanted, t \in Types :
         \E kind \in Kinds(Questions) :
           /\ kind = "add question" => Fresh(q)
           /\ kind # "add question" => place[q] # Absent
           /\ kind = "remove question" => k = 1 /\ t = type[q]
           /\ job' = [job EXCEPT ![p] = [NoJob EXCEPT
                        !.kind = kind, !.row = q, !.to = k, !.type = t,
                        !.at = CASE kind = "add question" -> "count"
                                 [] kind = "update question" -> "fields"
                                 [] OTHER -> "remove"]]
      BY <1>3 DEF ArriveQuestion
    <2>1. PICK kind \in Kinds(Questions), at \in {"count", "fields", "remove"} :
            /\ kind = "add question" => Fresh(q) /\ at = "count"
            /\ kind # "add question" => place[q] # Absent
            /\ job' = [job EXCEPT ![p] = [NoJob EXCEPT
                        !.kind = kind, !.row = q, !.to = k, !.type = t, !.at = at]]
      OBVIOUS
    <2>2. PICK j : j = [NoJob EXCEPT !.kind = kind, !.row = q, !.to = k, !.type = t, !.at = at]
      OBVIOUS
    <2>3. j.kind = kind /\ j.row = q /\ j.copy = NoRow /\ j.at = at
      BY <2>2 DEF NoJob
    <2>4. kind \in QuestionKinds
      BY DEF Kinds, QuestionKinds
    <2>5. \A x \in Rows : Concerns(j, x) => x = q
      BY <1>2, <2>3 DEF Concerns
    <2>6. \A x \in Rows : Makes(j, x) => x = q /\ kind = "add question"
      BY <2>3, <2>4 DEF Makes, QuestionKinds
    <2>7. job' = [job EXCEPT ![p] = j]
      BY <2>1, <2>2
    <2>8. \A x \in Rows : Concerns(j, x) => place[x] # Absent \/ Fresh(x)
      BY <2>1, <2>5
    <2>9. \A x \in Rows : Makes(j, x) => Fresh(x)
      BY <2>1, <2>6
    <2>10. /\ j.at \in {"count", "fields", "remove", "read", "set", "titles", "get", "check", "lock"}
           /\ j.at = "titles" => j.kind = "create view"
           /\ j.kind = "add question" => j.at = "count"
      BY <2>1, <2>3
    <2> QED BY <1>1, <2>7, <2>8, <2>9, <2>10, OrderArrives
  <1>4. CASE ArriveHighlight(p)
    <2>1. PICK q \in There(Questions), at \in {"read", "set"}, kind \in {"highlight", "clear"} :
            job' = [job EXCEPT ![p] = [NoJob EXCEPT !.kind = kind, !.row = q, !.at = at]]
      BY <1>4 DEF ArriveHighlight
    <2>2. PICK j : j = [NoJob EXCEPT !.kind = kind, !.row = q, !.at = at]
      OBVIOUS
    <2>3. j.kind = kind /\ j.row = q /\ j.copy = NoRow /\ j.at = at
      BY <2>2 DEF NoJob
    <2>4. \A x \in Rows : Concerns(j, x) => place[x] # Absent
      BY <1>2, <2>1, <2>3 DEF Concerns, There
    <2>5. \A x \in Rows : ~Makes(j, x)
      BY <2>3 DEF Makes
    <2>6. job' = [job EXCEPT ![p] = j]
      BY <2>1, <2>2
    <2> QED BY <1>1, <2>3, <2>4, <2>5, <2>6, OrderArrives
  <1>5. CASE ArriveView(p)
    <2> PICK v \in Views, copy \in Views \union {NoRow}, k \in Wanted \union {Absent},
             t \in Names \union {<<>>} :
         \E kind \in Kinds(Views) :
           /\ kind = "update view" => place[v] # Absent
           /\ kind # "update view" => k = Absent /\ t = <<>>
           /\ kind = "create view" => Fresh(v)
           /\ IF kind = "duplicate view" THEN copy \in Views /\ Fresh(copy) ELSE copy = NoRow
           /\ kind \in {"delete view", "duplicate view"} => place[v] # Absent
           /\ job' = [job EXCEPT ![p] = [NoJob EXCEPT
                        !.kind = kind, !.row = v, !.copy = copy, !.to = k, !.title = t,
                        !.at = CASE kind = "create view" -> "titles"
                                 [] kind = "delete view" -> "remove"
                                 [] OTHER -> "get"]]
      BY <1>5 DEF ArriveView
    <2>1. PICK kind \in Kinds(Views), at \in {"titles", "remove", "get"} :
            /\ kind = "create view" <=> at = "titles"
            /\ kind \in {"update view", "delete view", "duplicate view"} => place[v] # Absent
            /\ kind = "create view" => Fresh(v)
            /\ IF kind = "duplicate view" THEN Fresh(copy) ELSE copy = NoRow
            /\ job' = [job EXCEPT ![p] = [NoJob EXCEPT
                      !.kind = kind, !.row = v, !.copy = copy, !.to = k, !.title = t, !.at = at]]
      OBVIOUS
    <2>2. PICK j : j = [NoJob EXCEPT !.kind = kind, !.row = v, !.copy = copy, !.to = k, !.title = t,
                                     !.at = at]
      OBVIOUS
    <2>3. j.kind = kind /\ j.row = v /\ j.copy = copy /\ j.at = at
      BY <2>2 DEF NoJob
    <2>4. kind \in ViewKinds
      BY ContentAssumption DEF Kinds, ViewKinds
    <2>5. \A x \in Rows : Concerns(j, x) => place[x] # Absent \/ Fresh(x)
      BY <1>2, <2>1, <2>3, <2>4 DEF Concerns, ViewKinds
    <2>6. \A x \in Rows : Makes(j, x) => Fresh(x)
      BY <2>1, <2>3, <2>4 DEF Makes, ViewKinds
    <2>7. job' = [job EXCEPT ![p] = j]
      BY <2>1, <2>2
    <2>8. j.kind # "add question"
      BY <2>3, <2>4 DEF ViewKinds
    <2> QED BY <1>1, <2>1, <2>3, <2>5, <2>6, <2>7, <2>8, OrderArrives
  <1>6. CASE ArriveUpload(p) \/ ArriveDelete(p)
    <2>1. PICK j : /\ job' = [job EXCEPT ![p] = j] /\ j.row = NoRow /\ j.copy = NoRow
                   /\ j.kind \in {"upload files", "delete file"} /\ j.at \in {"check", "lock"}
      <3>1. CASE ArriveUpload(p)
        <4>1. PICK s \in Slots, new \in SUBSET Files :
                 job' = [job EXCEPT ![p] = [NoJob EXCEPT !.kind = "upload files", !.at = "check", !.slot = s, !.new = new]]
          BY <3>1 DEF ArriveUpload
        <4>2. PICK j : j = [NoJob EXCEPT !.kind = "upload files", !.at = "check", !.slot = s, !.new = new]
          OBVIOUS
        <4>3. j.row = NoRow /\ j.copy = NoRow /\ j.kind = "upload files" /\ j.at = "check"
          BY <4>2 DEF NoJob
        <4> QED BY <4>1, <4>2, <4>3
      <3>2. CASE ArriveDelete(p)
        <4>1. PICK f \in files :
                 job' = [job EXCEPT ![p] = [NoJob EXCEPT !.kind = "delete file", !.at = "lock", !.file = f]]
          BY <3>2 DEF ArriveDelete
        <4>2. PICK j : j = [NoJob EXCEPT !.kind = "delete file", !.at = "lock", !.file = f]
          OBVIOUS
        <4>3. j.row = NoRow /\ j.copy = NoRow /\ j.kind = "delete file" /\ j.at = "lock"
          BY <4>2 DEF NoJob
        <4> QED BY <4>1, <4>2, <4>3
      <3> QED BY <1>6, <3>1, <3>2
    <2>2. \A x \in Rows : ~Concerns(j, x) /\ ~Makes(j, x)
      BY <1>2, <2>1 DEF Concerns, Makes
    <2> QED BY <1>1, <2>1, <2>2, OrderArrives
  <1>7. CASE UpdateLocked(p) \/ PatchAnswer(p) \/ DeleteResponse(p)
    <2>1. UNCHANGED job
      BY <1>7 DEF UpdateLocked, PatchAnswer, DeleteResponse
    <2> QED BY <1>1, <2>1 DEF OrderInv, AtFirst, Aims, Deletes
  <1> QED BY <1>3, <1>4, <1>5, <1>6, <1>7 DEF Arrive

LEMMA OrderStays ==
    ASSUME TypeOK, ContentInv, OrderInv, [Next]_vars
    PROVE  OrderInv'
  <1>1. CASE UNCHANGED vars
    BY <1>1 DEF vars, questionVars, OrderInv, AtFirst, Aims, Deletes
  <1> QED BY <1>1, ArrivalOrder, QuestionOrder, ViewOrder, FileOrder DEF Next, Step

LEMMA OrderStarts ==
    ASSUME Init PROVE OrderInv
  <1>1. \A p \in Requests : job[p] = NoJob
    BY DEF Init
  <1>2. NoJob.kind = "none"
    BY DEF NoJob
  <1>3. AtFirst
    <2>1. ASSUME NEW x \in Questions, place[x] # Absent PROVE place[x] >= 1
      <3>1. OldQuestions \in Seq(Questions)
        BY ContentAssumption
      <3>2. place[x] = PlaceIn(OldQuestions, x, 1)
        BY DEF Init, Rows
      <3>3. PICK i : i = CHOOSE k \in DOMAIN OldQuestions : OldQuestions[k] = x
        OBVIOUS
      <3>4. i \in DOMAIN OldQuestions /\ place[x] = 1 - 1 + i
        BY <2>1, <3>2, <3>3 DEF PlaceIn
      <3> QED BY <3>1, <3>4
    <2>2. ASSUME NEW x \in Views, place[x] # Absent PROVE place[x] >= 0
      <3>1. x \notin Questions
        BY ContentAssumption
      <3>2. place[x] = PlaceIn(OldViews, x, 0)
        BY <3>1 DEF Init, Rows
      <3>3. place[x] \in Nat
        BY <2>2, <3>2, FirstViewPlaces DEF Places
      <3> QED BY <3>3
    <2> QED BY <2>1, <2>2, ContentAssumption DEF AtFirst, FirstOf, Rows
  <1>4. \A p \in Requests : Aims(p)
    BY <1>1, <1>2 DEF Aims
  <1> QED BY <1>1, <1>2, <1>3, <1>4 DEF OrderInv, Makes, Deletes

-----------------------------------------------------------------------------
(* Requests about a list that do not overlap.                              *)

\* The rows of a list have places one after the other, or all but one.
Filled(rows, a) == \E n \in Nat : Fills(rows, a .. a + n - 1)
FilledBut(rows, a, k) == \E n \in Nat : k \in a .. a + n /\ Fills(rows, (a .. a + n) \ {k})

Adding(p) == job[p].kind = "add question" /\ job[p].at = "insert"

\* What the only request about questions knows of the list.
QuestionAlone(p) ==
    /\ job[p].kind = "add question" /\ job[p].at \in {"shift", "shifting"} =>
          \E x \in Questions : place[x] = job[p].to
    /\ Adding(p) => FilledBut(Questions, 1, job[p].to)
    /\ job[p].kind \in {"update question", "remove question"} => place[job[p].row] # Absent
    /\ job[p].kind = "update question" /\ job[p].at \in {"move", "moving"} =>
          \E x \in Questions : place[x] = job[p].to
    /\ job[p].kind \in QuestionKinds /\ job[p].at \in {"shifting", "moving", "removing"} =>
          \A x \in Questions : job[p].snap[x] = place[x]

QuestionList ==
    /\ \A p, o \in Requests : job[p].kind \in QuestionKinds /\ job[o].kind \in QuestionKinds => p = o
    /\ (\A p \in Requests : ~Adding(p)) => Filled(Questions, 1)
    /\ \A p \in Requests : QuestionAlone(p)

LEMMA QuestionsAside ==
    ASSUME ContentInv, QuestionList, NEW p \in Requests, OneJob(p),
           job[p].kind \notin QuestionKinds, job'[p].kind \notin QuestionKinds,
           \A x \in Questions : place'[x] = place[x]
    PROVE  QuestionList'
  <1>1. \A S : Fills(Questions, S)' <=> Fills(Questions, S)
    BY DEF Fills, There
  <1>2. (\A a : Filled(Questions, a)' <=> Filled(Questions, a))
        /\ \A a, k : FilledBut(Questions, a, k)' <=> FilledBut(Questions, a, k)
    BY <1>1 DEF Filled, FilledBut
  <1>3. \A o \in Requests \ {p} : job'[o] = job[o]
    BY DEF OneJob
  <1>4. ASSUME NEW o \in Requests PROVE QuestionAlone(o)'
    <2>1. CASE o = p
      BY <2>1 DEF QuestionAlone, QuestionKinds, Adding
    <2>2. CASE o # p
      <3>1. job'[o] = job[o] /\ QuestionAlone(o)
        BY <1>3, <2>2 DEF QuestionList
      <3>2. job[o].kind \in {"update question", "remove question"} => place'[job[o].row] # Absent
        <4>1. job[o].kind \in {"update question", "remove question"} => job[o].row \in Questions
          BY DEF ContentInv, JobFits, MoveOK, PointOK
        <4> QED BY <3>1, <4>1 DEF QuestionAlone
      <3> QED BY <1>2, <3>1, <3>2 DEF QuestionAlone, Adding
    <2> QED BY <2>1, <2>2
  <1>5. Adding(p)' <=> Adding(p)
    BY DEF Adding, QuestionKinds
  <1>6. \A o \in Requests \ {p} : Adding(o)' <=> Adding(o)
    BY <1>3 DEF Adding
  <1>7. (\A o \in Requests : ~Adding(o)') => Filled(Questions, 1)'
    BY <1>2, <1>5, <1>6 DEF QuestionList
  <1>8. \A o, other \in Requests : job'[o].kind \in QuestionKinds /\ job'[other].kind \in QuestionKinds => o = other
    BY <1>3 DEF QuestionList
  <1> QED BY <1>4, <1>7, <1>8 DEF QuestionList

LEMMA QuestionsByOne ==
    ASSUME NEW p \in Requests, OneJob(p), \A o \in Requests \ {p} : job[o].kind \notin QuestionKinds,
           QuestionAlone(p)', Adding(p)' \/ Filled(Questions, 1)'
    PROVE  QuestionList'
  <1>1. \A o \in Requests \ {p} : job'[o].kind \notin QuestionKinds
    BY DEF OneJob
  <1>2. \A o \in Requests \ {p} : QuestionAlone(o)'
    BY <1>1 DEF QuestionAlone, QuestionKinds, Adding
  <1>3. \A o \in Requests : QuestionAlone(o)'
    BY <1>2
  <1>4. \A o, other \in Requests : job'[o].kind \in QuestionKinds /\ job'[other].kind \in QuestionKinds => o = other
    BY <1>1
  <1> QED BY <1>3, <1>4 DEF QuestionList

\* A list that is filled is as long as it has rows.
LEMMA QuestionsCounted ==
    ASSUME Filled(Questions, 1)
    PROVE  Count \in Nat /\ Fills(Questions, 1 .. Count)
  <1>1. PICK n \in Nat : Fills(Questions, 1 .. 1 + n - 1)
    BY DEF Filled
  <1>2. IsFiniteSet(Questions)
    BY ContentAssumption
  <1>3. Cardinality(There(Questions)) = n
    BY <1>1, <1>2, RowsCounted
  <1>4. 1 .. 1 + n - 1 = 1 .. n
    OBVIOUS
  <1> QED BY <1>1, <1>3, <1>4 DEF Count

LEMMA QuestionReads ==
    ASSUME TypeOK, ContentInv, OrderInv, QuestionList, NEW p \in Requests, ~Adding(p), ~Ends(p),
           CountToAdd(p) \/ BeginShift(p) \/ UpdateFields(p) \/ CountToMove(p) \/ BeginMove(p) \/ BeginRemove(p)
    PROVE  QuestionList'
  <1>1. /\ job = [o \in Requests |-> job[o]] /\ IsJob(job[p]) /\ Aims(p) /\ JobFits(p)
        /\ job[p].to \in Int /\ QuestionAlone(p)
    BY DEF TypeOK, Jobs, ContentInv, RowsOK, JobsAre, OrderInv, QuestionList
  <1>2. job[p].kind \in QuestionKinds /\ UNCHANGED place
    BY DEF CountToAdd, BeginShift, UpdateFields, CountToMove, BeginMove, BeginRemove, QuestionKinds, questionVars
  <1>3. \A o \in Requests \ {p} : job[o].kind \notin QuestionKinds
    BY <1>2 DEF QuestionList
  <1>4. Filled(Questions, 1)
    <2>1. \A o \in Requests \ {p} : ~Adding(o)
      BY <1>3 DEF Adding, QuestionKinds
    <2> QED BY <2>1 DEF QuestionList
  <1>5. Count \in Nat /\ Fills(Questions, 1 .. Count)
    BY <1>4, QuestionsCounted
  <1>6. \A S : Fills(Questions, S) => Fills(Questions, S)'
    BY <1>2 DEF Fills, There
  <1>7. Filled(Questions, 1)'
    BY <1>4, <1>6 DEF Filled
  <1>8. OneJob(p)
    BY StepsAreOne DEF Step, QuestionStep
  <1>9. QuestionAlone(p)'
    <2>1. CASE CountToAdd(p)
      <3>1. PICK k : k = Within(job[p].to, Count + 1)
        OBVIOUS
      <3>2. PICK at : at = IF k <= Count THEN "shift" ELSE "insert"
        OBVIOUS
      <3>3. job' = [job EXCEPT ![p].to = k, ![p].at = at] /\ job[p].kind = "add question"
        BY <2>1, <3>1, <3>2 DEF CountToAdd
      <3>4. job'[p] = [job[p] EXCEPT !.to = k, !.at = at]
        BY <1>1, <3>3
      <3>5. job'[p].kind = "add question" /\ job'[p].to = k /\ job'[p].at = at
        BY <1>1, <3>3, <3>4 DEF IsJob
      <3>6. k \in 1 .. Count + 1
        BY <1>1, <1>5, <3>1 DEF Within
      <3>7. CASE k <= Count
        <4>1. \E x \in Questions : place'[x] = k
          BY <1>2, <1>5, <3>6, <3>7 DEF Fills
        <4> QED BY <3>2, <3>5, <3>7, <4>1 DEF QuestionAlone, Adding
      <3>8. CASE ~(k <= Count)
        <4>1. PICK n \in Nat : n = Count
          BY <1>5
        <4>2. k = n + 1 /\ (1 .. 1 + n) \ {k} = 1 .. n
          BY <1>5, <3>6, <3>8, <4>1
        <4>3. Fills(Questions, (1 .. 1 + n) \ {k})'
          BY <1>5, <1>6, <4>1, <4>2
        <4>4. k \in 1 .. 1 + n
          BY <4>2
        <4>5. FilledBut(Questions, 1, k)'
          BY <4>3, <4>4 DEF FilledBut
        <4> QED BY <3>2, <3>5, <3>8, <4>5 DEF QuestionAlone, Adding
      <3> QED BY <3>7, <3>8
    <2>2. CASE BeginShift(p) \/ BeginMove(p) \/ BeginRemove(p)
      <3>1. PICK snap : snap = Seen(Questions)
        OBVIOUS
      <3>2. PICK at \in {"shifting", "moving", "removing"} : job' = [job EXCEPT ![p].snap = snap, ![p].at = at]
            /\ (at = "shifting" => job[p].kind = "add question" /\ job[p].at = "shift")
            /\ (at = "moving" => job[p].kind = "update question" /\ job[p].at = "move")
            /\ (at = "removing" => job[p].kind = "remove question")
        BY <2>2, <3>1 DEF BeginShift, BeginMove, BeginRemove
      <3>3. job'[p] = [job[p] EXCEPT !.snap = snap, !.at = at]
        BY <1>1, <3>2
      <3>4. /\ job'[p].kind = job[p].kind /\ job'[p].to = job[p].to /\ job'[p].row = job[p].row
            /\ job'[p].at = at /\ job'[p].snap = snap
        BY <1>1, <3>3 DEF IsJob
      <3>5. \A x \in Questions : snap[x] = place'[x]
        BY <1>2, <3>1 DEF Seen, Rows
      <3> QED BY <1>1, <1>2, <3>2, <3>4, <3>5 DEF QuestionAlone, Adding
    <2>3. CASE UpdateFields(p)
      <3>1. job'[p] = [job[p] EXCEPT !.at = "count"] /\ job[p].kind = "update question"
        BY <1>1, <2>3 DEF UpdateFields, Goes
      <3>2. job'[p].kind = "update question" /\ job'[p].row = job[p].row /\ job'[p].at = "count"
        BY <1>1, <3>1 DEF IsJob
      <3> QED BY <1>1, <1>2, <3>1, <3>2 DEF QuestionAlone, Adding
    <2>4. CASE CountToMove(p)
      <3>1. PICK k : k = Within(job[p].to, Count)
        OBVIOUS
      <3>2. job'[p] = [job[p] EXCEPT !.to = k, !.at = "move"] /\ job[p].kind = "update question"
        BY <1>1, <2>4, <3>1 DEF CountToMove
      <3>3. job'[p].kind = "update question" /\ job'[p].row = job[p].row /\ job'[p].at = "move" /\ job'[p].to = k
        BY <1>1, <3>2 DEF IsJob
      <3>4. Count >= 1
        BY <1>1, <3>2, CountIsOne DEF QuestionAlone, JobFits, MoveOK, There
      <3>5. k \in 1 .. Count
        BY <1>1, <1>5, <3>1, <3>4 DEF Within
      <3>6. \E x \in Questions : place'[x] = k
        BY <1>2, <1>5, <3>5 DEF Fills
      <3> QED BY <1>1, <1>2, <3>2, <3>3, <3>6 DEF QuestionAlone, Adding
    <2> QED BY <2>1, <2>2, <2>3, <2>4
  <1> QED BY <1>3, <1>7, <1>8, <1>9, QuestionsByOne

LEMMA QuestionsEnd ==
    ASSUME NEW p \in Requests, OneJob(p), \A o \in Requests \ {p} : job[o].kind \notin QuestionKinds,
           job'[p] = NoJob, Filled(Questions, 1)'
    PROVE  QuestionList'
  <1>1. NoJob.kind = "none"
    BY DEF NoJob
  <1>2. QuestionAlone(p)'
    BY <1>1 DEF QuestionAlone, Adding, QuestionKinds
  <1> QED BY <1>2, QuestionsByOne

LEMMA QuestionWrites ==
    ASSUME TypeOK, ContentInv, OrderInv, QuestionList, NEW p \in Requests,
           ShiftOrdersForInsert(p) \/ InsertQuestion(p) \/ UpdateQuestionOrder(p) \/ DeleteAndReorder(p)
    PROVE  QuestionList'
  <1>1. /\ job = [o \in Requests |-> job[o]] /\ IsJob(job[p]) /\ Aims(p) /\ JobFits(p)
        /\ job[p].to \in Int /\ QuestionAlone(p) /\ place \in [Rows -> Int]
    BY DEF TypeOK, Jobs, ContentInv, RowsOK, JobsAre, OrderInv, QuestionList
  <1>2. job[p].kind \in QuestionKinds
    BY DEF ShiftOrdersForInsert, InsertQuestion, UpdateQuestionOrder, DeleteAndReorder, QuestionKinds
  <1>3. \A o \in Requests \ {p} : job[o].kind \notin QuestionKinds
    BY <1>2 DEF QuestionList
  <1>4. ~Adding(p) => Filled(Questions, 1)
    <2>1. \A o \in Requests \ {p} : ~Adding(o)
      BY <1>3 DEF Adding, QuestionKinds
    <2> QED BY <2>1 DEF QuestionList
  <1>5. OneJob(p)
    BY StepsAreOne DEF Step, QuestionStep
  <1>6. Questions \in SUBSET Rows
    BY DEF Rows
  <1>7. PICK k, r, snap : k = job[p].to /\ r = job[p].row /\ snap = job[p].snap
    OBVIOUS
  <1>8. CASE ShiftOrdersForInsert(p)
    <2>1. place' = Shifted(Questions, snap, k - 1, 1) /\ k >= 1 /\ k \in Int
      BY <1>1, <1>7, <1>8 DEF ShiftOrdersForInsert, Aims
    <2>2. (\E x \in Questions : place[x] = k) /\ \A x \in Questions : snap[x] = place[x]
      BY <1>1, <1>2, <1>7, <1>8 DEF ShiftOrdersForInsert, QuestionAlone
    <2>3. PICK n \in Nat : Fills(Questions, 1 .. 1 + n - 1)
      BY <1>4, <1>8 DEF ShiftOrdersForInsert, Adding, Filled
    <2>4. k \in 1 .. 1 + n - 1
      <3>1. k # Absent
        BY <2>1 DEF Absent
      <3> QED BY <2>2, <2>3, <3>1 DEF Fills, There
    <2>5. Fills(Questions, (1 .. 1 + n) \ {k})'
      BY <1>6, <2>1, <2>2, <2>3, <2>4, RowsShift
    <2>6. k \in 1 .. 1 + n
      BY <2>4
    <2>7. FilledBut(Questions, 1, k)'
      BY <2>5, <2>6 DEF FilledBut
    <2>8. job'[p].kind = "add question" /\ job'[p].at = "insert" /\ job'[p].to = k
      BY <1>1, <1>7, <1>8 DEF ShiftOrdersForInsert, Goes, IsJob
    <2>9. QuestionAlone(p)' /\ Adding(p)'
      BY <2>7, <2>8 DEF QuestionAlone, Adding
    <2> QED BY <1>3, <1>5, <2>9, QuestionsByOne
  <1>9. CASE InsertQuestion(p)
    <2>1. place' = [place EXCEPT ![r] = k] /\ job'[p] = NoJob /\ Adding(p) /\ r \in Questions
      BY <1>1, <1>7, <1>9 DEF InsertQuestion, Ends, Adding, JobFits, AddOK
    <2>2. PICK n \in Nat : k \in 1 .. 1 + n /\ Fills(Questions, (1 .. 1 + n) \ {k})
      BY <1>1, <1>7, <2>1 DEF QuestionAlone, FilledBut
    <2>3. place[r] = Absent
      BY <1>1, <1>7, <2>1 DEF JobFits, AddOK, Adding
    <2>4. Absent \notin (1 .. 1 + n) \ {k} /\ k # Absent
      BY <2>2 DEF Absent
    <2>5. Fills(Questions, ((1 .. 1 + n) \ {k}) \union {k})'
      BY <1>1, <1>6, <2>1, <2>2, <2>3, <2>4, RowPut
    <2>6. ((1 .. 1 + n) \ {k}) \union {k} = 1 .. 1 + (n + 1) - 1 /\ n + 1 \in Nat
      BY <2>2
    <2>7. Filled(Questions, 1)'
      BY <2>5, <2>6 DEF Filled
    <2> QED BY <1>3, <1>5, <2>1, <2>7, QuestionsEnd
  <1>10. CASE UpdateQuestionOrder(p)
    <2>1. place' = Moved(Questions, snap, r, k) /\ job'[p] = NoJob /\ r \in Questions /\ place[r] # Absent
      BY <1>1, <1>7, <1>10 DEF UpdateQuestionOrder, Ends, JobFits, MoveOK, QuestionAlone
    <2>2. (\E x \in Questions : place[x] = k) /\ \A x \in Questions : snap[x] = place[x]
      BY <1>1, <1>2, <1>7, <1>10 DEF UpdateQuestionOrder, QuestionAlone
    <2>3. PICK n \in Nat : Fills(Questions, 1 .. 1 + n - 1)
      BY <1>4, <1>10 DEF UpdateQuestionOrder, Adding, Filled
    <2>4. k \in 1 .. 1 + n - 1
      <3>1. k >= 1
        BY <1>1, <1>7, <1>10, <2>1 DEF UpdateQuestionOrder, Aims
      <3>2. k # Absent
        BY <3>1 DEF Absent
      <3> QED BY <2>2, <2>3, <3>2 DEF Fills, There
    <2>5. r \in There(Questions)
      BY <2>1 DEF There
    <2>6. Fills(Questions, 1 .. 1 + n - 1)'
      BY <1>6, <2>1, <2>2, <2>3, <2>4, <2>5, RowMoves
    <2>7. Filled(Questions, 1)'
      BY <2>6 DEF Filled
    <2> QED BY <1>3, <1>5, <2>1, <2>7, QuestionsEnd
  <1>11. CASE DeleteAndReorder(p)
    <2>1. r \in Questions /\ place[r] # Absent /\ job'[p] = NoJob
      BY <1>1, <1>7, <1>11 DEF DeleteAndReorder, Ends, JobFits, PointOK, QuestionAlone
    <2>2. place' = [Shifted(Questions, snap, place[r], -1) EXCEPT ![r] = Absent]
      BY <1>7, <1>11, <2>1 DEF DeleteAndReorder
    <2>3. \A x \in Questions : snap[x] = place[x]
      BY <1>1, <1>2, <1>7, <1>11 DEF DeleteAndReorder, QuestionAlone
    <2>4. PICK n \in Nat : Fills(Questions, 1 .. 1 + n - 1)
      BY <1>4, <1>11 DEF DeleteAndReorder, Adding, Filled
    <2>5. r \in There(Questions)
      BY <2>1 DEF There
    <2>6. n - 1 \in Nat /\ Fills(Questions, 1 .. 1 + (n - 1) - 1)'
      BY <1>6, <2>2, <2>3, <2>4, <2>5, RowsClose
    <2>7. Filled(Questions, 1)'
      BY <2>6 DEF Filled
    <2> QED BY <1>3, <1>5, <2>1, <2>7, QuestionsEnd
  <1> QED BY <1>8, <1>9, <1>10, <1>11

-----------------------------------------------------------------------------
(* Requests about views that do not overlap.                               *)

\* What the only request about views knows of the list.
ViewAlone(p) ==
    /\ job[p].kind = "create view" /\ job[p].at = "insert" => Fills(Views, 0 .. job[p].to - 1)
    /\ job[p].kind = "update view" => place[job[p].row] # Absent
    /\ job[p].kind = "update view" /\ job[p].at \in {"move", "moving"} =>
          \E x \in Views : place[x] = job[p].to
    /\ job[p].kind = "duplicate view" /\ job[p].at \in {"titles", "shift", "shifting"} =>
          place[job[p].row] # Absent /\ place[job[p].row] = job[p].to
    /\ job[p].kind \in ViewKinds /\ job[p].at \in {"moving", "shifting"} =>
          \A x \in Views : job[p].snap[x] = place[x]

ViewList ==
    /\ \A p, o \in Requests : job[p].kind \in ViewKinds /\ job[o].kind \in ViewKinds => p = o
    /\ Filled(Views, 0)
    /\ \A p \in Requests : ViewAlone(p)

LEMMA ViewsAside ==
    ASSUME ContentInv, ViewList, NEW p \in Requests, OneJob(p),
           job[p].kind \notin ViewKinds, job'[p].kind \notin ViewKinds,
           \A x \in Views : place'[x] = place[x]
    PROVE  ViewList'
  <1>1. \A S : Fills(Views, S)' <=> Fills(Views, S)
    BY DEF Fills, There
  <1>2. Filled(Views, 0)'
    BY <1>1 DEF ViewList, Filled
  <1>3. \A o \in Requests \ {p} : job'[o] = job[o]
    BY DEF OneJob
  <1>4. ASSUME NEW o \in Requests PROVE ViewAlone(o)'
    <2>1. CASE o = p
      BY <2>1 DEF ViewAlone, ViewKinds
    <2>2. CASE o # p
      <3>1. job'[o] = job[o] /\ ViewAlone(o)
        BY <1>3, <2>2 DEF ViewList
      <3>2. job[o].kind \in {"update view", "duplicate view"} => place'[job[o].row] = place[job[o].row]
        BY DEF ContentInv, JobFits, ViewOK
      <3>3. job[o].kind = "create view" /\ job[o].at = "insert" => Fills(Views, 0 .. job[o].to - 1)'
        <4>1. PICK k : k = job[o].to
          OBVIOUS
        <4>2. job[o].kind = "create view" /\ job[o].at = "insert" => Fills(Views, 0 .. k - 1)
          BY <3>1, <4>1 DEF ViewAlone
        <4> QED BY <1>1, <3>1, <4>1, <4>2
      <3> QED BY <3>1, <3>2, <3>3 DEF ViewAlone
    <2> QED BY <2>1, <2>2
  <1>5. \A o, other \in Requests : job'[o].kind \in ViewKinds /\ job'[other].kind \in ViewKinds => o = other
    BY <1>3 DEF ViewList
  <1> QED BY <1>2, <1>4, <1>5 DEF ViewList

LEMMA ViewsByOne ==
    ASSUME NEW p \in Requests, OneJob(p), \A o \in Requests \ {p} : job[o].kind \notin ViewKinds,
           ViewAlone(p)', Filled(Views, 0)'
    PROVE  ViewList'
  <1>1. \A o \in Requests \ {p} : job'[o].kind \notin ViewKinds
    BY DEF OneJob
  <1>2. \A o \in Requests \ {p} : ViewAlone(o)'
    BY <1>1 DEF ViewAlone, ViewKinds
  <1>3. \A o \in Requests : ViewAlone(o)'
    BY <1>2
  <1>4. \A o, other \in Requests : job'[o].kind \in ViewKinds /\ job'[other].kind \in ViewKinds => o = other
    BY <1>1
  <1> QED BY <1>3, <1>4 DEF ViewList

LEMMA ViewsEnd ==
    ASSUME NEW p \in Requests, OneJob(p), \A o \in Requests \ {p} : job[o].kind \notin ViewKinds,
           job'[p] = NoJob, Filled(Views, 0)'
    PROVE  ViewList'
  <1>1. NoJob.kind = "none"
    BY DEF NoJob
  <1>2. ViewAlone(p)'
    BY <1>1 DEF ViewAlone, ViewKinds
  <1> QED BY <1>2, ViewsByOne

\* The last of n views is at n - 1.
LEMMA LastPlaceFilled ==
    ASSUME TypeOK, NEW n \in Nat, Fills(Views, 0 .. n - 1)
    PROVE  MaxOrder = n - 1
  <1>1. \A v \in There(Views) : place[v] \in 0 .. n - 1
    BY DEF Fills
  <1>2. CASE There(Views) = {}
    <2>1. n = 0
      <3> SUFFICES ASSUME n # 0 PROVE FALSE
        OBVIOUS
      <3>1. 0 \in 0 .. n - 1
        OBVIOUS
      <3>2. PICK v \in Views : place[v] = 0
        BY <3>1 DEF Fills
      <3> QED BY <1>2, <3>2 DEF There, Absent
    <2> QED BY <1>2, <2>1 DEF MaxOrder
  <1>3. CASE There(Views) # {}
    <2>1. IsFiniteSet(There(Views)) /\ \A v \in There(Views) : place[v] \in Int
      BY <1>1, ContentAssumption, FS_Subset DEF There
    <2>2. \E v \in There(Views) : \A w \in There(Views) : place[w] <= place[v]
      BY <1>3, <2>1, LastOne DEF HasLast
    <2>3. PICK v : v = CHOOSE u \in There(Views) : \A w \in There(Views) : place[w] <= place[u]
      OBVIOUS
    <2>4. v \in There(Views) /\ \A w \in There(Views) : place[w] <= place[v]
      BY <2>2, <2>3
    <2>5. MaxOrder = place[v]
      BY <1>3, <2>3 DEF MaxOrder
    <2>6. n - 1 \in 0 .. n - 1
      BY <1>1, <2>4
    <2>7. PICK w \in Views : place[w] = n - 1
      BY <2>6 DEF Fills
    <2>8. w \in There(Views)
      BY <2>6, <2>7 DEF There, Absent
    <2> QED BY <1>1, <2>4, <2>5, <2>7, <2>8
  <1> QED BY <1>2, <1>3

LEMMA ViewListReads ==
    ASSUME TypeOK, ContentInv, OrderInv, ViewList, NEW p \in Requests, ~Ends(p),
           \/ ReadTitles(p) \/ ReadMaxOrder(p) \/ GetView(p) \/ UpdateTitle(p) \/ ReadMaxToMove(p)
           \/ BeginViewMove(p) \/ GetOriginal(p) \/ TitleCopy(p) \/ BeginViewShift(p)
           \/ DeleteIfUnlocked(p)
    PROVE  ViewList'
  <1>1. /\ job = [o \in Requests |-> job[o]] /\ IsJob(job[p]) /\ Aims(p) /\ JobFits(p)
        /\ job[p].to \in Int /\ ViewAlone(p)
    BY DEF TypeOK, Jobs, ContentInv, RowsOK, JobsAre, OrderInv, ViewList
  <1>2. job[p].kind \in ViewKinds /\ UNCHANGED place
    BY DEF ReadTitles, ReadMaxOrder, GetView, UpdateTitle, ReadMaxToMove, BeginViewMove, GetOriginal,
           TitleCopy, BeginViewShift, DeleteIfUnlocked, ViewKinds, questionVars
  <1>3. \A o \in Requests \ {p} : job[o].kind \notin ViewKinds
    BY <1>2 DEF ViewList
  <1>4. PICK n \in Nat : Fills(Views, 0 .. 0 + n - 1)
    BY DEF ViewList, Filled
  <1>5. Fills(Views, 0 .. n - 1) /\ MaxOrder = n - 1
    <2>1. 0 .. 0 + n - 1 = 0 .. n - 1
      OBVIOUS
    <2> QED BY <1>4, <2>1, LastPlaceFilled
  <1>6. \A S : Fills(Views, S) => Fills(Views, S)'
    BY <1>2 DEF Fills, There
  <1>7. Filled(Views, 0)'
    BY <1>6 DEF ViewList, Filled
  <1>8. OneJob(p)
    BY StepsAreOne DEF Step, ViewStep
  <1>9. job[p].row \in Views
    BY <1>1, <1>2 DEF JobFits, ViewOK, ViewKinds
  <1>10. ViewAlone(p)'
    <2>1. CASE ReadTitles(p)
      <3>1. job'[p].kind = "create view" /\ job'[p].at = "max"
        BY <1>1, <2>1 DEF ReadTitles, IsJob
      <3> QED BY <3>1 DEF ViewAlone
    <2>2. CASE ReadMaxOrder(p)
      <3>1. PICK k : k = MaxOrder + 1
        OBVIOUS
      <3>2. job'[p] = [job[p] EXCEPT !.to = k, !.at = "insert"] /\ job[p].kind = "create view"
        BY <1>1, <2>2, <3>1 DEF ReadMaxOrder
      <3>3. job'[p].kind = "create view" /\ job'[p].to = k /\ job'[p].at = "insert"
        BY <1>1, <3>2 DEF IsJob
      <3>4. k = n
        BY <1>5, <3>1
      <3>5. Fills(Views, 0 .. k - 1)'
        BY <1>5, <1>6, <3>4
      <3> QED BY <3>3, <3>5 DEF ViewAlone
    <2>3. CASE GetView(p) \/ UpdateTitle(p)
      <3>1. PICK at \in {"rename", "max"} : Goes(p, at)
        BY <2>3 DEF GetView, UpdateTitle, MovesOrEnds
      <3>2. job[p].kind = "update view"
        BY <2>3 DEF GetView, UpdateTitle
      <3>3. job'[p].kind = "update view" /\ job'[p].row = job[p].row /\ job'[p].at = at
        BY <1>1, <3>1, <3>2 DEF Goes, IsJob
      <3> QED BY <1>1, <1>2, <3>2, <3>3 DEF ViewAlone
    <2>4. CASE ReadMaxToMove(p)
      <3>1. PICK k : k = Clamped(job[p].to, MaxOrder)
        OBVIOUS
      <3>2. job'[p] = [job[p] EXCEPT !.to = k, !.at = "move"] /\ job[p].kind = "update view"
        BY <1>1, <2>4, <3>1 DEF ReadMaxToMove
      <3>3. job'[p].kind = "update view" /\ job'[p].to = k /\ job'[p].at = "move" /\ job'[p].row = job[p].row
        BY <1>1, <3>2 DEF IsJob
      <3>4. place[job[p].row] # Absent
        BY <1>1, <3>2 DEF ViewAlone
      <3>5. place[job[p].row] \in 0 .. n - 1
        BY <1>5, <1>9, <3>4 DEF Fills, There
      <3>6. k \in 0 .. n - 1
        BY <1>1, <1>5, <3>1, <3>5 DEF Clamped
      <3>7. \E x \in Views : place'[x] = k
        BY <1>2, <1>5, <3>6 DEF Fills
      <3> QED BY <1>2, <3>3, <3>4, <3>7 DEF ViewAlone
    <2>5. CASE BeginViewMove(p)
      <3>1. PICK snap : snap = Seen(Views)
        OBVIOUS
      <3>2. /\ job'[p] = [job[p] EXCEPT !.snap = snap, !.at = "moving"]
            /\ job[p].kind = "update view" /\ job[p].at = "move"
        BY <1>1, <2>5, <3>1 DEF BeginViewMove
      <3>3. /\ job'[p].kind = "update view" /\ job'[p].to = job[p].to /\ job'[p].at = "moving"
            /\ job'[p].row = job[p].row /\ job'[p].snap = snap
        BY <1>1, <3>2 DEF IsJob
      <3>4. \A x \in Views : snap[x] = place'[x]
        BY <1>2, <3>1 DEF Seen, Rows
      <3> QED BY <1>1, <1>2, <3>2, <3>3, <3>4 DEF ViewAlone
    <2>6. CASE GetOriginal(p)
      <3>1. PICK k, t : k = place[job[p].row] /\ t = title[job[p].row]
        OBVIOUS
      <3>2. /\ job'[p] = [job[p] EXCEPT !.to = k, !.title = t, !.at = "titles"]
            /\ job[p].kind = "duplicate view" /\ k # Absent
        BY <1>1, <2>6, <3>1 DEF GetOriginal
      <3>3. job'[p].kind = "duplicate view" /\ job'[p].to = k /\ job'[p].row = job[p].row /\ job'[p].at = "titles"
        BY <1>1, <3>2 DEF IsJob
      <3> QED BY <1>2, <3>1, <3>2, <3>3 DEF ViewAlone
    <2>7. CASE TitleCopy(p)
      <3>1. PICK t : t = UniqueTitle(TitlesRead, job[p].title)
        OBVIOUS
      <3>2. /\ job'[p] = [job[p] EXCEPT !.title = t, !.at = "shift"]
            /\ job[p].kind = "duplicate view" /\ job[p].at = "titles"
        BY <1>1, <2>7, <3>1 DEF TitleCopy
      <3>3. /\ job'[p].kind = "duplicate view" /\ job'[p].to = job[p].to /\ job'[p].at = "shift"
            /\ job'[p].row = job[p].row
        BY <1>1, <3>2 DEF IsJob
      <3> QED BY <1>1, <1>2, <3>2, <3>3 DEF ViewAlone
    <2>8. CASE DeleteIfUnlocked(p)
      <3>1. job'[p].kind = "delete view" /\ job'[p].at = "shift"
        BY <1>1, <2>8 DEF DeleteIfUnlocked, Goes, IsJob
      <3> QED BY <3>1 DEF ViewAlone
    <2>9. CASE BeginViewShift(p)
      <3>1. PICK snap : snap = Seen(Views)
        OBVIOUS
      <3>2. /\ job'[p] = [job[p] EXCEPT !.snap = snap, !.at = "shifting"]
            /\ job[p].kind \in {"duplicate view", "delete view"} /\ job[p].at = "shift"
        BY <1>1, <2>9, <3>1 DEF BeginViewShift
      <3>3. /\ job'[p].kind = job[p].kind /\ job'[p].to = job[p].to /\ job'[p].at = "shifting"
            /\ job'[p].row = job[p].row /\ job'[p].snap = snap
        BY <1>1, <3>2 DEF IsJob
      <3>4. \A x \in Views : snap[x] = place'[x]
        BY <1>2, <3>1 DEF Seen, Rows
      <3> QED BY <1>1, <1>2, <3>2, <3>3, <3>4 DEF ViewAlone
    <2> QED BY <2>1, <2>2, <2>3, <2>4, <2>5, <2>6, <2>7, <2>8, <2>9
  <1> QED BY <1>3, <1>7, <1>8, <1>10, ViewsByOne

LEMMA ViewListWrites ==
    ASSUME TypeOK, ContentInv, OrderInv, ViewList, NEW p \in Requests,
           InsertView(p) \/ UpdateViewOrder(p) \/ Duplicate(p) \/ DeleteView(p)
    PROVE  ViewList'
  <1>1. /\ job = [o \in Requests |-> job[o]] /\ IsJob(job[p]) /\ Aims(p) /\ JobFits(p)
        /\ job[p].to \in Int /\ ViewAlone(p) /\ place \in [Rows -> Int]
    BY DEF TypeOK, Jobs, ContentInv, RowsOK, JobsAre, OrderInv, ViewList
  <1>2. job[p].kind \in ViewKinds
    BY DEF InsertView, UpdateViewOrder, Duplicate, DeleteView, ViewKinds
  <1>3. \A o \in Requests \ {p} : job[o].kind \notin ViewKinds
    BY <1>2 DEF ViewList
  <1>4. PICK n \in Nat : Fills(Views, 0 .. 0 + n - 1)
    BY DEF ViewList, Filled
  <1>5. OneJob(p) /\ job'[p] = NoJob
    BY <1>1, StepsAreOne DEF Step, ViewStep, InsertView, UpdateViewOrder, Duplicate, DeleteView, Ends
  <1>6. Views \in SUBSET Rows
    BY DEF Rows
  <1>7. PICK k, r, snap, copy : k = job[p].to /\ r = job[p].row /\ snap = job[p].snap /\ copy = job[p].copy
    OBVIOUS
  <1>8. r \in Views /\ k \in Int
    BY <1>1, <1>2, <1>7 DEF JobFits, ViewOK, ViewKinds
  <1>9. Filled(Views, 0)'
    <2>1. CASE UNCHANGED place
      BY <2>1 DEF ViewList, Filled, Fills, There
    <2>2. CASE InsertView(p) /\ ~UNCHANGED place
      <3>1. place' = [place EXCEPT ![r] = k] /\ Fills(Views, 0 .. k - 1) /\ k >= 0
        BY <1>1, <1>7, <2>2 DEF InsertView, ViewAlone, Aims
      <3>2. place[r] = Absent
        <4>1. Makes(job[p], r)
          BY <1>7, <2>2 DEF InsertView, Makes
        <4> QED BY <1>6, <1>8, <4>1 DEF OrderInv
      <3>3. Absent \notin 0 .. k - 1 /\ k # Absent /\ k \notin 0 .. k - 1
        BY <1>8, <3>1 DEF Absent
      <3>4. Fills(Views, (0 .. k - 1) \union {k})'
        BY <1>1, <1>6, <1>8, <3>1, <3>2, <3>3, RowPut
      <3>5. (0 .. k - 1) \union {k} = 0 .. 0 + (k + 1) - 1 /\ k + 1 \in Nat
        BY <1>8, <3>1
      <3> QED BY <3>4, <3>5 DEF Filled
    <2>3. CASE UpdateViewOrder(p)
      <3>1. place' = Moved(Views, snap, r, k) /\ place[r] # Absent
        BY <1>1, <1>7, <2>3 DEF UpdateViewOrder, ViewAlone
      <3>2. (\E x \in Views : place[x] = k) /\ \A x \in Views : snap[x] = place[x]
        BY <1>1, <1>2, <1>7, <2>3 DEF UpdateViewOrder, ViewAlone
      <3>3. k \in 0 .. 0 + n - 1
        <4>1. k >= 0
          BY <1>1, <1>7, <2>3, <3>1 DEF UpdateViewOrder, Aims
        <4>2. k # Absent
          BY <1>8, <4>1 DEF Absent
        <4> QED BY <1>4, <3>2, <4>2 DEF Fills, There
      <3>4. r \in There(Views)
        BY <1>8, <3>1 DEF There
      <3>5. Fills(Views, 0 .. 0 + n - 1)'
        BY <1>4, <1>6, <3>1, <3>2, <3>3, <3>4, RowMoves
      <3> QED BY <3>5 DEF Filled
    <2>4. CASE Duplicate(p) /\ ~UNCHANGED place
      <3>1. place' = [Shifted(Views, snap, k, 1) EXCEPT ![copy] = k + 1]
        BY <1>7, <2>4 DEF Duplicate
      <3>2. /\ place[r] # Absent /\ place[r] = k /\ \A x \in Views : snap[x] = place[x]
        BY <1>1, <1>2, <1>7, <2>4 DEF Duplicate, ViewAlone
      <3>3. k \in 0 .. 0 + n - 1
        BY <1>4, <1>8, <3>2 DEF Fills, There
      <3>4. copy \in Views /\ place[copy] = Absent
        <4>1. copy \in Views /\ Makes(job[p], copy)
          BY <1>1, <1>7, <2>4 DEF Duplicate, JobFits, ViewOK, Makes
        <4> QED BY <1>6, <4>1 DEF OrderInv
      <3>5. Fills(Views, 0 .. 0 + (n + 1) - 1)'
        BY <1>4, <1>6, <3>1, <3>2, <3>3, <3>4, RowsSplit
      <3>6. n + 1 \in Nat
        OBVIOUS
      <3> QED BY <3>5, <3>6 DEF Filled
    <2>5. CASE DeleteView(p)
      <3>1. /\ place' = [Shifted(Views, snap, place[r], -1) EXCEPT ![r] = Absent]
            /\ place[r] # Absent /\ \A x \in Views : snap[x] = place[x]
        BY <1>1, <1>2, <1>7, <2>5 DEF DeleteView, ViewAlone, Aims
      <3>2. r \in There(Views)
        BY <1>8, <3>1 DEF There
      <3>3. n - 1 \in Nat /\ Fills(Views, 0 .. 0 + (n - 1) - 1)'
        BY <1>4, <1>6, <3>1, <3>2, RowsClose
      <3> QED BY <3>3 DEF Filled
    <2> QED BY <2>1, <2>2, <2>3, <2>4, <2>5
  <1> QED BY <1>3, <1>5, <1>9, ViewsEnd

-----------------------------------------------------------------------------
(* Whatever step is taken, lists whose requests do not overlap stay so.    *)

KeepsQuestions == \A x \in Questions : place'[x] = place[x]
KeepsViews == \A x \in Views : place'[x] = place[x]

LEMMA OthersPlaces ==
    ASSUME TypeOK, ContentInv, NEW p \in Requests
    PROVE  /\ ViewStep(p) => KeepsQuestions
           /\ QuestionStep(p) => KeepsViews
           /\ FileStep(p) \/ Cut(p) \/ Arrive(p) => UNCHANGED place
  <1>1. /\ place \in [Rows -> Int] /\ JobFits(p)
        /\ \A x \in Rows : x \in Questions <=> x \notin Views
    BY ContentAssumption DEF TypeOK, ContentInv, Rows
  <1>2. ASSUME ViewStep(p) PROVE KeepsQuestions
    <2>1. job[p].kind \in ViewKinds
      BY <1>2 DEF ViewStep, ReadTitles, ReadMaxOrder, InsertView, GetView, UpdateTitle, ReadMaxToMove,
         BeginViewMove, UpdateViewOrder, GetOriginal, TitleCopy, BeginViewShift, Duplicate,
         DeleteIfUnlocked, DeleteView,
         ViewKinds
    <2>2. job[p].row \in Views /\ (job[p].kind = "duplicate view" => job[p].copy \in Views)
      BY <1>1, <2>1 DEF JobFits, ViewOK, ViewKinds
    <2>3. \A x \in Questions : x \in Rows /\ x \notin Views
      BY <1>1 DEF Rows
    <2>4. CASE UNCHANGED place
      BY <2>4 DEF KeepsQuestions
    <2>5. CASE InsertView(p)
      BY <1>1, <2>2, <2>3, <2>5 DEF InsertView, KeepsQuestions
    <2>6. CASE UpdateViewOrder(p)
      BY <2>3, <2>6 DEF UpdateViewOrder, Moved, KeepsQuestions
    <2>7. CASE Duplicate(p)
      BY <1>1, <2>2, <2>3, <2>7 DEF Duplicate, Shifted, KeepsQuestions
    <2>8. CASE DeleteView(p)
      BY <2>2, <2>3, <2>8 DEF DeleteView, Shifted, KeepsQuestions
    <2> QED BY <1>2, <2>4, <2>5, <2>6, <2>7, <2>8 DEF ViewStep, ReadTitles, ReadMaxOrder, GetView, UpdateTitle,
         ReadMaxToMove, BeginViewMove, GetOriginal, TitleCopy, BeginViewShift, DeleteIfUnlocked, questionVars
  <1>3. ASSUME QuestionStep(p) PROVE KeepsViews
    <2>1. \A x \in Views : x \in Rows /\ x \notin Questions
      BY <1>1 DEF Rows
    <2>2. CASE UNCHANGED place
      BY <2>2 DEF KeepsViews
    <2>3. CASE ShiftOrdersForInsert(p)
      BY <2>1, <2>3 DEF ShiftOrdersForInsert, Shifted, KeepsViews
    <2>4. CASE InsertQuestion(p)
      BY <1>1, <2>1, <2>4 DEF InsertQuestion, JobFits, AddOK, KeepsViews
    <2>5. CASE UpdateQuestionOrder(p)
      BY <2>1, <2>5 DEF UpdateQuestionOrder, Moved, KeepsViews
    <2>6. CASE DeleteAndReorder(p)
      BY <1>1, <2>1, <2>6 DEF DeleteAndReorder, JobFits, PointOK, Shifted, KeepsViews
    <2> QED BY <1>3, <2>2, <2>3, <2>4, <2>5, <2>6 DEF QuestionStep, CountToAdd, BeginShift, UpdateFields,
         CountToMove, BeginMove, BeginRemove, ReadToHighlight, SetHighlight, ClearHighlight, questionVars
  <1>4. FileStep(p) \/ Cut(p) \/ Arrive(p) => UNCHANGED place
    BY DEF FileStep, CheckType, LoadPrevious, UpsertList, CommitUpload, LockFile, FindReference,
       PutShorterList, CommitDelete, Cut, Arrive, ArriveQuestion, ArriveHighlight, ArriveView,
       UpdateLocked, ArriveUpload, ArriveDelete, PatchAnswer, DeleteResponse, questionVars
  <1> QED BY <1>2, <1>3, <1>4

\* Which requests a step is of, and what it does to its kind.
LEMMA KindsProceed ==
    ASSUME TypeOK, ContentInv, NEW p \in Requests, Step(p) \/ Cut(p)
    PROVE  job'[p].kind \in {"none", job[p].kind} /\ mixed \subseteq mixed'
  <1>1. NoJob.kind = "none"
    BY DEF NoJob
  <1>2. Proceeds(p)
    BY StepsProceed
  <1>3. mixed \subseteq mixed'
    BY DEF Step, QuestionStep, CountToAdd, BeginShift, ShiftOrdersForInsert, UpdateFields, CountToMove,
         BeginMove, BeginRemove, ReadToHighlight, InsertQuestion, UpdateQuestionOrder, DeleteAndReorder,
         SetHighlight, ClearHighlight,
         ViewStep, ReadTitles, ReadMaxOrder, InsertView, GetView, UpdateTitle, ReadMaxToMove,
         BeginViewMove, UpdateViewOrder, GetOriginal, TitleCopy, BeginViewShift, Duplicate,
         DeleteIfUnlocked, DeleteView,
         FileStep, CheckType, LoadPrevious, UpsertList, CommitUpload, LockFile, FindReference,
         PutShorterList, CommitDelete, Cut, history
  <1> QED BY <1>1, <1>2, <1>3 DEF Proceeds

\* The list of questions, after a step of a request.
LEMMA QuestionListSteps ==
    ASSUME TypeOK, ContentInv, OrderInv, QuestionList, NEW p \in Requests, Step(p) \/ Cut(p),
           Questions \notin mixed'
    PROVE  QuestionList'
  <1>1. OneJob(p) /\ job = [o \in Requests |-> job[o]]
    BY StepsAreOne DEF TypeOK
  <1>2. CASE KeepsQuestions /\ job[p].kind \notin QuestionKinds
    <2>1. job'[p].kind \notin QuestionKinds
      BY <1>2, KindsProceed DEF QuestionKinds
    <2> QED BY <1>1, <1>2, <2>1, QuestionsAside DEF KeepsQuestions
  <1>3. CASE Ends(p) /\ UNCHANGED place /\ job[p].kind \in QuestionKinds /\ ~Adding(p)
    <2>1. \A o \in Requests \ {p} : job[o].kind \notin QuestionKinds
      BY <1>3 DEF QuestionList
    <2>2. \A o \in Requests : ~Adding(o)
      BY <1>3, <2>1 DEF Adding, QuestionKinds
    <2>3. Filled(Questions, 1)'
      BY <1>3, <2>2 DEF QuestionList, Filled, Fills, There
    <2>4. job'[p] = NoJob
      BY <1>1, <1>3 DEF Ends
    <2> QED BY <1>1, <2>1, <2>3, <2>4, QuestionsEnd
  <1>4. CASE Cut(p)
    <2>1. ~Adding(p) /\ Ends(p) /\ UNCHANGED place
      BY <1>4 DEF Cut, Adding, questionVars
    <2> QED BY <1>2, <1>3, <2>1 DEF KeepsQuestions
  <1>5. CASE QuestionStep(p)
    <2>1. CASE CountToAdd(p) \/ BeginShift(p) \/ UpdateFields(p) \/ CountToMove(p) \/ BeginMove(p) \/ BeginRemove(p)
      <3>1. ~Adding(p) /\ UNCHANGED place /\ job[p].kind \in QuestionKinds
        BY <2>1 DEF CountToAdd, BeginShift, UpdateFields, CountToMove, BeginMove, BeginRemove, Adding,
           QuestionKinds, questionVars
      <3> QED BY <1>3, <2>1, <3>1, QuestionReads
    <2>2. CASE ShiftOrdersForInsert(p) \/ InsertQuestion(p) \/ UpdateQuestionOrder(p) \/ DeleteAndReorder(p)
      BY <2>2, QuestionWrites
    <2>3. CASE ReadToHighlight(p) \/ SetHighlight(p) \/ ClearHighlight(p)
      <3>1. KeepsQuestions /\ job[p].kind \notin QuestionKinds
        BY <2>3 DEF ReadToHighlight, SetHighlight, ClearHighlight, KeepsQuestions, QuestionKinds, questionVars
      <3> QED BY <1>2, <3>1
    <2> QED BY <1>5, <2>1, <2>2, <2>3 DEF QuestionStep
  <1>6. CASE ViewStep(p)
    <2>1. job[p].kind \notin QuestionKinds
      BY <1>6 DEF ViewStep, ReadTitles, ReadMaxOrder, InsertView, GetView, UpdateTitle, ReadMaxToMove,
         BeginViewMove, UpdateViewOrder, GetOriginal, TitleCopy, BeginViewShift, Duplicate,
         DeleteIfUnlocked, DeleteView,
         QuestionKinds
    <2> QED BY <1>2, <1>6, <2>1, OthersPlaces
  <1>7. CASE FileStep(p)
    <2>1. job[p].kind \notin QuestionKinds
      BY <1>7 DEF FileStep, CheckType, LoadPrevious, UpsertList, CommitUpload, LockFile, FindReference,
         PutShorterList, CommitDelete, QuestionKinds
    <2> QED BY <1>2, <1>7, <2>1, OthersPlaces DEF KeepsQuestions
  <1> QED BY <1>4, <1>5, <1>6, <1>7 DEF Step

\* The list of views, after a step of a request.
LEMMA ViewListSteps ==
    ASSUME TypeOK, ContentInv, OrderInv, ViewList, NEW p \in Requests, Step(p) \/ Cut(p)
    PROVE  ViewList'
  <1>1. OneJob(p) /\ job = [o \in Requests |-> job[o]]
    BY StepsAreOne DEF TypeOK
  <1>2. CASE KeepsViews /\ job[p].kind \notin ViewKinds
    <2>1. job'[p].kind \notin ViewKinds
      BY <1>2, KindsProceed DEF ViewKinds
    <2> QED BY <1>1, <1>2, <2>1, ViewsAside DEF KeepsViews
  <1>3. CASE Ends(p) /\ UNCHANGED place /\ job[p].kind \in ViewKinds
    <2>1. \A o \in Requests \ {p} : job[o].kind \notin ViewKinds
      BY <1>3 DEF ViewList
    <2>2. Filled(Views, 0)'
      BY <1>3 DEF ViewList, Filled, Fills, There
    <2>3. job'[p] = NoJob
      BY <1>1, <1>3 DEF Ends
    <2> QED BY <1>1, <2>1, <2>2, <2>3, ViewsEnd
  <1>4. CASE Cut(p)
    <2>1. Ends(p) /\ UNCHANGED place
      BY <1>4 DEF Cut, questionVars
    <2> QED BY <1>2, <1>3, <2>1 DEF KeepsViews
  <1>5. CASE ViewStep(p)
    <2>1. CASE \/ ReadTitles(p) \/ ReadMaxOrder(p) \/ GetView(p) \/ UpdateTitle(p) \/ ReadMaxToMove(p)
               \/ BeginViewMove(p) \/ GetOriginal(p) \/ TitleCopy(p) \/ BeginViewShift(p)
           \/ DeleteIfUnlocked(p)
      <3>1. UNCHANGED place /\ job[p].kind \in ViewKinds
        BY <2>1 DEF ReadTitles, ReadMaxOrder, GetView, UpdateTitle, ReadMaxToMove, BeginViewMove, GetOriginal,
           TitleCopy, BeginViewShift, DeleteIfUnlocked, ViewKinds, questionVars
      <3> QED BY <1>3, <2>1, <3>1, ViewListReads
    <2>2. CASE InsertView(p) \/ UpdateViewOrder(p) \/ Duplicate(p) \/ DeleteView(p)
      BY <2>2, ViewListWrites
    <2> QED BY <1>5, <2>1, <2>2 DEF ViewStep
  <1>6. CASE QuestionStep(p)
    <2>1. job[p].kind \notin ViewKinds
      BY <1>6 DEF QuestionStep, CountToAdd, BeginShift, ShiftOrdersForInsert, UpdateFields, CountToMove,
         BeginMove, BeginRemove, ReadToHighlight, InsertQuestion, UpdateQuestionOrder, DeleteAndReorder,
         SetHighlight, ClearHighlight, ViewKinds
    <2> QED BY <1>2, <1>6, <2>1, OthersPlaces
  <1>7. CASE FileStep(p)
    <2>1. job[p].kind \notin ViewKinds
      BY <1>7 DEF FileStep, CheckType, LoadPrevious, UpsertList, CommitUpload, LockFile, FindReference,
         PutShorterList, CommitDelete, ViewKinds
    <2> QED BY <1>2, <1>7, <2>1, OthersPlaces DEF KeepsViews
  <1> QED BY <1>4, <1>5, <1>6, <1>7 DEF Step

-----------------------------------------------------------------------------
(* Requests that begin, and the lists there are at first.                  *)

\* A request about neither list, or about the other one.
LEMMA ListsAside ==
    ASSUME TypeOK, ContentInv, NEW p \in Requests, Arrive(p), UNCHANGED place, Idle(p), NEW j,
           UNCHANGED job \/ job' = [job EXCEPT ![p] = j]
    PROVE  /\ QuestionList /\ (UNCHANGED job \/ j.kind \notin QuestionKinds) => QuestionList'
           /\ ViewList /\ (UNCHANGED job \/ j.kind \notin ViewKinds) => ViewList'
  <1>1. OneJob(p) /\ job[p].kind = "none" /\ (UNCHANGED job \/ job'[p] = j)
    BY ArrivalsAreOne DEF TypeOK, Idle
  <1>2. (\A x \in Questions : place'[x] = place[x]) /\ \A x \in Views : place'[x] = place[x]
    OBVIOUS
  <1>3. ASSUME QuestionList, UNCHANGED job \/ j.kind \notin QuestionKinds PROVE QuestionList'
    <2>1. job[p].kind \notin QuestionKinds /\ job'[p].kind \notin QuestionKinds
      BY <1>1, <1>3 DEF QuestionKinds
    <2> QED BY <1>1, <1>2, <1>3, <2>1, QuestionsAside
  <1>4. ASSUME ViewList, UNCHANGED job \/ j.kind \notin ViewKinds PROVE ViewList'
    <2>1. job[p].kind \notin ViewKinds /\ job'[p].kind \notin ViewKinds
      BY <1>1, <1>4 DEF ViewKinds
    <2> QED BY <1>1, <1>2, <1>4, <2>1, ViewsAside
  <1> QED BY <1>3, <1>4

LEMMA QuestionComes ==
    ASSUME TypeOK, ContentInv, NEW p \in Requests, Arrive(p), ArriveQuestion(p)
    PROVE  /\ QuestionList /\ Questions \notin mixed' => QuestionList'
           /\ ViewList => ViewList'
  <1> PICK q \in Questions, k \in Wanted, t \in Types :
         \E kind \in Kinds(Questions) :
           /\ kind = "add question" => Fresh(q)
           /\ kind # "add question" => place[q] # Absent
           /\ kind = "remove question" => k = 1 /\ t = type[q]
           /\ job' = [job EXCEPT ![p] = [NoJob EXCEPT
                        !.kind = kind, !.row = q, !.to = k, !.type = t,
                        !.at = CASE kind = "add question" -> "count"
                                 [] kind = "update question" -> "fields"
                                 [] OTHER -> "remove"]]
    BY DEF ArriveQuestion
  <1>1. PICK kind \in Kinds(Questions), at \in {"count", "fields", "remove"} :
            /\ kind # "add question" => place[q] # Absent
            /\ kind = "add question" => at = "count"
            /\ job' = [job EXCEPT ![p] = [NoJob EXCEPT
                        !.kind = kind, !.row = q, !.to = k, !.type = t, !.at = at]]
    OBVIOUS
  <1>2. PICK j : j = [NoJob EXCEPT !.kind = kind, !.row = q, !.to = k, !.type = t, !.at = at]
    OBVIOUS
  <1>3. j.kind = kind /\ j.row = q /\ j.at = at
    BY <1>2 DEF NoJob
  <1>4. kind \in QuestionKinds /\ kind \notin ViewKinds
    BY DEF Kinds, QuestionKinds, ViewKinds
  <1>5. job' = [job EXCEPT ![p] = j] /\ UNCHANGED place /\ Idle(p)
    BY <1>1, <1>2 DEF ArriveQuestion, questionVars
  <1>6. ASSUME QuestionList, Questions \notin mixed' PROVE QuestionList'
    <2>1. \A o \in Requests \ {p} : job[o].kind \notin QuestionKinds
      BY <1>6 DEF ArriveQuestion, Mixing, Kinds, QuestionKinds
    <2>2. \A o \in Requests : ~Adding(o)
      BY <1>5, <2>1 DEF Adding, QuestionKinds, Idle
    <2>3. Filled(Questions, 1)'
      BY <1>5, <1>6, <2>2 DEF QuestionList, Filled, Fills, There
    <2>4. OneJob(p) /\ job'[p] = j
      BY <1>5, ArrivalsAreOne DEF TypeOK
    <2>5. QuestionAlone(p)'
      BY <1>1, <1>3, <1>4, <1>5, <2>4 DEF QuestionAlone, QuestionKinds, Adding
    <2> QED BY <2>1, <2>3, <2>4, <2>5, QuestionsByOne
  <1> QED BY <1>3, <1>4, <1>5, <1>6, ListsAside

LEMMA ViewComes ==
    ASSUME TypeOK, ContentInv, NEW p \in Requests, Arrive(p), ArriveView(p), Views # Questions
    PROVE  /\ ViewList /\ Views \notin mixed' => ViewList'
           /\ QuestionList => QuestionList'
  <1> PICK v \in Views, copy \in Views \union {NoRow}, k \in Wanted \union {Absent},
             t \in Names \union {<<>>} :
         \E kind \in Kinds(Views) :
           /\ kind = "update view" => place[v] # Absent
           /\ kind # "update view" => k = Absent /\ t = <<>>
           /\ kind = "create view" => Fresh(v)
           /\ IF kind = "duplicate view" THEN copy \in Views /\ Fresh(copy) ELSE copy = NoRow
           /\ kind \in {"delete view", "duplicate view"} => place[v] # Absent
           /\ job' = [job EXCEPT ![p] = [NoJob EXCEPT
                        !.kind = kind, !.row = v, !.copy = copy, !.to = k, !.title = t,
                        !.at = CASE kind = "create view" -> "titles"
                                 [] kind = "delete view" -> "remove"
                                 [] OTHER -> "get"]]
    BY DEF ArriveView
  <1>1. PICK kind \in Kinds(Views), at \in {"titles", "remove", "get"} :
            /\ kind = "create view" <=> at = "titles"
            /\ kind = "update view" => place[v] # Absent
            /\ job' = [job EXCEPT ![p] = [NoJob EXCEPT
                      !.kind = kind, !.row = v, !.copy = copy, !.to = k, !.title = t, !.at = at]]
    OBVIOUS
  <1>2. PICK j : j = [NoJob EXCEPT !.kind = kind, !.row = v, !.copy = copy, !.to = k, !.title = t,
                                     !.at = at]
    OBVIOUS
  <1>3. j.kind = kind /\ j.row = v /\ j.at = at
    BY <1>2 DEF NoJob
  <1>4. kind \in ViewKinds /\ kind \notin QuestionKinds
    BY DEF Kinds, QuestionKinds, ViewKinds
  <1>5. job' = [job EXCEPT ![p] = j] /\ UNCHANGED place /\ Idle(p)
    BY <1>1, <1>2 DEF ArriveView, questionVars
  <1>6. ASSUME ViewList, Views \notin mixed' PROVE ViewList'
    <2>1. \A o \in Requests \ {p} : job[o].kind \notin ViewKinds
      BY <1>6 DEF ArriveView, Mixing, Kinds, ViewKinds
    <2>2. Filled(Views, 0)'
      BY <1>5, <1>6 DEF ViewList, Filled, Fills, There
    <2>3. OneJob(p) /\ job'[p] = j
      BY <1>5, ArrivalsAreOne DEF TypeOK
    <2>4. ViewAlone(p)'
      BY <1>1, <1>3, <1>5, <2>3 DEF ViewAlone
    <2> QED BY <2>1, <2>2, <2>3, <2>4, ViewsByOne
  <1> QED BY <1>3, <1>4, <1>5, <1>6, ListsAside

\* While no two requests about a list overlap, its places are one after the other.
ListInv ==
    /\ Questions \notin mixed => QuestionList
    /\ Views # Questions /\ Views \notin mixed => ViewList

LEMMA ListArrivals ==
    ASSUME TypeOK, ContentInv, ListInv, NEW p \in Requests, Arrive(p)
    PROVE  ListInv'
  <1>1. UNCHANGED place
    BY OthersPlaces
  <1>2. CASE ArriveQuestion(p)
    <2>1. mixed \subseteq mixed'
      BY <1>2 DEF ArriveQuestion, Mixing
    <2> QED BY <1>2, <2>1, QuestionComes DEF ListInv
  <1>3. CASE ArriveView(p)
    <2>1. mixed \subseteq mixed'
      BY <1>3 DEF ArriveView, Mixing
    <2>2. Views # {}
      BY <1>3 DEF ArriveView
    <2>3. Views # Questions
      BY <2>2, ContentAssumption
    <2> QED BY <1>3, <2>1, <2>3, ViewComes DEF ListInv
  <1>4. CASE ArriveHighlight(p) \/ ArriveUpload(p) \/ ArriveDelete(p)
    <2>1. PICK j : /\ job' = [job EXCEPT ![p] = j]
                   /\ j.kind \in {"highlight", "clear", "upload files", "delete file"}
      <3>1. CASE ArriveHighlight(p)
        <4>1. PICK q \in There(Questions), at \in {"read", "set"}, kind \in {"highlight", "clear"} :
                job' = [job EXCEPT ![p] = [NoJob EXCEPT !.kind = kind, !.row = q, !.at = at]]
          BY <3>1 DEF ArriveHighlight
        <4>2. PICK j : j = [NoJob EXCEPT !.kind = kind, !.row = q, !.at = at]
          OBVIOUS
        <4>3. j.kind = kind
          BY <4>2 DEF NoJob
        <4> QED BY <4>1, <4>2, <4>3
      <3>2. CASE ArriveUpload(p)
        <4>1. PICK s \in Slots, new \in SUBSET Files :
                 job' = [job EXCEPT ![p] = [NoJob EXCEPT !.kind = "upload files", !.at = "check", !.slot = s, !.new = new]]
          BY <3>2 DEF ArriveUpload
        <4>2. PICK j : j = [NoJob EXCEPT !.kind = "upload files", !.at = "check", !.slot = s, !.new = new]
          OBVIOUS
        <4>3. j.kind = "upload files"
          BY <4>2 DEF NoJob
        <4> QED BY <4>1, <4>2, <4>3
      <3>3. CASE ArriveDelete(p)
        <4>1. PICK f \in files :
                 job' = [job EXCEPT ![p] = [NoJob EXCEPT !.kind = "delete file", !.at = "lock", !.file = f]]
          BY <3>3 DEF ArriveDelete
        <4>2. PICK j : j = [NoJob EXCEPT !.kind = "delete file", !.at = "lock", !.file = f]
          OBVIOUS
        <4>3. j.kind = "delete file"
          BY <4>2 DEF NoJob
        <4> QED BY <4>1, <4>2, <4>3
      <3> QED BY <1>4, <3>1, <3>2, <3>3
    <2>2. Idle(p) /\ UNCHANGED mixed
      BY <1>4 DEF ArriveHighlight, ArriveUpload, ArriveDelete, history
    <2>3. j.kind \notin QuestionKinds /\ j.kind \notin ViewKinds
      BY <2>1 DEF QuestionKinds, ViewKinds
    <2> QED BY <1>1, <2>1, <2>2, <2>3, ListsAside DEF ListInv
  <1>5. CASE UpdateLocked(p) \/ PatchAnswer(p) \/ DeleteResponse(p)
    <2>1. UNCHANGED job /\ Idle(p) /\ UNCHANGED mixed
      BY <1>5 DEF UpdateLocked, PatchAnswer, DeleteResponse, history
    <2> QED BY <1>1, <2>1, ListsAside DEF ListInv
  <1> QED BY <1>2, <1>3, <1>4, <1>5 DEF Arrive

LEMMA ListStays ==
    ASSUME TypeOK, ContentInv, OrderInv, ListInv, [Next]_vars
    PROVE  ListInv'
  <1>1. CASE UNCHANGED vars
    <2>1. UNCHANGED <<place, job, mixed>>
      BY <1>1 DEF vars, questionVars, history
    <2>2. \A rows, S : Fills(rows, S)' <=> Fills(rows, S)
      BY <2>1 DEF Fills, There
    <2>3. /\ \A rows, a : Filled(rows, a)' <=> Filled(rows, a)
          /\ \A rows, a, k : FilledBut(rows, a, k)' <=> FilledBut(rows, a, k)
      BY <2>2 DEF Filled, FilledBut
    <2>4. \A p \in Requests : (Adding(p)' <=> Adding(p)) /\ (QuestionAlone(p)' <=> QuestionAlone(p))
      BY <2>1, <2>3 DEF Adding, QuestionAlone
    <2>5. \A p \in Requests : ViewAlone(p)' <=> ViewAlone(p)
      BY <2>1, <2>2 DEF ViewAlone
    <2> QED BY <2>1, <2>3, <2>4, <2>5 DEF ListInv, QuestionList, ViewList
  <1>2. ASSUME NEW p \in Requests, Step(p) \/ Cut(p) PROVE ListInv'
    BY <1>2, KindsProceed, QuestionListSteps, ViewListSteps DEF ListInv
  <1> QED BY <1>1, <1>2, ListArrivals DEF Next

LEMMA FirstFilled ==
    ASSUME NEW rows \in SUBSET Rows, NEW order \in Seq(rows), NEW a \in Nat,
           \A i, j \in DOMAIN order : i # j => order[i] # order[j],
           \A x \in rows : place[x] = PlaceIn(order, x, a)
    PROVE  Filled(rows, a)
  <1>1. PICK n \in Nat : DOMAIN order = 1 .. n
    OBVIOUS
  <1>2. ASSUME NEW x \in rows, NEW i \in 1 .. n, order[i] = x PROVE place[x] = a - 1 + i
    <2>1. \E k \in DOMAIN order : order[k] = x
      BY <1>1, <1>2
    <2>2. PICK k : k = CHOOSE m \in DOMAIN order : order[m] = x
      OBVIOUS
    <2>3. k \in DOMAIN order /\ order[k] = x
      BY <2>1, <2>2
    <2>4. k = i
      BY <1>1, <1>2, <2>3
    <2>5. PlaceIn(order, x, a) = a - 1 + k
      BY <2>1, <2>2 DEF PlaceIn
    <2> QED BY <2>4, <2>5
  <1>3. ASSUME NEW x \in rows, place[x] # Absent PROVE \E i \in 1 .. n : order[i] = x
    BY <1>1, <1>3 DEF PlaceIn
  <1>4. Fills(rows, a .. a + n - 1)
    <2>1. \A x \in There(rows) : place[x] \in a .. a + n - 1
      <3> SUFFICES ASSUME NEW x \in rows, place[x] # Absent PROVE place[x] \in a .. a + n - 1
        BY DEF There
      <3>1. PICK i \in 1 .. n : order[i] = x
        BY <1>3
      <3>2. place[x] = a - 1 + i
        BY <1>2, <3>1
      <3> QED BY <3>2
    <2>2. ASSUME NEW s \in a .. a + n - 1 PROVE \E x \in rows : place[x] = s
      <3>1. s - a + 1 \in 1 .. n /\ a - 1 + (s - a + 1) = s
        OBVIOUS
      <3>2. order[s - a + 1] \in rows
        BY <1>1, <3>1
      <3> QED BY <1>2, <3>1, <3>2
    <2>3. ASSUME NEW x \in rows, NEW y \in rows, place[x] # Absent, place[y] # Absent, place[x] = place[y]
          PROVE  x = y
      <3>1. PICK i \in 1 .. n : order[i] = x
        BY <1>3, <2>3
      <3>2. PICK k \in 1 .. n : order[k] = y
        BY <1>3, <2>3
      <3>3. place[x] = a - 1 + i /\ place[y] = a - 1 + k
        BY <1>2, <3>1, <3>2
      <3>4. a - 1 + i = a - 1 + k
        BY <2>3, <3>3
      <3>5. i = k
        BY <3>4
      <3> QED BY <3>1, <3>2, <3>5
    <2> QED BY <2>1, <2>2, <2>3 DEF Fills, There
  <1> QED BY <1>4 DEF Filled

LEMMA ListStarts ==
    ASSUME Init PROVE ListInv
  <1>1. \A p \in Requests : job[p].kind = "none"
    BY DEF Init, NoJob
  <1>2. \A x \in Rows : place[x] = IF x \in Questions THEN PlaceIn(OldQuestions, x, 1)
                                   ELSE PlaceIn(OldViews, x, 0)
    BY DEF Init
  <1>3. Filled(Questions, 1)
    <2>1. /\ Questions \in SUBSET Rows /\ OldQuestions \in Seq(Questions)
          /\ \A i, j \in DOMAIN OldQuestions : i # j => OldQuestions[i] # OldQuestions[j]
      BY ContentAssumption DEF Rows
    <2>2. \A x \in Questions : place[x] = PlaceIn(OldQuestions, x, 1)
      BY <1>2 DEF Rows
    <2> QED BY <2>1, <2>2, FirstFilled
  <1>4. Filled(Views, 0)
    <2>1. /\ Views \in SUBSET Rows /\ OldViews \in Seq(Views)
          /\ \A i, j \in DOMAIN OldViews : i # j => OldViews[i] # OldViews[j]
      BY ContentAssumption DEF Rows
    <2>2. \A x \in Views : place[x] = PlaceIn(OldViews, x, 0)
      BY <1>2, ContentAssumption DEF Rows
    <2> QED BY <2>1, <2>2, FirstFilled
  <1>5. QuestionList
    BY <1>1, <1>3 DEF QuestionList, QuestionAlone, Adding, QuestionKinds
  <1>6. ViewList
    BY <1>1, <1>4 DEF ViewList, ViewAlone, ViewKinds
  <1> QED BY <1>5, <1>6 DEF ListInv

LEMMA FilledIsDense ==
    ASSUME NEW rows, IsFiniteSet(rows), NEW a \in Nat, Filled(rows, a)
    PROVE  Dense(rows, a)
  <1>1. PICK n \in Nat : Fills(rows, a .. a + n - 1)
    BY DEF Filled
  <1> QED BY <1>1, RowsCounted DEF Dense

LEMMA ListsHaveNoGaps ==
    ASSUME OrderInv, ListInv PROVE PlacesWithoutGaps
  <1>1. \A x \in Rows : place[x] # Absent => place[x] >= IF x \in Questions THEN 1 ELSE 0
    BY DEF OrderInv, AtFirst, FirstOf
  <1>2. ASSUME Questions \notin mixed, \A p \in Requests : job[p].kind \notin Kinds(Questions)
        PROVE  Dense(Questions, 1)
    <2>1. \A p \in Requests : ~Adding(p)
      BY <1>2 DEF Adding, Kinds
    <2>2. Filled(Questions, 1)
      BY <1>2, <2>1 DEF ListInv, QuestionList
    <2> QED BY <2>2, FilledIsDense, ContentAssumption
  <1>3. ASSUME Views \notin mixed, Views # Questions PROVE Dense(Views, 0)
    BY <1>3, FilledIsDense, ContentAssumption DEF ListInv, ViewList
  <1> QED BY <1>1, <1>2, <1>3 DEF PlacesWithoutGaps

\* Whatever overlaps, no question is before the first place and no view either; and while
\* the requests about a list do not overlap, its places are one after the other: what a
\* request shifts, inserts, moves and closes up adds up, wherever it is cut off but between
\* the shift and the insert.
THEOREM PlacesFollow == Spec => []PlacesWithoutGaps
  <1>1. Init => ContentInv /\ TypeOK /\ OrderInv /\ ListInv
    BY InvStarts, TypeStarts, OrderStarts, ListStarts
  <1>2. ContentInv /\ TypeOK /\ OrderInv /\ ListInv /\ [Next]_vars =>
          (ContentInv /\ TypeOK /\ OrderInv /\ ListInv)'
    BY InvStays, TypeStays, OrderStays, ListStays
  <1>3. OrderInv /\ ListInv => PlacesWithoutGaps
    BY ListsHaveNoGaps
  <1> QED BY <1>1, <1>2, <1>3, PTL DEF Spec
=============================================================================
