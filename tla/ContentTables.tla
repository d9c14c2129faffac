--------------------------- MODULE ContentTables ---------------------------
(***************************************************************************)
(* The rows that make up the content of one form: the questions of a       *)
(* section and the views of the form, each with a place in its list; the   *)
(* highlighted question; uploaded files, their attachments and the answers *)
(* that list them (internal/form/question, view, highlight, answer and     *)
(* internal/file).  Questions, Views and Files say what the requests do to *)
(* them, FormContent puts them together.                                   *)
(*                                                                         *)
(* Statements run under READ COMMITTED.  A statement that writes several   *)
(* rows chooses them in the snapshot it begins with and applies to their   *)
(* newest versions; one that meets a row locked by an open transaction     *)
(* waits for its end.  What a transaction writes is applied when it ends.  *)
(* A statement of several rows takes their locks at once here; PostgreSQL   *)
(* takes them one by one and may end one of two such statements that wait  *)
(* for each other, which is a request cut off.                             *)
(***************************************************************************)
EXTENDS Integers, Sequences, FiniteSets

CONSTANTS
    Questions, Views,   \* ids of rows, of one section and of its form
    Responses, Files,
    Requests,           \* the requests the server can be serving at a time
    NoRow, NoSlot, NoFile,
    OldQuestions, OldViews,     \* the rows there are at first, in their order
    OldTypes,                   \* the types of the first questions
    OldFiles,                   \* the files uploaded already: to which answer
    Wanted,             \* the places requests ask for
    Names               \* the titles users give views

Types  == {"upload", "choice"}
Slots  == Responses \X Questions
Rows   == Questions \union Views
Absent == -2

(* The first rows are what the tables allow: no row twice in a list, and   *)
(* the answers files are attached to have their questions.                 *)
ASSUME ContentAssumption ==
    /\ Questions \intersect Views = {}
    /\ IsFiniteSet(Questions) /\ IsFiniteSet(Views)
    /\ NoRow \notin Rows /\ NoSlot \notin Slots /\ NoFile \notin Files
    /\ OldQuestions \in Seq(Questions) /\ OldViews \in Seq(Views)
    /\ \A i, j \in DOMAIN OldQuestions : i # j => OldQuestions[i] # OldQuestions[j]
    /\ \A i, j \in DOMAIN OldViews : i # j => OldViews[i] # OldViews[j]
    /\ OldTypes \in [Questions -> Types]
    /\ OldFiles \in [Files -> Slots \union {NoSlot}]
    /\ \A f \in Files : OldFiles[f] # NoSlot =>
          \E i \in DOMAIN OldQuestions : OldQuestions[i] = OldFiles[f][2]
    /\ Wanted \subseteq Int
    /\ Names \subseteq Seq(Nat)

VARIABLES
    place,      \* questions and views: "order" of each row, Absent without one
    type,       \* questions: type
    title,      \* views: title, the default one and its copies as numbers
    locked,     \* views: locked
    highlight,  \* form_highlights: the question it points to
    responses,  \* form_responses: the rows there are
    answered,   \* answers: the rows there are of upload questions
    list,       \* answers: the files each one lists
    attached,   \* file_attachments: the answer of each file, NoSlot without one
    files,      \* files: the rows there are
    gone,       \* the ids of rows that have been deleted: none comes again
    job,        \* what each request is doing
    mixed,      \* history only: lists whose places two requests changed at once
    crossed     \* history only: answers whose list was written by one who had read an older one

questionVars == <<place, type, highlight, gone>>
viewVars     == <<title, locked>>
fileVars     == <<responses, answered, list, attached, files>>
history      == <<mixed, crossed>>

-----------------------------------------------------------------------------
(* Requests                                                                *)

Steps == {"idle", "count", "shift", "shifting", "insert", "fields", "move", "moving",
          "remove", "removing", "read", "set", "titles", "max", "get", "rename",
          "check", "load", "upsert", "attach", "lock", "find", "put", "erase"}

NoJob == [kind |-> "none", at |-> "idle", row |-> NoRow, copy |-> NoRow, to |-> 0, type |-> "choice",
          title |-> <<>>, snap |-> [x \in Rows |-> Absent],
          slot |-> NoSlot, list |-> {}, new |-> {}, file |-> NoFile, writes |-> FALSE]

Idle(p) == job[p].kind = "none"

(* An id that gen_random_uuid can still return. *)
Fresh(x) == place[x] = Absent /\ x \notin gone /\ \A p \in Requests : x \notin {job[p].row, job[p].copy}

Goes(p, step) == job' = [job EXCEPT ![p].at = step]
Ends(p) == job' = [job EXCEPT ![p] = NoJob]

(***************************************************************************)
(* Places of a list: what a statement that had begun with the places snap  *)
(* makes of the places now.                                                *)
(***************************************************************************)

There(rows) == {x \in rows : place[x] # Absent}

Seen(rows) == [x \in Rows |-> IF x \in rows THEN place[x] ELSE Absent]

Shifted(rows, snap, after, by) ==
    [x \in Rows |-> IF x \in rows /\ place[x] # Absent /\ snap[x] > after /\ place[x] > after
                      THEN place[x] + by ELSE place[x]]

Moved(rows, snap, r, to) ==
    [x \in Rows |->
        IF place[x] = Absent \/ x \notin rows THEN place[x]
        ELSE IF x = r THEN to
        ELSE IF snap[x] = Absent \/ snap[r] = Absent THEN place[x]
        ELSE IF snap[r] < place[x] /\ place[x] <= to THEN place[x] - 1
        ELSE IF to <= place[x] /\ place[x] < snap[r] THEN place[x] + 1
        ELSE place[x]]

(* Lists whose places requests of these kinds change. *)
Kinds(rows) == IF rows = Questions THEN {"add question", "update question", "remove question"}
                                   ELSE {"create view", "update view", "duplicate view", "delete view"}

Mixing(p, rows) ==
    IF \E other \in Requests \ {p} : job[other].kind \in Kinds(rows)
      THEN mixed \union {rows} ELSE mixed

(***************************************************************************)
(* The answers and files whose rows open transactions have locked.         *)
(***************************************************************************)

HoldsSlot(p, s) ==
    /\ job[p].slot = s
    /\ \/ job[p].kind = "upload files" /\ job[p].at = "attach"
       \/ job[p].kind = "delete file" /\ job[p].at = "erase" /\ job[p].writes

HoldsFile(p, f) == job[p].kind = "delete file" /\ job[p].file = f /\ job[p].at # "lock"

(* Mutant: the answer is written without waiting for its lock. *)
SlotFree_Always(s) == TRUE
SlotFree(s) == \A p \in Requests : ~HoldsSlot(p, s)
=============================================================================
