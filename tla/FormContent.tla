---------------------------- MODULE FormContent ----------------------------
(***************************************************************************)
(* The server over the content of a form: requests about questions, views  *)
(* and files are served at once, step by step, and may be cut off.         *)
(***************************************************************************)
EXTENDS Questions, Views, Files

CONSTANT MaxRequests    \* bound: requests ever made

ASSUME ContentBound == MaxRequests \in Nat

VARIABLE asked          \* the requests there have been (bound only)

vars == <<questionVars, viewVars, fileVars, job, history, asked>>

PlaceIn(order, x, first) ==
    IF \E i \in DOMAIN order : order[i] = x
      THEN first - 1 + CHOOSE i \in DOMAIN order : order[i] = x ELSE Absent

Init ==
    /\ place = [x \in Rows |-> IF x \in Questions THEN PlaceIn(OldQuestions, x, 1)
                                                   ELSE PlaceIn(OldViews, x, 0)]
    /\ type = OldTypes
    /\ title = [v \in Views |-> IF place[v] = Absent THEN <<>> ELSE <<place[v]>>]
    /\ locked = [v \in Views |-> FALSE]
    /\ highlight = NoRow
    /\ responses = Responses
    /\ attached = OldFiles
    /\ files = {f \in Files : OldFiles[f] # NoSlot}
    /\ answered = {OldFiles[f] : f \in files}
    /\ list = [s \in Slots |-> {f \in files : OldFiles[f] = s}]
    /\ gone = {}
    /\ job = [p \in Requests |-> NoJob]
    /\ mixed = {} /\ crossed = {}
    /\ asked = 0

Arrive(p) ==
    \/ ArriveQuestion(p) \/ ArriveHighlight(p)
    \/ ArriveView(p) \/ UpdateLocked(p)
    \/ ArriveUpload(p) \/ ArriveDelete(p) \/ PatchAnswer(p) \/ DeleteResponse(p)

Step(p) == QuestionStep(p) \/ ViewStep(p) \/ FileStep(p)

(* A request ends early: its open transaction is undone, statements stay. *)
Cut(p) ==
    /\ ~Idle(p)
    /\ Ends(p)
    /\ mixed' = IF job[p].kind = "add question" /\ job[p].at = "insert"
                  THEN mixed \union {Questions} ELSE mixed
    /\ UNCHANGED <<questionVars, viewVars, fileVars, crossed, asked>>

Next ==
    \E p \in Requests :
        \/ asked < MaxRequests /\ asked' = asked + 1 /\ Arrive(p)
        \/ Step(p) /\ UNCHANGED asked
        \/ Cut(p)

Spec == Init /\ [][Next]_vars /\ \A p \in Requests : WF_vars(Step(p) /\ UNCHANGED asked)

-----------------------------------------------------------------------------
Jobs == [kind : {"none", "highlight", "clear", "upload files", "delete file"}
                  \union Kinds(Questions) \union Kinds(Views),
         at : Steps, row : Rows \union {NoRow}, copy : Rows \union {NoRow}, to : Int, type : Types, title : Seq(Nat),
         snap : [Rows -> Int],
         slot : Slots \union {NoSlot},
         list : SUBSET Files, new : SUBSET Files, file : Files \union {NoFile},
         writes : BOOLEAN]

(* The rows are of their tables, and a transaction that holds the lock of  *)
(* a file or an answer is the only one.                                    *)
TypeOK ==
    /\ place \in [Rows -> Int]
    /\ type \in [Questions -> Types]
    /\ title \in [Views -> Seq(Nat)]
    /\ locked \in [Views -> BOOLEAN]
    /\ highlight \in Questions \union {NoRow}
    /\ responses \subseteq Responses
    /\ answered \subseteq Slots
    /\ list \in [Slots -> SUBSET Files]
    /\ attached \in [Files -> Slots \union {NoSlot}]
    /\ files \subseteq Files
    /\ gone \subseteq Rows \union Files
    /\ job \in [Requests -> Jobs]
    /\ mixed \subseteq {Questions, Views} /\ crossed \subseteq Slots
    /\ asked \in Nat
    /\ \A p, other \in Requests : p # other =>
         /\ \A s \in Slots : ~(HoldsSlot(p, s) /\ HoldsSlot(other, s))
         /\ \A f \in Files : ~(HoldsFile(p, f) /\ HoldsFile(other, f))

Dense(rows, first) ==
    {place[x] : x \in There(rows)} = first .. first + Cardinality(There(rows)) - 1

(* Places begin at the first one whatever overlaps: a count or a greatest  *)
(* place that is stale may move a row past the others, and the counts of   *)
(* an emptied list reach no row (question/service.go Update).  Without      *)
(* requests that overlap they are one after the other: what a request      *)
(* shifts, inserts, moves and closes up adds up.                           *)
PlacesWithoutGaps ==
    /\ \A x \in Rows : place[x] # Absent => place[x] >= IF x \in Questions THEN 1 ELSE 0
    /\ \A rows \in {Questions, Views} \ mixed :
          (\A p \in Requests : job[p].kind \notin Kinds(rows)) =>
              Dense(rows, IF rows = Questions THEN 1 ELSE 0)

(* An answer whose list nobody has written over lists the files attached   *)
(* to it, and those are there; the highlighted question is there too.      *)
AnswersListTheirFiles ==
    /\ \A s \in answered \ crossed : list[s] = {f \in files : attached[f] = s}
    /\ \A f \in Files \ files : attached[f] = NoSlot
    /\ highlight # NoRow => place[highlight] # Absent
    /\ \A s \in answered : Parents(s)

(* No request waits for ever: the locks of files and of answers, of views  *)
(* and of the rows that close up are taken in orders without a cycle.      *)
RequestsAnswered == \A p \in Requests : ~Idle(p) ~> Idle(p)
=============================================================================
