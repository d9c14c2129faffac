----------------------------- MODULE Questions -----------------------------
(***************************************************************************)
(* The questions of a section and the highlight of its form: no statement  *)
(* of a request shares a transaction with another one.                     *)
(***************************************************************************)
EXTENDS ContentTables

Count == Cardinality(There(Questions))

(* The place asked for, within the list. *)
Within(k, last) == IF k < 1 THEN 1 ELSE IF k > last THEN last ELSE k

ArriveQuestion(p) ==
    /\ Idle(p)
    /\ \E q \in Questions, k \in Wanted, t \in Types :
         \E kind \in Kinds(Questions) :
           /\ kind = "add question" => Fresh(q)
           /\ kind # "add question" => place[q] # Absent
           /\ kind = "remove question" => k = 1 /\ t = type[q]
           /\ job' = [job EXCEPT ![p] = [NoJob EXCEPT
                        !.kind = kind, !.row = q, !.to = k, !.type = t,
                        !.at = CASE kind = "add question" -> "count"
                                 [] kind = "update question" -> "fields"
                                 [] OTHER -> "remove"]]
    /\ mixed' = Mixing(p, Questions)
    /\ UNCHANGED <<questionVars, viewVars, fileVars, crossed>>

ArriveHighlight(p) ==
    /\ Idle(p)
    /\ \E q \in There(Questions), at \in {"read", "set"} :
         /\ at = "set" => q = highlight
         /\ job' = [job EXCEPT ![p] = [NoJob EXCEPT
                       !.kind = IF at = "read" THEN "highlight" ELSE "clear", !.row = q, !.at = at]]
    /\ UNCHANGED <<questionVars, viewVars, fileVars, history>>

-----------------------------------------------------------------------------
(* Create: count, shift, insert.                                           *)

CountToAdd(p) ==
    LET k == Within(job[p].to, Count + 1) IN
    /\ job[p].kind = "add question" /\ job[p].at = "count"
    /\ job' = [job EXCEPT ![p].to = k, ![p].at = IF k <= Count THEN "shift" ELSE "insert"]
    /\ UNCHANGED <<questionVars, viewVars, fileVars, history>>

BeginShift(p) ==
    /\ job[p].kind = "add question" /\ job[p].at = "shift"
    /\ job' = [job EXCEPT ![p].snap = Seen(Questions), ![p].at = "shifting"]
    /\ UNCHANGED <<questionVars, viewVars, fileVars, history>>

(* Mutant: the row at the place itself stays. *)
ShiftOrdersForInsert_After(p) ==
    /\ job[p].kind = "add question" /\ job[p].at = "shifting"
    /\ place' = Shifted(Questions, job[p].snap, job[p].to, 1)
    /\ Goes(p, "insert")
    /\ UNCHANGED <<type, highlight, gone, viewVars, fileVars, history>>

(* The rows from the place on make room. *)
ShiftOrdersForInsert(p) ==
    /\ job[p].kind = "add question" /\ job[p].at = "shifting"
    /\ place' = Shifted(Questions, job[p].snap, job[p].to - 1, 1)
    /\ Goes(p, "insert")
    /\ UNCHANGED <<type, highlight, gone, viewVars, fileVars, history>>

InsertQuestion(p) ==
    /\ job[p].kind = "add question" /\ job[p].at = "insert"
    /\ place' = [place EXCEPT ![job[p].row] = job[p].to]
    /\ type' = [type EXCEPT ![job[p].row] = job[p].type]
    /\ Ends(p)
    /\ UNCHANGED <<highlight, gone, viewVars, fileVars, history>>

-----------------------------------------------------------------------------
(* Update: the fields, then the place when it differs.                     *)

UpdateFields(p) ==
    LET q == job[p].row IN
    /\ job[p].kind = "update question" /\ job[p].at = "fields"
    /\ IF place[q] = Absent \/ place[q] = job[p].to THEN Ends(p) ELSE Goes(p, "count")
    /\ type' = IF place[q] = Absent THEN type ELSE [type EXCEPT ![q] = job[p].type]
    /\ UNCHANGED <<place, highlight, gone, viewVars, fileVars, history>>

CountToMove(p) ==
    /\ job[p].kind = "update question" /\ job[p].at = "count"
    /\ job' = [job EXCEPT ![p].to = Within(job[p].to, Count), ![p].at = "move"]
    /\ UNCHANGED <<questionVars, viewVars, fileVars, history>>

BeginMove(p) ==
    /\ job[p].kind = "update question" /\ job[p].at = "move"
    /\ job' = [job EXCEPT ![p].snap = Seen(Questions), ![p].at = "moving"]
    /\ UNCHANGED <<questionVars, viewVars, fileVars, history>>

UpdateQuestionOrder(p) ==
    /\ job[p].kind = "update question" /\ job[p].at = "moving"
    /\ place' = Moved(Questions, job[p].snap, job[p].row, job[p].to)
    /\ Ends(p)
    /\ UNCHANGED <<type, highlight, gone, viewVars, fileVars, history>>

-----------------------------------------------------------------------------
(* Delete: one statement, with the answers and the highlight that point to *)
(* the question.  It waits for the transactions that have locked those.    *)

BeginRemove(p) ==
    /\ job[p].kind = "remove question" /\ job[p].at = "remove"
    /\ job' = [job EXCEPT ![p].snap = Seen(Questions), ![p].at = "removing"]
    /\ UNCHANGED <<questionVars, viewVars, fileVars, history>>

DeleteAndReorder(p) ==
    LET q == job[p].row
        ofQuestion == Responses \X {q} IN
    /\ job[p].kind = "remove question" /\ job[p].at = "removing"
    /\ \A s \in ofQuestion : SlotFree(s)
    /\ place' = IF place[q] = Absent THEN place
                ELSE [Shifted(Questions, job[p].snap, place[q], -1) EXCEPT ![q] = Absent]
    /\ gone' = gone \union {q}
    /\ answered' = answered \ ofQuestion
    /\ list' = [s \in Slots |-> IF s \in ofQuestion THEN {} ELSE list[s]]
    /\ highlight' = IF highlight = q THEN NoRow ELSE highlight
    /\ Ends(p)
    /\ UNCHANGED <<type, viewVars, responses, attached, files, history>>

-----------------------------------------------------------------------------
(* The highlight: the question is read, then the row upserted.             *)

ReadToHighlight(p) ==
    LET q == job[p].row IN
    /\ job[p].kind = "highlight" /\ job[p].at = "read"
    /\ IF place[q] = Absent \/ type[q] # "choice" THEN Ends(p) ELSE Goes(p, "set")
    /\ UNCHANGED <<questionVars, viewVars, fileVars, history>>

SetHighlight(p) ==
    /\ job[p].kind = "highlight" /\ job[p].at = "set"
    /\ highlight' = IF place[job[p].row] = Absent THEN highlight ELSE job[p].row
    /\ Ends(p)
    /\ UNCHANGED <<place, type, gone, viewVars, fileVars, history>>

ClearHighlight(p) ==
    /\ job[p].kind = "clear"
    /\ highlight' = NoRow
    /\ Ends(p)
    /\ UNCHANGED <<place, type, gone, viewVars, fileVars, history>>

QuestionStep(p) ==
    \/ CountToAdd(p) \/ BeginShift(p) \/ ShiftOrdersForInsert(p) \/ InsertQuestion(p)
    \/ UpdateFields(p) \/ CountToMove(p) \/ BeginMove(p) \/ UpdateQuestionOrder(p)
    \/ BeginRemove(p) \/ DeleteAndReorder(p)
    \/ ReadToHighlight(p) \/ SetHighlight(p) \/ ClearHighlight(p)
=============================================================================
