------------------------------- MODULE Views -------------------------------
(***************************************************************************)
(* The views of a form.  Duplicate and Delete are transactions; the other  *)
(* requests are statements one after another.                              *)
(*                                                                         *)
(* A title is a sequence of numbers: <<n>> is the default one with number  *)
(* n, Append(t, n) the one of the n-th copy of a view titled t.            *)
(***************************************************************************)
EXTENDS ContentTables

TitlesRead == {title[v] : v \in There(Views)}

(* The candidate with the least number that none of the titles has. *)
UniqueTitle(titles, candidate) ==
    LET free == {n \in 0 .. Cardinality(titles) : Append(candidate, n) \notin titles}
    IN  Append(candidate, CHOOSE n \in free : \A m \in free : n <= m)

MaxOrder == IF There(Views) = {} THEN -1
            ELSE place[CHOOSE v \in There(Views) : \A w \in There(Views) : place[w] <= place[v]]

Clamped(k, last) ==
    LET least == IF k < 0 THEN 0 ELSE k IN IF least > last THEN last ELSE least

(* A row that DeleteIfUnlocked has deleted in a transaction still open. *)
Taken(v) ==
    \E p \in Requests :
        job[p].kind = "delete view" /\ job[p].at \in {"shift", "shifting"} /\ job[p].row = v

(* The index on form and title refuses a title another row has, once it is *)
(* certain that the row stays.                                             *)
Titled(t) == {v \in There(Views) : title[v] = t}

ArriveView(p) ==
    /\ Idle(p)
    /\ \E v \in Views, copy \in Views \union {NoRow}, k \in Wanted \union {Absent}, t \in Names \union {<<>>} :
         \E kind \in Kinds(Views) :
           /\ kind = "update view" => place[v] # Absent
           /\ kind # "update view" => k = Absent /\ t = <<>>
           /\ kind = "create view" => Fresh(v)
           /\ IF kind = "duplicate view" THEN copy \in Views /\ Fresh(copy) ELSE copy = NoRow
           /\ kind \in {"delete view", "duplicate view"} => place[v] # Absent
           /\ job' = [job EXCEPT ![p] = [NoJob EXCEPT
                        !.kind = kind, !.row = v, !.copy = copy, !.to = k, !.title = t,
                        !.at = CASE kind = "create view" -> "titles"
                                 [] kind = "delete view" -> "remove"
                                 [] OTHER -> "get"]]
    /\ mixed' = Mixing(p, Views)
    /\ UNCHANGED <<questionVars, viewVars, fileVars, crossed>>

(* Lock and Unlock: one statement. *)
UpdateLocked(p) ==
    /\ Idle(p)
    /\ \E v \in There(Views) :
         ~Taken(v) /\ locked' = [locked EXCEPT ![v] = ~locked[v]]
    /\ UNCHANGED <<job, questionVars, title, fileVars, history>>

-----------------------------------------------------------------------------
(* Create: titles, the greatest place, insert.                             *)

ReadTitles(p) ==
    /\ job[p].kind = "create view" /\ job[p].at = "titles"
    /\ job' = [job EXCEPT ![p].title = UniqueTitle(TitlesRead, <<>>), ![p].at = "max"]
    /\ UNCHANGED <<questionVars, viewVars, fileVars, history>>

ReadMaxOrder(p) ==
    /\ job[p].kind = "create view" /\ job[p].at = "max"
    /\ job' = [job EXCEPT ![p].to = MaxOrder + 1, ![p].at = "insert"]
    /\ UNCHANGED <<questionVars, viewVars, fileVars, history>>

InsertView(p) ==
    LET v == job[p].row IN
    /\ job[p].kind = "create view" /\ job[p].at = "insert"
    /\ \A w \in Titled(job[p].title) : ~Taken(w)
    /\ IF Titled(job[p].title) # {} THEN UNCHANGED <<place, title, locked>>
       ELSE /\ place' = [place EXCEPT ![v] = job[p].to]
            /\ title' = [title EXCEPT ![v] = job[p].title]
            /\ locked' = [locked EXCEPT ![v] = FALSE]
    /\ Ends(p)
    /\ UNCHANGED <<type, highlight, gone, fileVars, history>>

-----------------------------------------------------------------------------
(* Update: the title, the greatest place, the move.                        *)

MovesOrEnds(p) == IF job[p].to = Absent THEN Ends(p) ELSE Goes(p, "max")

GetView(p) ==
    /\ job[p].kind = "update view" /\ job[p].at = "get"
    /\ IF place[job[p].row] = Absent THEN Ends(p)
       ELSE IF job[p].title # <<>> THEN Goes(p, "rename")
       ELSE MovesOrEnds(p)
    /\ UNCHANGED <<questionVars, viewVars, fileVars, history>>

UpdateTitle(p) ==
    LET v == job[p].row IN
    /\ job[p].kind = "update view" /\ job[p].at = "rename"
    /\ \A w \in {v} \union Titled(job[p].title) : ~Taken(w)
    /\ IF place[v] = Absent \/ Titled(job[p].title) \ {v} # {} THEN Ends(p) /\ title' = title
       ELSE MovesOrEnds(p) /\ title' = [title EXCEPT ![v] = job[p].title]
    /\ UNCHANGED <<questionVars, locked, fileVars, history>>

ReadMaxToMove(p) ==
    /\ job[p].kind = "update view" /\ job[p].at = "max"
    /\ job' = [job EXCEPT ![p].to = Clamped(job[p].to, MaxOrder), ![p].at = "move"]
    /\ UNCHANGED <<questionVars, viewVars, fileVars, history>>

BeginViewMove(p) ==
    /\ job[p].kind = "update view" /\ job[p].at = "move"
    /\ job' = [job EXCEPT ![p].snap = Seen(Views), ![p].at = "moving"]
    /\ UNCHANGED <<questionVars, viewVars, fileVars, history>>

UpdateViewOrder(p) ==
    /\ job[p].kind = "update view" /\ job[p].at = "moving"
    /\ \A v \in Views : job[p].snap[v] # Absent => ~Taken(v)
    /\ place' = Moved(Views, job[p].snap, job[p].row, job[p].to)
    /\ Ends(p)
    /\ UNCHANGED <<type, highlight, gone, viewVars, fileVars, history>>

-----------------------------------------------------------------------------
(* Duplicate: the view, the titles, then the rows after it make room.      *)

GetOriginal(p) ==
    /\ job[p].kind = "duplicate view" /\ job[p].at = "get"
    /\ IF place[job[p].row] = Absent THEN Ends(p)
       ELSE job' = [job EXCEPT ![p].to = place[job[p].row], ![p].title = title[job[p].row],
                               ![p].at = "titles"]
    /\ UNCHANGED <<questionVars, viewVars, fileVars, history>>

TitleCopy(p) ==
    /\ job[p].kind = "duplicate view" /\ job[p].at = "titles"
    /\ job' = [job EXCEPT ![p].title = UniqueTitle(TitlesRead, job[p].title), ![p].at = "shift"]
    /\ UNCHANGED <<questionVars, viewVars, fileVars, history>>

(* ShiftOrders of a duplication or a deletion begins. *)
BeginViewShift(p) ==
    /\ job[p].kind \in {"duplicate view", "delete view"} /\ job[p].at = "shift"
    /\ job' = [job EXCEPT ![p].snap = Seen(Views), ![p].at = "shifting"]
    /\ UNCHANGED <<questionVars, viewVars, fileVars, history>>

Duplicate(p) ==
    LET k == job[p].to
        moved == {v \in There(Views) : job[p].snap[v] > k /\ place[v] > k} IN
    /\ job[p].kind = "duplicate view" /\ job[p].at = "shifting"
    /\ \A v \in moved : ~Taken(v)
    /\ \A w \in Titled(job[p].title) : ~Taken(w)
    /\ IF Titled(job[p].title) # {} THEN UNCHANGED <<place, title, locked>>
       ELSE /\ place' = [Shifted(Views, job[p].snap, k, 1) EXCEPT ![job[p].copy] = k + 1]
            /\ title' = [title EXCEPT ![job[p].copy] = job[p].title]
            /\ locked' = [locked EXCEPT ![job[p].copy] = FALSE]
    /\ Ends(p)
    /\ UNCHANGED <<type, highlight, gone, fileVars, history>>

-----------------------------------------------------------------------------
(* Delete: the row unless it is locked, then the rows after it close up.   *)

DeleteIfUnlocked(p) ==
    LET v == job[p].row IN
    /\ job[p].kind = "delete view" /\ job[p].at = "remove"
    /\ ~Taken(v)
    /\ IF place[v] = Absent \/ locked[v] THEN Ends(p)
       ELSE Goes(p, "shift")
    /\ UNCHANGED <<questionVars, viewVars, fileVars, history>>

DeleteView(p) ==
    LET v == job[p].row
        moved == {w \in There(Views) : job[p].snap[w] > place[v] /\ place[w] > place[v]} IN
    /\ job[p].kind = "delete view" /\ job[p].at = "shifting"
    /\ \A w \in moved : ~Taken(w)
    /\ place' = [Shifted(Views, job[p].snap, place[v], -1) EXCEPT ![v] = Absent]
    /\ gone' = gone \union {v}
    /\ Ends(p)
    /\ UNCHANGED <<type, highlight, viewVars, fileVars, history>>

ViewStep(p) ==
    \/ ReadTitles(p) \/ ReadMaxOrder(p) \/ InsertView(p)
    \/ GetView(p) \/ UpdateTitle(p) \/ ReadMaxToMove(p) \/ BeginViewMove(p) \/ UpdateViewOrder(p)
    \/ GetOriginal(p) \/ TitleCopy(p) \/ BeginViewShift(p) \/ Duplicate(p)
    \/ DeleteIfUnlocked(p) \/ DeleteView(p)
=============================================================================
