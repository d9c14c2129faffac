-------------------------- MODULE ResponseContract --------------------------
(***************************************************************************)
(* What the response service promises to a user who does one thing at a    *)
(* time, without requests, steps or stale reads: a user has at most one    *)
(* response to the form; its answers are accepted values and are replaced, *)
(* never lost; it becomes submitted only when every active section is      *)
(* completed, and draft again only when it was submitted; a response that  *)
(* is removed takes its answers with it and does not come back.            *)
(* ResponseLifecycle implements this specification.                        *)
(***************************************************************************)
CONSTANTS
    Users, Responses, NoUser,
    Questions, NoAnswer,
    Accepts,        \* the values each question accepts
    Completed(_)    \* whether answers complete all the sections they activate

VARIABLES row, answers

Blank    == [q \in Questions |-> NoAnswer]
NoRow    == [progress |-> "absent", owner |-> NoUser]
LiveRows == {r \in Responses : row[r].progress \in {"draft", "submitted"}}

Init == /\ row = [r \in Responses |-> NoRow]
        /\ answers = [r \in Responses |-> Blank]

Open(u, r) ==
    /\ \A other \in LiveRows : row[other].owner # u
    /\ row[r] = NoRow
    /\ row' = [row EXCEPT ![r] = [progress |-> "draft", owner |-> u]]
    /\ UNCHANGED answers

\* Some answers of r are given or replaced, all of them accepted.
Save(r) ==
    /\ \A q \in Questions : answers'[r][q] \in Accepts[q] \union {answers[r][q]}
    /\ answers' = [answers EXCEPT ![r] = [q \in Questions |-> answers'[r][q]]]
    /\ UNCHANGED row

Submit(r) ==
    /\ Completed(answers[r])
    /\ row' = [row EXCEPT ![r].progress = "submitted"]
    /\ UNCHANGED answers

Cancel(r) ==
    /\ row[r].progress = "submitted"
    /\ row' = [row EXCEPT ![r].progress = "draft"]
    /\ UNCHANGED answers

Remove(rows) ==
    /\ row' = [r \in Responses |-> IF r \in rows
                                   THEN [row[r] EXCEPT !.progress = "deleted"] ELSE row[r]]
    /\ answers' = [r \in Responses |-> IF r \in rows THEN Blank ELSE answers[r]]

Next == \/ \E u \in Users, r \in Responses : Open(u, r)
        \/ \E r \in LiveRows : Save(r) \/ Submit(r) \/ Cancel(r)
        \/ \E rows \in SUBSET LiveRows : Remove(rows)

Spec == Init /\ [][Next]_<<row, answers>>
=============================================================================
