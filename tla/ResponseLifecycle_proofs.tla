---------------------- MODULE ResponseLifecycle_proofs ----------------------
(***************************************************************************)
(* Theorems about ResponseLifecycle, for any sets of users, responses,      *)
(* requests and questions and any workflow.                                 *)
(***************************************************************************)
EXTENDS ResponseLifecycle, TLAPS

-----------------------------------------------------------------------------
(* What a request looks like                                               *)

Jobs == [kind : Kinds \union {"none"}, at : Points \union {"idle"},
         user : Users \union {NoUser}, resp : Responses \union {NoResponse},
         sent : UNION {PayloadsOf(kind) : kind \in Kinds}]

\* The statements a request of each kind can be at.
Stages ==
    [none      |-> {"idle"},
     create    |-> {"admit", "exists", "insert"},
     patch     |-> {"admit", "editable", "path", "save"},
     upload    |-> {"admit", "editable", "path", "save"},
     connect   |-> {"admit", "editable", "issue"},
     callback  |-> {"editable", "save"},
     submit    |-> {"admit", "recheck", "save", "judge", "mark"},
     cancel    |-> {"admit", "submitted", "revert"},
     configure |-> {"admit", "change"}]

OnAResponse == {"patch", "upload", "connect", "callback", "submit", "cancel"}

\* A request of a kind is at one of its statements; all but managers' are of a
\* user, and those on a response name one.
JobOK(j) ==
    /\ j \in Jobs
    /\ j.at \in Stages[j.kind]
    /\ j.kind = "none" => j = Idle
    /\ j.kind \in OnAResponse \union {"create"} => j.user \in Users
    /\ j.kind \in OnAResponse => j.resp \in Responses
    /\ j.kind \notin OnAResponse => j.resp = NoResponse
    /\ j.kind \in {"connect", "upload"} => j.sent \in PayloadsOf(j.kind)

JobsOK == job \in [Requests -> Jobs] /\ \A p \in Requests : JobOK(job[p])

LEMMA KindsAre ==
    Kinds = {"create", "patch", "upload", "connect", "callback", "submit", "cancel",
             "configure"}
  BY DEF Kinds, Then

LEMMA IdleOK == JobOK(Idle)
  <1>1. NoPayload \in UNION {PayloadsOf(kind) : kind \in Kinds}
    <2>1. PayloadsOf("create") = {NoPayload}
      BY DEF PayloadsOf
    <2> QED BY <2>1, KindsAre
  <1> QED BY <1>1 DEF JobOK, Idle, Jobs, Stages, OnAResponse

\* A request that goes on after a statement that is not its last is at another
\* statement of its kind.
LEMMA GoingOn ==
    ASSUME NEW j, JobOK(j), j.at \in {"admit", "exists", "editable", "path", "recheck",
                                      "judge", "submitted"}
    PROVE  JobOK([j EXCEPT !.at = Then[j.kind][@]])
  <1>1. Then[j.kind][j.at] \in Stages[j.kind] /\ Then[j.kind][j.at] \in Points
    BY DEF JobOK, Stages, Then, SubmitOrder, Points, Jobs, Kinds
  <1>2. j.kind # "none"
    BY DEF JobOK, Stages
  <1> QED BY <1>1, <1>2 DEF JobOK, Jobs

\* Which requests can be at a statement.
LEMMA WhoIsAt ==
    ASSUME NEW j, JobOK(j)
    PROVE  /\ j.at = "insert" => j.kind = "create" /\ j.user \in Users
           /\ j.at = "issue" => j.kind = "connect"
           /\ j.at \in {"recheck", "judge", "mark"} => j.kind = "submit"
           /\ j.at \in {"submitted", "revert"} => j.kind = "cancel"
           /\ j.at = "change" => j.kind = "configure"
           /\ j.at = "path" => j.kind \in {"patch", "upload"}
           /\ j.at = "editable" => j.kind \in {"patch", "upload", "connect", "callback"}
           /\ j.at = "save" => j.kind \in {"patch", "upload", "callback", "submit"}
           /\ j.at \in {"issue", "recheck", "judge", "mark", "submitted", "revert",
                        "path", "editable", "save"} =>
                 j.user \in Users /\ j.resp \in Responses
  <1>1. j.kind \in {"none", "create", "patch", "upload", "connect", "callback", "submit",
                    "cancel", "configure"}
    BY KindsAre DEF JobOK, Jobs
  <1>2. j.at \in Stages[j.kind]
    BY DEF JobOK
  <1> QED BY <1>1, <1>2 DEF JobOK, Stages, OnAResponse

LEMMA GoesOnOK ==
    ASSUME JobsOK, NEW p \in Requests, GoesOn(p),
           job[p].at \in {"admit", "exists", "editable", "path", "recheck", "judge",
                          "submitted"}
    PROVE  JobsOK'
  <1>1. JobOK([job[p] EXCEPT !.at = Then[job[p].kind][@]])
    BY GoingOn DEF JobsOK
  <1> QED BY <1>1 DEF JobsOK, GoesOn, JobOK

LEMMA AnswersOK ==
    ASSUME JobsOK, NEW p \in Requests, Answers(p)
    PROVE  JobsOK'
  BY IdleOK DEF JobsOK, Answers, JobOK

LEMMA ArrivesOK ==
    ASSUME JobsOK, NEW p \in Requests, Arrivals(p)
    PROVE  JobsOK'
  <1> DEFINE Arrived(j) == job' = [job EXCEPT ![p] = j]
  <1>1. ASSUME NEW j, JobOK(j), Arrived(j) PROVE JobsOK'
    BY <1>1 DEF JobsOK, JobOK
  <1>2. CASE ArriveConfigure(p)
    <2>1. JobOK([Idle EXCEPT !.kind = "configure", !.at = "admit"])
      BY IdleOK, KindsAre DEF JobOK, Jobs, Idle, Stages, OnAResponse, Points
    <2> QED BY <1>1, <1>2, <2>1 DEF ArriveConfigure
  <1>3. ASSUME NEW u \in Users, ArriveCreate(p, u) PROVE JobsOK'
    <2> DEFINE j == [kind |-> "create", at |-> First("create"), user |-> u,
                     resp |-> NoResponse, sent |-> NoPayload]
    <2>1. JobOK(j)
      BY IdleOK, KindsAre DEF JobOK, Jobs, Idle, Stages, OnAResponse, Points, First
    <2> QED BY <1>1, <1>3, <2>1 DEF ArriveCreate, Arrive
  <1>4. ASSUME NEW u \in Users, NEW kind \in Kinds, NEW r \in Responses,
               NEW sent \in PayloadsOf(kind), ArriveOn(p, kind, u, r, sent)
        PROVE  JobsOK'
    <2> DEFINE j == [kind |-> kind, at |-> First(kind), user |-> u,
                     resp |-> r, sent |-> sent]
    <2>1. kind \in OnAResponse
      BY <1>4 DEF ArriveOn, OnAResponse
    <2>2. First(kind) \in Stages[kind] /\ First(kind) \in Points
      BY <2>1 DEF First, Stages, OnAResponse, Points
    <2>3. JobOK(j)
      BY <2>1, <2>2 DEF JobOK, Jobs, OnAResponse
    <2> QED BY <1>1, <1>4, <2>3 DEF ArriveOn, Arrive
  <1> QED BY <1>2, <1>3, <1>4 DEF Arrivals

-----------------------------------------------------------------------------
(* Type correctness                                                        *)

TypeInv == TypeOK /\ JobsOK

LEMMA FactsAre ==
    ASSUME NEW kind, NEW r
    PROVE  Facts(kind, r) \subseteq {"open", "unlocked", "complete"}
  BY DEF Facts

LEMMA ObserveOK ==
    ASSUME seen \in [Requests -> SUBSET {"open", "unlocked", "complete"}], Observe
    PROVE  seen' \in [Requests -> SUBSET {"open", "unlocked", "complete"}]
  <1>1. \A p \in Requests :
           (Facts(job[p].kind, job[p].resp))' \subseteq {"open", "unlocked", "complete"}
    BY DEF Facts
  <1> QED BY <1>1 DEF Observe

LEMMA TypeInit == Init => TypeInv
  <1> SUFFICES ASSUME Init PROVE TypeInv
    OBVIOUS
  <1>1. form \in Forms
    BY LifecycleAssumption DEF Init, Forms
  <1>2. JobsOK
    BY IdleOK DEF Init, JobsOK, JobOK
  <1>3. row \in [Responses -> [progress : {"absent", "draft", "submitted", "deleted"},
                               owner : Users \union {NoUser}]]
    BY DEF Init, NoRow
  <1>4. /\ answers \in [Responses -> [Questions -> Stored]]
        /\ \A r \in Responses, q \in Questions : answers[r][q] \in Accepts[q] \union {NoAnswer}
    BY DEF Init, Blank, Stored
  <1>5. tokens \subseteq Responses \X OAuthQuestions
    BY DEF Init
  <1>6. seen \in [Requests -> SUBSET {"open", "unlocked", "complete"}]
    BY DEF Init
  <1> QED BY <1>1, <1>2, <1>3, <1>4, <1>5, <1>6 DEF TypeInv, TypeOK, JobsOK, Jobs

\* The writes of a request to answers.
LEMMA UpsertOK ==
    ASSUME TypeOK, NEW r \in Responses, NEW sent, Upsert(r, sent)
    PROVE  /\ answers' \in [Responses -> [Questions -> Stored]]
           /\ \A x \in Responses, q \in Questions :
                 answers'[x][q] \in Accepts[q] \union {NoAnswer}
  <1>1. \A q \in Questions : Merged(r, sent)[q] \in Accepts[q] \union {NoAnswer}
    BY DEF Merged, Upsert, Valid, TypeOK
  <1>2. Merged(r, sent) \in [Questions -> Stored]
    BY <1>1 DEF Merged, Stored
  <1> QED BY <1>1, <1>2 DEF Upsert, TypeOK

LEMMA GoneOK ==
    ASSUME TypeOK, NEW rows, Gone(rows)
    PROVE  /\ row' \in [Responses -> [progress : {"absent", "draft", "submitted", "deleted"},
                                      owner : Users \union {NoUser}]]
           /\ answers' \in [Responses -> [Questions -> Stored]]
           /\ \A x \in Responses, q \in Questions :
                 answers'[x][q] \in Accepts[q] \union {NoAnswer}
  <1>1. row' \in [Responses -> [progress : {"absent", "draft", "submitted", "deleted"},
                                owner : Users \union {NoUser}]]
    BY DEF Gone, TypeOK
  <1>2. answers' \in [Responses -> [Questions -> Stored]]
    BY DEF Gone, TypeOK, Blank, Stored
  <1>3. \A x \in Responses, q \in Questions : answers'[x][q] \in Accepts[q] \union {NoAnswer}
    BY DEF Gone, TypeOK, Blank
  <1> QED BY <1>1, <1>2, <1>3

-----------------------------------------------------------------------------
\* One statement of a request, or one action elsewhere, keeps the types.

LEMMA TypeStep == TypeInv /\ [Next]_vars => TypeInv'
  <1> SUFFICES ASSUME TypeInv, [Next]_vars PROVE TypeInv'
    OBVIOUS
  <1> USE DEF TypeInv
  <1> DEFINE RowOK   == row \in [Responses ->
                               [progress : {"absent", "draft", "submitted", "deleted"},
                                owner : Users \union {NoUser}]]
             AnsOK   == /\ answers \in [Responses ->
                              [Questions -> Stored]]
                        /\ \A r \in Responses, q \in Questions :
                              answers[r][q] \in Accepts[q] \union {NoAnswer}
             TokOK   == tokens \subseteq Responses \X OAuthQuestions
             TableOK == form \in Forms /\ RowOK /\ AnsOK /\ TokOK
  <1>1. TableOK /\ JobsOK
    BY DEF TypeOK
  <1>2. ASSUME UNCHANGED <<form, row, answers, tokens>> PROVE TableOK'
    BY <1>1, <1>2
  <1>3. ASSUME NEW p \in Requests, Arrivals(p) PROVE TableOK' /\ JobsOK'
    BY <1>2, <1>3, ArrivesOK DEF Arrivals, ArriveConfigure, ArriveCreate, ArriveOn, Arrive
  <1>4. ASSUME NEW p \in Requests,
               \/ Admit(p) \/ CheckEditable(p) \/ CheckPath(p) \/ CheckNoResponse(p)
               \/ Recheck(p) \/ Judge(p) \/ CheckSubmitted(p)
        PROVE  TableOK' /\ JobsOK'
    BY <1>2, <1>4, GoesOnOK
       DEF At, Admit, CheckEditable, CheckPath, CheckNoResponse, Recheck, Judge,
           CheckSubmitted
  <1>5. ASSUME NEW p \in Requests, Drop(p) PROVE TableOK' /\ JobsOK'
    BY <1>2, <1>5, AnswersOK DEF Drop
  <1>6. ASSUME NEW p \in Requests, Save(p) PROVE TableOK' /\ JobsOK'
    <2>1. job[p].resp \in Responses
      BY <1>6, WhoIsAt DEF JobsOK, Save, At
    <2>2. TableOK'
      BY <1>1, <1>6, <2>1, UpsertOK DEF Save
    <2>3. ASSUME job[p].kind = "submit" PROVE JobsOK'
      <3> DEFINE j == [job[p] EXCEPT !.at = SubmitOrder.save, !.sent = NoPayload]
      <3>1. j.at = "judge" /\ j.kind = "submit"
        BY <1>6, <2>3 DEF Save, At, SubmitOrder, JobsOK, Jobs
      <3>2. j \in Jobs /\ j.user = job[p].user /\ j.resp = job[p].resp
        BY <3>1, IdleOK DEF JobsOK, JobOK, Jobs, Idle, Points
      <3>3. JobOK(j)
        BY <2>3, <3>1, <3>2 DEF JobsOK, JobOK, Stages, OnAResponse
      <3>4. job' = [job EXCEPT ![p] = j]
        BY <1>6, <2>3 DEF Save
      <3> HIDE DEF j
      <3> QED BY <3>3, <3>4 DEF JobsOK, JobOK
    <2>4. ASSUME job[p].kind # "submit" PROVE JobsOK'
      BY <1>6, <2>4, AnswersOK DEF Save
    <2> QED BY <2>2, <2>3, <2>4
  <1>7. ASSUME NEW p \in Requests, Insert(p) PROVE TableOK' /\ JobsOK'
    <2>1. job[p].user \in Users
      BY <1>7, WhoIsAt DEF JobsOK, Insert, At
    <2> QED BY <1>1, <1>7, <2>1, AnswersOK DEF Insert
  <1>8. ASSUME NEW p \in Requests, IssueToken(p) PROVE TableOK' /\ JobsOK'
    <2>1. job[p].resp \in Responses /\ job[p].kind = "connect"
      BY <1>8, WhoIsAt DEF JobsOK, IssueToken, At
    <2>2. DOMAIN job[p].sent \subseteq OAuthQuestions
      <3>1. PayloadsOf("connect") = UNION {[{q} -> Accepts[q]] : q \in OAuthQuestions}
        BY DEF PayloadsOf
      <3>2. job[p].sent \in PayloadsOf("connect")
        BY <2>1 DEF JobsOK, JobOK
      <3>3. PICK one \in {[{q} -> Accepts[q]] : q \in OAuthQuestions} : job[p].sent \in one
        BY <3>1, <3>2
      <3> QED BY <3>3
    <2>3. TokOK'
      BY <1>1, <1>8, <2>1, <2>2 DEF IssueToken
    <2> QED BY <1>1, <1>8, <2>3, AnswersOK DEF IssueToken
  <1>9. ASSUME NEW p \in Requests, Mark(p) \/ Revert(p) PROVE TableOK' /\ JobsOK'
    <2>1. job[p].resp \in Responses
      BY <1>9, WhoIsAt DEF JobsOK, Mark, Revert, At
    <2>2. RowOK'
      <3>1. PICK progress \in {"draft", "submitted"} :
               row' = [row EXCEPT ![job[p].resp].progress = progress]
        BY <1>9 DEF Mark, Revert
      <3> QED BY <1>1, <2>1, <3>1
    <2>3. form' = form /\ answers' = answers /\ tokens' = tokens /\ Answers(p)
      BY <1>9 DEF Mark, Revert
    <2> QED BY <1>1, <2>2, <2>3, AnswersOK
  <1>10. ASSUME NEW p \in Requests, Change(p) PROVE TableOK' /\ JobsOK'
    <2>1. form' \in Forms
      BY <1>1, <1>10, LifecycleAssumption DEF Change, Coalesce, Forms, Deadlines
    <2> QED BY <1>1, <1>10, <2>1, AnswersOK DEF Change
  <1>11. ASSUME Elsewhere PROVE TableOK' /\ JobsOK'
    <2>1. form' \in Forms
      BY <1>1, <1>11, LifecycleAssumption
         DEF Elsewhere, SetStatus, DeleteResponse, DeleteForm, DeadlinePasses, Forms,
             Statuses, Deadlines
    <2>2. RowOK' /\ AnsOK'
      BY <1>1, <1>11, GoneOK
         DEF Elsewhere, SetStatus, DeleteResponse, DeleteForm, DeadlinePasses
    <2>3. TokOK' /\ JobsOK'
      BY <1>1, <1>11
         DEF Elsewhere, SetStatus, DeleteResponse, DeleteForm, DeadlinePasses, JobsOK
    <2> QED BY <2>1, <2>2, <2>3
  <1>12. CASE Next
    <2>1. TableOK' /\ JobsOK'
      BY <1>12, <1>3, <1>4, <1>5, <1>6, <1>7, <1>8, <1>9, <1>10, <1>11 DEF Next, Serve
    <2>2. (seen \in [Requests -> SUBSET {"open", "unlocked", "complete"}])'
      BY <1>12, ObserveOK DEF Next, TypeOK
    <2> QED BY <2>1, <2>2 DEF TypeOK, JobsOK, Jobs
  <1>13. CASE UNCHANGED vars
    BY <1>13 DEF vars, TypeOK, JobsOK
  <1> QED BY <1>12, <1>13

THEOREM TypeCorrect == Spec => []TypeOK
  <1>1. Init => TypeInv
    BY TypeInit
  <1>2. TypeInv /\ [Next]_vars => TypeInv'
    BY TypeStep
  <1>3. TypeInv => TypeOK
    BY DEF TypeInv
  <1> QED BY <1>1, <1>2, <1>3, PTL DEF Spec

-----------------------------------------------------------------------------
(* No answers without a response                                           *)

LEMMA OrphanStep == TypeInv /\ NoOrphanAnswers /\ [Next]_vars => NoOrphanAnswers'
  <1> SUFFICES ASSUME TypeInv, NoOrphanAnswers, [Next]_vars PROVE NoOrphanAnswers'
    OBVIOUS
  <1>1. ASSUME row' = row, answers' = answers PROVE NoOrphanAnswers'
    BY <1>1 DEF NoOrphanAnswers, Live, Blank
  <1>2. ASSUME NEW p \in Requests, Save(p) PROVE NoOrphanAnswers'
    <2>1. Live(job[p].resp) /\ row' = row
      BY <1>2 DEF Save, Upsert
    <2>2. \A r \in Responses : r # job[p].resp => answers'[r] = answers[r]
      BY <1>2 DEF Save, Upsert, TypeInv, TypeOK
    <2> QED BY <2>1, <2>2 DEF NoOrphanAnswers, Live, Blank
  <1>3. ASSUME NEW p \in Requests, Insert(p) PROVE NoOrphanAnswers'
    <2>1. PICK r \in Responses :
             row' = [row EXCEPT ![r] = [progress |-> "draft", owner |-> job[p].user]]
      BY <1>3 DEF Insert
    <2>2. answers' = answers
      BY <1>3 DEF Insert
    <2> QED BY <2>1, <2>2 DEF NoOrphanAnswers, Live, Blank, TypeInv, TypeOK
  <1>4. ASSUME NEW p \in Requests, Mark(p) \/ Revert(p) PROVE NoOrphanAnswers'
    <2>1. /\ Live(job[p].resp)
          /\ answers' = answers
          /\ \E progress \in {"draft", "submitted"} :
                row' = [row EXCEPT ![job[p].resp].progress = progress]
      BY <1>4 DEF Mark, Revert
    <2> QED BY <2>1 DEF NoOrphanAnswers, Live, Blank, TypeInv, TypeOK
  <1>5. ASSUME NEW rows, rows \subseteq LiveRows, Gone(rows) PROVE NoOrphanAnswers'
    BY <1>5 DEF Gone, NoOrphanAnswers, Live, Blank, TypeInv, TypeOK
  <1>6. CASE Next
    <2>1. ASSUME NEW p \in Requests, Arrivals(p) \/ Drop(p) PROVE NoOrphanAnswers'
      BY <1>1, <2>1 DEF Arrivals, ArriveConfigure, ArriveCreate, ArriveOn, Arrive, Drop
    <2>2. ASSUME NEW p \in Requests, Serve(p) PROVE NoOrphanAnswers'
      BY <1>1, <1>2, <1>3, <1>4, <2>2
         DEF Serve, Admit, CheckEditable, CheckPath, CheckNoResponse, IssueToken, Recheck,
             Judge, CheckSubmitted, Change
    <2>3. CASE Elsewhere
      BY <1>1, <1>5, <2>3
         DEF Elsewhere, SetStatus, DeleteResponse, DeleteForm, DeadlinePasses, LiveRows
    <2> QED BY <1>6, <2>1, <2>2, <2>3 DEF Next
  <1>7. CASE UNCHANGED vars
    BY <1>1, <1>7 DEF vars
  <1> QED BY <1>6, <1>7

\* However requests race with deletions, no answer outlives its response: answers
\* are written only by statements that need the response's row, and a deletion
\* takes all that were written before it.
THEOREM NoOrphans == Spec => []NoOrphanAnswers
  <1>1. Init => TypeInv /\ NoOrphanAnswers
    BY TypeInit DEF Init, NoOrphanAnswers
  <1>2. TypeInv /\ NoOrphanAnswers /\ [Next]_vars => (TypeInv /\ NoOrphanAnswers)'
    BY TypeStep, OrphanStep
  <1> QED BY <1>1, <1>2, PTL DEF Spec

-----------------------------------------------------------------------------
(* What a request has seen when it writes                                  *)

SeenNow   == \A p \in Requests : job[p] # Idle =>
                Facts(job[p].kind, job[p].resp) \subseteq seen[p]
Admitted  == \A p \in Requests :
                job[p].kind \notin {"none", "callback"} /\ job[p].at # "admit" =>
                   "open" \in seen[p]
Unlocked  == \A p \in Requests :
                job[p].kind \in {"patch", "upload", "callback"}
                /\ job[p].at \in {"path", "save"} => "unlocked" \in seen[p]
Judged    == \A p \in Requests : At(p, "mark") => "complete" \in seen[p]
Owned     == \A p \in Requests :
                job[p].at \in {"path", "save", "issue", "judge", "mark", "revert"} => Owns(p)

SeenInv == TypeInv /\ SeenNow /\ Admitted /\ Unlocked /\ Judged /\ Owned

LEMMA SeenNowStep == TypeInv /\ Next => SeenNow'
  <1> SUFFICES ASSUME TypeInv, Next PROVE SeenNow'
    OBVIOUS
  <1>1. Observe
    BY DEF Next
  <1> QED BY <1>1 DEF Observe, SeenNow, TypeInv, JobsOK

\* seen never shrinks while a request is under way.
LEMMA SeenGrows ==
    ASSUME TypeInv, Next, NEW p \in Requests, job'[p] # Idle
    PROVE  seen[p] \subseteq seen'[p]
  <1>1. Observe
    BY DEF Next
  <1> QED BY <1>1 DEF Observe

\* How a step moves a request, as far as the invariants look: it stays as it is,
\* ends, arrives, or goes from a statement to the next with what that statement asks.
LEMMA Moves ==
    ASSUME TypeInv, Next, NEW p \in Requests
    PROVE  \/ job'[p] = job[p]
           \/ job'[p] = Idle
           \/ job'[p].at = First(job'[p].kind) /\ job'[p].kind # "none"
           \/ /\ job'[p].kind = job[p].kind
              /\ job'[p].user = job[p].user
              /\ job'[p].resp = job[p].resp
              /\ \/ At(p, "admit") /\ Admissible(p) /\ job'[p].at = Then[job[p].kind].admit
                 \/ At(p, "editable") /\ MayEdit(p) /\ job'[p].at = Then[job[p].kind].editable
                 \/ At(p, "path") /\ job'[p].at = "save"
                 \/ At(p, "exists") /\ MayCreate(p) /\ job'[p].at = "insert"
                 \/ At(p, "recheck") /\ Owns(p) /\ job'[p].at = "save"
                 \/ At(p, "save") /\ job[p].kind = "submit" /\ job'[p].at = "judge"
                 \/ At(p, "judge") /\ MaySubmit(p) /\ job'[p].at = "mark"
                 \/ /\ At(p, "submitted") /\ job'[p].at = "revert" /\ Owns(p)
                    /\ row[job[p].resp].progress = "submitted"
  <1> DEFINE Moved ==
        \/ job'[p] = job[p]
        \/ job'[p] = Idle
        \/ job'[p].at = First(job'[p].kind) /\ job'[p].kind # "none"
        \/ /\ job'[p].kind = job[p].kind
           /\ job'[p].user = job[p].user
           /\ job'[p].resp = job[p].resp
           /\ \/ At(p, "admit") /\ Admissible(p) /\ job'[p].at = Then[job[p].kind].admit
              \/ At(p, "editable") /\ MayEdit(p) /\ job'[p].at = Then[job[p].kind].editable
              \/ At(p, "path") /\ job'[p].at = "save"
              \/ At(p, "exists") /\ MayCreate(p) /\ job'[p].at = "insert"
              \/ At(p, "recheck") /\ Owns(p) /\ job'[p].at = "save"
              \/ At(p, "save") /\ job[p].kind = "submit" /\ job'[p].at = "judge"
              \/ At(p, "judge") /\ MaySubmit(p) /\ job'[p].at = "mark"
              \/ /\ At(p, "submitted") /\ job'[p].at = "revert" /\ Owns(p)
                 /\ row[job[p].resp].progress = "submitted"
  <1> USE DEF TypeInv, JobsOK
  <1>1. ASSUME NEW o \in Requests, Arrivals(o) PROVE Moved
    <2>1. CASE o = p
      <3>1. CASE ArriveConfigure(p)
        <4>1. job'[p] = [Idle EXCEPT !.kind = "configure", !.at = "admit"]
          BY <3>1 DEF ArriveConfigure
        <4>2. job'[p].kind = "configure" /\ job'[p].at = "admit"
          BY <4>1 DEF Idle
        <4> QED BY <4>2 DEF First
      <3>2. ASSUME NEW kind \in Kinds, NEW u, NEW r, NEW sent, Arrive(p, kind, u, r, sent)
            PROVE  job'[p].at = First(job'[p].kind) /\ job'[p].kind # "none"
        <4>1. job'[p].kind = kind /\ job'[p].at = First(kind)
          BY <3>2 DEF Arrive
        <4> QED BY <4>1, KindsAre
      <3>3. CASE \E u \in Users : ArriveCreate(p, u)
        BY <3>2, <3>3, KindsAre DEF ArriveCreate
      <3>4. CASE \E u \in Users, kind \in Kinds, r \in Responses :
                   \E sent \in PayloadsOf(kind) : ArriveOn(p, kind, u, r, sent)
        BY <3>2, <3>4 DEF ArriveOn
      <3> QED BY <1>1, <2>1, <3>1, <3>2, <3>3, <3>4 DEF Arrivals
    <2>2. CASE o # p
      BY <1>1, <2>2 DEF Arrivals, ArriveConfigure, ArriveCreate, ArriveOn, Arrive
    <2> QED BY <2>1, <2>2
  <1>2. ASSUME NEW o \in Requests, Answers(o) PROVE Moved
    BY <1>2 DEF Answers
  <1>3. ASSUME NEW o \in Requests, Serve(o), o # p PROVE job'[p] = job[p]
    BY <1>3
       DEF Serve, Admit, CheckEditable, CheckPath, Save, CheckNoResponse, Insert, IssueToken,
           Recheck, Judge, Mark, CheckSubmitted, Revert, Change, GoesOn, Answers
  <1>4. ASSUME Serve(p) PROVE Moved
    <2>1. ASSUME GoesOn(p)
          PROVE  /\ job'[p].kind = job[p].kind
                 /\ job'[p].user = job[p].user
                 /\ job'[p].resp = job[p].resp
                 /\ job'[p].at = Then[job[p].kind][job[p].at]
      BY <2>1 DEF GoesOn, Jobs
    <2>2. CASE Admit(p)
      BY <2>1, <2>2 DEF Admit, At
    <2>3. CASE CheckEditable(p)
      BY <2>1, <2>3 DEF CheckEditable, At
    <2>4. CASE CheckPath(p)
      <3>1. job[p].kind \in {"patch", "upload"}
        BY <2>4, WhoIsAt DEF CheckPath, At
      <3> QED BY <2>1, <2>4, <3>1 DEF CheckPath, At, Then
    <2>5. CASE Save(p)
      <3>1. CASE job[p].kind = "submit"
        BY <2>5, <3>1 DEF Save, SubmitOrder, Jobs
      <3>2. CASE job[p].kind # "submit"
        BY <2>5, <3>2, <1>2 DEF Save
      <3> QED BY <3>1, <3>2
    <2>6. CASE CheckNoResponse(p)
      <3>1. job[p].kind = "create"
        BY <2>6, KindsAre DEF CheckNoResponse, At, JobOK, Stages, Jobs
      <3> QED BY <2>1, <2>6, <3>1 DEF CheckNoResponse, At, Then
    <2>7. CASE Recheck(p)
      <3>1. job[p].kind = "submit"
        BY <2>7, WhoIsAt DEF Recheck, At
      <3> QED BY <2>1, <2>7, <3>1 DEF Recheck, At, Then, SubmitOrder
    <2>8. CASE Judge(p)
      <3>1. job[p].kind = "submit"
        BY <2>8, WhoIsAt DEF Judge, At
      <3> QED BY <2>1, <2>8, <3>1 DEF Judge, At, Then, SubmitOrder
    <2>9. CASE CheckSubmitted(p)
      <3>1. job[p].kind = "cancel"
        BY <2>9, WhoIsAt DEF CheckSubmitted, At
      <3> QED BY <2>1, <2>9, <3>1 DEF CheckSubmitted, At, Then
    <2>10. CASE Insert(p) \/ IssueToken(p) \/ Mark(p) \/ Revert(p) \/ Change(p)
      BY <1>2, <2>10 DEF Insert, IssueToken, Mark, Revert, Change
    <2> QED BY <1>4, <2>2, <2>3, <2>4, <2>5, <2>6, <2>7, <2>8, <2>9, <2>10 DEF Serve
  <1>5. ASSUME Elsewhere PROVE job' = job
    BY <1>5 DEF Elsewhere, SetStatus, DeleteResponse, DeleteForm, DeadlinePasses
  <1> HIDE DEF Moved
  <1>6. Moved
    BY <1>1, <1>2, <1>3, <1>4, <1>5 DEF Next, Drop, Moved
  <1> QED BY <1>6 DEF Moved

\* The owner of a row never changes.
LEMMA OwnersStay ==
    ASSUME TypeInv, Next, NEW r \in Responses, row[r] # NoRow
    PROVE  row'[r].owner = row[r].owner
  <1> USE DEF TypeInv, TypeOK
  <1>1. CASE row' = row
    BY <1>1
  <1>2. ASSUME NEW p \in Requests, Insert(p) PROVE row'[r] = row[r]
    BY <1>2 DEF Insert
  <1>3. ASSUME NEW p \in Requests, Mark(p) \/ Revert(p) PROVE row'[r].owner = row[r].owner
    <2>1. PICK progress \in {"draft", "submitted"} :
             row' = [row EXCEPT ![job[p].resp].progress = progress]
      BY <1>3 DEF Mark, Revert
    <2> QED BY <2>1
  <1>4. ASSUME NEW rows, Gone(rows) PROVE row'[r].owner = row[r].owner
    BY <1>4 DEF Gone
  <1>5. ASSUME NEW p \in Requests, Arrivals(p) \/ Drop(p) PROVE row' = row
    BY <1>5 DEF Arrivals, ArriveConfigure, ArriveCreate, ArriveOn, Arrive, Drop
  <1>6. ASSUME NEW p \in Requests, Serve(p), ~Insert(p), ~Mark(p), ~Revert(p)
        PROVE  row' = row
    BY <1>6 DEF Serve, Admit, CheckEditable, CheckPath, Save, CheckNoResponse, IssueToken,
                Recheck, Judge, CheckSubmitted, Change
  <1>7. CASE Elsewhere
    BY <1>1, <1>4, <1>7 DEF Elsewhere, SetStatus, DeleteResponse, DeleteForm, DeadlinePasses
  <1> QED BY <1>1, <1>2, <1>3, <1>5, <1>6, <1>7 DEF Next

LEMMA OwnedStays ==
    ASSUME TypeInv, Next, NEW p \in Requests, Owns(p), job[p].user \in Users,
           job[p].resp \in Responses,
           job'[p].user = job[p].user, job'[p].resp = job[p].resp
    PROVE  Owns(p)'
  <1>1. row[job[p].resp] # NoRow
    BY LifecycleAssumption DEF Owns, NoRow
  <1> QED BY <1>1, OwnersStay DEF Owns

\* What holds now, as Facts names it.
LEMMA NowSeen ==
    ASSUME TypeInv, SeenNow, NEW p \in Requests, job[p] # Idle
    PROVE  /\ Available => "open" \in seen[p]
           /\ job[p].kind \in {"patch", "upload", "callback", "submit"}
              /\ Editable(job[p].resp) => "unlocked" \in seen[p]
           /\ job[p].kind = "submit" /\ Complete(Workflow, answers[job[p].resp]) =>
                 "complete" \in seen[p]
  <1>1. Facts(job[p].kind, job[p].resp) \subseteq seen[p]
    BY DEF SeenNow
  <1> QED BY <1>1 DEF Facts

LEMMA SeenStep == SeenInv /\ [Next]_vars => SeenInv'
  <1> SUFFICES ASSUME SeenInv, [Next]_vars PROVE SeenInv'
    OBVIOUS
  <1>1. TypeInv'
    BY TypeStep DEF SeenInv
  <1>2. CASE UNCHANGED vars
    BY <1>1, <1>2 DEF SeenInv, vars, SeenNow, Admitted, Unlocked, Judged, Owned, Facts, At,
                      Owns, Available, Editable, Live
  <1>3. CASE Next
    <2>1. SeenNow'
      BY <1>3, SeenNowStep DEF SeenInv
    <2> SUFFICES ASSUME NEW p \in Requests, job'[p] # Idle
                 PROVE  /\ (job[p].kind \notin {"none", "callback"} /\ job[p].at # "admit" =>
                               "open" \in seen[p])'
                        /\ (job[p].kind \in {"patch", "upload", "callback"}
                            /\ job[p].at \in {"path", "save"} => "unlocked" \in seen[p])'
                        /\ (At(p, "mark") => "complete" \in seen[p])'
                        /\ (job[p].at \in {"path", "save", "issue", "judge", "mark",
                                           "revert"} => Owns(p))'
      BY <1>1, <2>1 DEF SeenInv, Admitted, Unlocked, Judged, Owned, At, Idle
    <2> USE DEF SeenInv
    <2>2. seen[p] \subseteq seen'[p]
      BY <1>3, SeenGrows
    <2>3. /\ JobOK(job[p]) /\ JobOK(job'[p])
          /\ job[p].kind \in Kinds \union {"none"} /\ job[p].at \in Stages[job[p].kind]
          /\ job[p].kind = "none" => job[p] = Idle
      BY <1>1 DEF TypeInv, JobsOK, JobOK, Jobs
    <2>4. CASE job'[p] = job[p]
      <3>1. job[p] # Idle
        BY <2>4
      <3>2. Owns(p) /\ job[p].at \in {"path", "save", "issue", "judge", "mark", "revert"}
               => Owns(p)'
        <4>1. job[p].at \in {"path", "save", "issue", "judge", "mark", "revert"} =>
                 job[p].user \in Users /\ job[p].resp \in Responses
          BY <2>3, WhoIsAt
        <4> QED BY <1>3, <2>4, <4>1, OwnedStays
      <3> QED BY <2>2, <2>4, <3>2 DEF Admitted, Unlocked, Judged, Owned, At
    <2>5. CASE job'[p].at = First(job'[p].kind) /\ job'[p].kind # "none"
      BY <2>5 DEF First, At
    <2>6. ASSUME job'[p].kind = job[p].kind, job'[p].user = job[p].user,
                 job'[p].resp = job[p].resp, job[p].kind \in Kinds,
                 job[p].at # "admit" \/ Available,
                 job'[p].at \in {"path", "save"} /\ job[p].kind # "submit" =>
                    job[p].at = "path" \/ Editable(job[p].resp),
                 At(p, "mark")' => job[p].kind = "submit"
                                   /\ Complete(Workflow, answers[job[p].resp]),
                 job'[p].at \in {"path", "save", "issue", "judge", "mark", "revert"} =>
                    /\ Owns(p)
                    /\ job[p].user \in Users /\ job[p].resp \in Responses
          PROVE  /\ (job[p].kind \notin {"none", "callback"} /\ job[p].at # "admit" =>
                        "open" \in seen[p])'
                 /\ (job[p].kind \in {"patch", "upload", "callback"}
                     /\ job[p].at \in {"path", "save"} => "unlocked" \in seen[p])'
                 /\ (At(p, "mark") => "complete" \in seen[p])'
                 /\ (job[p].at \in {"path", "save", "issue", "judge", "mark",
                                    "revert"} => Owns(p))'
      <3>0. job[p] # Idle
        BY <2>6, KindsAre DEF Idle
      <3>1. (job[p].kind \notin {"none", "callback"} /\ job[p].at # "admit" =>
                        "open" \in seen[p])'
        BY <2>2, <2>6, <3>0, NowSeen DEF Admitted
      <3>2. (job[p].kind \in {"patch", "upload", "callback"}
                     /\ job[p].at \in {"path", "save"} => "unlocked" \in seen[p])'
        BY <2>2, <2>6, <3>0, NowSeen DEF Unlocked
      <3>3. (At(p, "mark") => "complete" \in seen[p])'
        BY <2>2, <2>6, <3>0, NowSeen
      <3>4. (job[p].at \in {"path", "save", "issue", "judge", "mark", "revert"}
                => Owns(p))'
        BY <1>3, <2>6, OwnedStays
      <3> QED BY <3>1, <3>2, <3>3, <3>4
    <2>7. CASE /\ job'[p].kind = job[p].kind
               /\ job'[p].user = job[p].user
               /\ job'[p].resp = job[p].resp
               /\ \/ At(p, "admit") /\ Admissible(p) /\ job'[p].at = Then[job[p].kind].admit
                  \/ At(p, "editable") /\ MayEdit(p) /\ job'[p].at = Then[job[p].kind].editable
                  \/ At(p, "path") /\ job'[p].at = "save"
                  \/ At(p, "exists") /\ MayCreate(p) /\ job'[p].at = "insert"
                  \/ At(p, "recheck") /\ Owns(p) /\ job'[p].at = "save"
                  \/ At(p, "save") /\ job[p].kind = "submit" /\ job'[p].at = "judge"
                  \/ At(p, "judge") /\ MaySubmit(p) /\ job'[p].at = "mark"
                  \/ /\ At(p, "submitted") /\ job'[p].at = "revert" /\ Owns(p)
                     /\ row[job[p].resp].progress = "submitted"
      <3>1. job[p].kind \in Kinds
        BY <2>3, <2>7 DEF At, Stages, Idle
      <3>2. At(p, "admit") => Then[job[p].kind].admit \in
                                 {"exists", "editable", "recheck", "submitted", "change"}
        BY <2>3, <3>1, KindsAre DEF At, Then, SubmitOrder, Stages
      <3>3. At(p, "editable") => /\ Then[job[p].kind].editable \in {"path", "issue", "save"}
                                 /\ job[p].kind # "submit"
        BY <2>3, <3>1, KindsAre, WhoIsAt DEF At, Then, Stages
      <3>4. At(p, "recheck") \/ At(p, "judge") => job[p].kind = "submit"
        BY <2>3, WhoIsAt DEF At
      <3>5. job[p].at \in {"path", "save", "editable", "judge", "recheck", "submitted"} =>
               job[p].user \in Users /\ job[p].resp \in Responses
        BY <2>3, WhoIsAt
      <3>6. job[p].at \in {"path", "save", "judge"} => Owns(p)
        BY DEF Owned
      <3>7. job[p].at # "admit" \/ Available
        BY <2>7 DEF At, Admissible
      <3>8. job'[p].at \in {"path", "save"} /\ job[p].kind # "submit" =>
               job[p].at = "path" \/ Editable(job[p].resp)
        BY <2>7, <3>2, <3>4 DEF At, MayEdit
      <3>9. At(p, "mark")' => job[p].kind = "submit"
                              /\ Complete(Workflow, answers[job[p].resp])
        BY <2>7, <3>2, <3>3, <3>4 DEF At, MaySubmit
      <3>10. job'[p].at \in {"path", "save", "issue", "judge", "mark", "revert"} =>
               /\ Owns(p)
               /\ job[p].user \in Users /\ job[p].resp \in Responses
        BY <2>7, <3>2, <3>3, <3>5, <3>6 DEF At, MayEdit
      <3> QED BY <2>6, <2>7, <3>1, <3>7, <3>8, <3>9, <3>10
    <2> QED BY <1>3, <2>4, <2>5, <2>7, Moves
  <1> QED BY <1>2, <1>3

LEMMA SeenInit == Init => SeenInv
  BY TypeInit DEF SeenInv, Init, SeenNow, Admitted, Unlocked, Judged, Owned, At, Idle

\* Who changes the row or the answers of a response that is there afterwards: the
\* request that inserts it, or one on it that saves, marks or reverts.
LEMMA Writers ==
    ASSUME TypeInv, Next, NEW r \in Responses, Live(r)',
           row'[r] # row[r] \/ answers'[r] # answers[r]
    PROVE  \E p \in Requests :
              /\ job'[p] # job[p]
              /\ \/ /\ Insert(p) /\ row[r] = NoRow /\ answers' = answers
                    /\ row'[r] = [progress |-> "draft", owner |-> job[p].user]
                 \/ /\ Save(p) \/ Mark(p) \/ Revert(p)
                    /\ job[p].resp = r
  <1> USE DEF TypeInv
  <1>1. row' # row \/ answers' # answers
    OBVIOUS
  <1>2. ASSUME NEW p \in Requests, ~At(p, "idle"), Answers(p) PROVE job'[p] # job[p]
    BY <1>2 DEF At, Answers, Idle, JobsOK
  <1>3. ASSUME NEW p \in Requests, Insert(p)
        PROVE  /\ job'[p] # job[p] /\ row[r] = NoRow /\ answers' = answers
               /\ row'[r] = [progress |-> "draft", owner |-> job[p].user]
    <2>1. PICK new \in Responses :
             /\ row[new] = NoRow
             /\ row' = [row EXCEPT ![new] = [progress |-> "draft", owner |-> job[p].user]]
      BY <1>3 DEF Insert
    <2>2. new = r
      BY <1>3, <2>1 DEF Insert, TypeOK
    <2> QED BY <1>2, <1>3, <2>1, <2>2 DEF Insert, TypeOK, At
  <1>4. ASSUME NEW p \in Requests, Mark(p) \/ Revert(p)
        PROVE  job'[p] # job[p] /\ job[p].resp = r
    <2>1. PICK progress \in {"draft", "submitted"} :
             row' = [row EXCEPT ![job[p].resp].progress = progress]
      BY <1>4 DEF Mark, Revert
    <2>2. answers' = answers
      BY <1>4 DEF Mark, Revert
    <2> QED BY <1>2, <1>4, <2>1, <2>2 DEF Mark, Revert, TypeOK, At
  <1>5. ASSUME NEW p \in Requests, Save(p) PROVE job'[p] # job[p] /\ job[p].resp = r
    <2>1. job'[p].at # "save"
      <3>1. CASE job[p].kind = "submit"
        BY <1>5, <3>1 DEF Save, SubmitOrder, JobsOK, Jobs
      <3>2. CASE job[p].kind # "submit"
        BY <1>5, <3>2 DEF Save, Answers, Idle, JobsOK
      <3> QED BY <3>1, <3>2
    <2>2. row' = row /\ answers' = [answers EXCEPT ![job[p].resp] =
                                      Merged(job[p].resp, job[p].sent)]
      BY <1>5 DEF Save, Upsert
    <2> QED BY <1>5, <2>1, <2>2 DEF Save, At, TypeOK
  <1>6. ASSUME NEW rows, Gone(rows) PROVE FALSE
    BY <1>6 DEF Gone, Live, TypeOK
  <1>7. ~Elsewhere
    BY <1>1, <1>6 DEF Elsewhere, SetStatus, DeleteResponse, DeleteForm, DeadlinePasses
  <1>8. ASSUME NEW p \in Requests PROVE ~Arrivals(p) /\ ~Drop(p)
    BY <1>1 DEF Arrivals, ArriveConfigure, ArriveCreate, ArriveOn, Arrive, Drop
  <1>9. ASSUME NEW p \in Requests, Serve(p)
        PROVE  Insert(p) \/ Save(p) \/ Mark(p) \/ Revert(p)
    BY <1>1, <1>9 DEF Serve, Admit, CheckEditable, CheckPath, CheckNoResponse, IssueToken,
                      Recheck, Judge, CheckSubmitted, Change
  <1> QED BY <1>3, <1>4, <1>5, <1>7, <1>8, <1>9 DEF Next

LEMMA AdmittedStep == SeenInv /\ [Next]_vars => AdmittedWrites \/ UNCHANGED vars
  <1> SUFFICES ASSUME SeenInv, Next PROVE AdmittedWrites
    OBVIOUS
  <1> USE DEF SeenInv
  <1> SUFFICES ASSUME NEW r \in Responses, Live(r)',
                      row'[r] # row[r] \/ answers'[r] # answers[r]
               PROVE  \E p \in Acting : /\ job[p].user = row'[r].owner
                                        /\ job[p].kind # "callback" => "open" \in seen[p]
    BY DEF AdmittedWrites
  <1>1. PICK p \in Requests :
              /\ job'[p] # job[p]
              /\ \/ /\ Insert(p) /\ row[r] = NoRow /\ answers' = answers
                    /\ row'[r] = [progress |-> "draft", owner |-> job[p].user]
                 \/ /\ Save(p) \/ Mark(p) \/ Revert(p)
                    /\ job[p].resp = r
    BY Writers
  <1>2. job[p].at \in {"insert", "save", "mark", "revert"}
    BY <1>1 DEF Insert, Save, Mark, Revert, At
  <1>3. job[p].kind # "none"
    BY <1>2 DEF TypeInv, JobsOK, JobOK, Stages
  <1>4. job[p].kind # "callback" => "open" \in seen[p]
    BY <1>2, <1>3 DEF Admitted
  <1>5. job[p].user = row'[r].owner
    <2>1. CASE Insert(p)
      BY <1>1, <2>1 DEF Insert, Save, Mark, Revert, At
    <2>2. CASE ~Insert(p)
      <3>1. job[p].resp = r /\ Owns(p) /\ job[p].user \in Users
        BY <1>1, <1>2, <2>2, WhoIsAt DEF Owned, TypeInv, JobsOK, Save, Mark, Revert, At
      <3>2. row[r] # NoRow
        BY <3>1, LifecycleAssumption DEF Owns, NoRow
      <3> QED BY <3>1, <3>2, OwnersStay DEF Owns
    <2> QED BY <2>1, <2>2
  <1> QED BY <1>1, <1>4, <1>5 DEF Acting

\* Every write to a response that stays is by a request of its own user, and but for
\* the OAuth callback by one that lived through a moment when the form was available,
\* whatever managers, deadlines and other requests do meanwhile.
THEOREM WritesAdmitted == Spec => WritesAreAdmitted
  <1>1. Init => SeenInv
    BY SeenInit
  <1>2. SeenInv /\ [Next]_vars => SeenInv'
    BY SeenStep
  <1>3. SeenInv /\ [Next]_vars => [AdmittedWrites]_vars
    BY AdmittedStep
  <1> QED BY <1>1, <1>2, <1>3, PTL DEF Spec, WritesAreAdmitted

LEMMA UnlockedStep == SeenInv /\ [Next]_vars => UnlockedEdits \/ UNCHANGED vars
  <1> SUFFICES ASSUME SeenInv, Next, NEW r \in Responses, Live(r)',
                      answers'[r] # answers[r]
               PROVE  \E p \in Acting : "unlocked" \in seen[p] \/ job[p].kind = "submit"
    BY DEF UnlockedEdits
  <1> USE DEF SeenInv
  <1>1. PICK p \in Requests :
              /\ job'[p] # job[p]
              /\ \/ /\ Insert(p) /\ row[r] = NoRow /\ answers' = answers
                    /\ row'[r] = [progress |-> "draft", owner |-> job[p].user]
                 \/ /\ Save(p) \/ Mark(p) \/ Revert(p)
                    /\ job[p].resp = r
    BY Writers
  <1>2. Save(p)
    BY <1>1 DEF Mark, Revert
  <1>3. job[p].kind \in {"patch", "upload", "callback", "submit"}
    BY <1>2, WhoIsAt DEF Save, At, TypeInv, JobsOK
  <1>4. job[p].kind # "submit" => "unlocked" \in seen[p]
    BY <1>2, <1>3 DEF Unlocked, Save, At
  <1> QED BY <1>1, <1>4 DEF Acting

\* PATCH, file uploads and OAuth callbacks change answers only after a moment at which
\* the response was editable.
THEOREM EditsUnlocked == Spec => EditsNeedAnUnlockedResponse
  <1>1. Init => SeenInv
    BY SeenInit
  <1>2. SeenInv /\ [Next]_vars => SeenInv'
    BY SeenStep
  <1>3. SeenInv /\ [Next]_vars => [UnlockedEdits]_vars
    BY UnlockedStep
  <1> QED BY <1>1, <1>2, <1>3, PTL DEF Spec, EditsNeedAnUnlockedResponse

LEMMA JudgedStep == SeenInv /\ [Next]_vars => JudgedSubmissions \/ UNCHANGED vars
  <1> SUFFICES ASSUME SeenInv, Next, NEW r \in Responses,
                      row[r].progress = "draft", row'[r].progress = "submitted"
               PROVE  \E p \in Acting : "complete" \in seen[p]
    BY DEF JudgedSubmissions
  <1> USE DEF SeenInv
  <1>1. Live(r)' /\ row'[r] # row[r]
    BY DEF Live
  <1>2. PICK p \in Requests :
              /\ job'[p] # job[p]
              /\ \/ /\ Insert(p) /\ row[r] = NoRow /\ answers' = answers
                    /\ row'[r] = [progress |-> "draft", owner |-> job[p].user]
                 \/ /\ Save(p) \/ Mark(p) \/ Revert(p)
                    /\ job[p].resp = r
    BY <1>1, Writers
  <1>3. Mark(p)
    BY <1>2 DEF Save, Revert, TypeInv, TypeOK
  <1>4. "complete" \in seen[p]
    BY <1>3 DEF Judged, Mark
  <1> QED BY <1>2, <1>4 DEF Acting

\* However the requests of one user race, a response is marked submitted only by a
\* request that lived through a moment when all its active sections were completed.
THEOREM SubmissionsJudged == Spec => SubmissionsWereComplete
  <1>1. Init => SeenInv
    BY SeenInit
  <1>2. SeenInv /\ [Next]_vars => SeenInv'
    BY SeenStep
  <1>3. SeenInv /\ [Next]_vars => [JudgedSubmissions]_vars
    BY JudgedStep
  <1> QED BY <1>1, <1>2, <1>3, PTL DEF Spec, SubmissionsWereComplete

-----------------------------------------------------------------------------
(* Users who wait for an answer before they ask again                      *)

Alone     == \A p, q \in Requests :
                job[p].user \in Users /\ job[q].user = job[p].user => p = q
Clear     == \A p \in Requests : At(p, "insert") =>
                \A r \in LiveRows : row[r].owner # job[p].user
MarkReady == \A p \in Requests : At(p, "mark") /\ Live(job[p].resp) =>
                Complete(Workflow, answers[job[p].resp])
RevertReady == \A p \in Requests : At(p, "revert") /\ Live(job[p].resp) =>
                  row[job[p].resp].progress = "submitted"

OrderlyInv == SeenInv /\ Alone /\ AtMostOnePerUser /\ Clear /\ MarkReady /\ RevertReady

\* A request keeps its user, ends, or arrives alone and of a user with no other.
LEMMA WhoMoves ==
    ASSUME TypeInv, Next, SequentialClients, NEW p \in Requests, job'[p].user \in Users
    PROVE  \/ job'[p].user = job[p].user
           \/ /\ \A other \in Requests : job[other].user # job'[p].user
              /\ \A other \in Requests \ {p} : job'[other] = job[other]
  <1> USE DEF TypeInv, JobsOK
  <1>1. Idle.user \notin Users
    BY LifecycleAssumption DEF Idle
  <1>2. ASSUME NEW o \in Requests, Arrivals(o), o # p PROVE job'[p] = job[p]
    BY <1>2 DEF Arrivals, ArriveConfigure, ArriveCreate, ArriveOn, Arrive
  <1>3. CASE Arrivals(p)
    <2>1. CASE ArriveConfigure(p)
      <3>1. job'[p] = [Idle EXCEPT !.kind = "configure", !.at = "admit"]
        BY <2>1 DEF ArriveConfigure
      <3>2. job'[p].user = Idle.user
        BY <3>1 DEF Idle
      <3> QED BY <1>1, <3>2
    <2>2. ASSUME NEW kind, NEW u, NEW r, NEW sent, Arrive(p, kind, u, r, sent)
          PROVE  /\ \A other \in Requests : job[other].user # job'[p].user
                 /\ \A other \in Requests \ {p} : job'[other] = job[other]
      BY <2>2 DEF Arrive
    <2> QED BY <1>3, <2>1, <2>2 DEF Arrivals, ArriveCreate, ArriveOn
  <1>4. ASSUME NEW o \in Requests, Answers(o) PROVE job'[p] = job[p] \/ job'[p] = Idle
    BY <1>4 DEF Answers
  <1>5. ASSUME NEW o \in Requests, GoesOn(o) PROVE job'[p].user = job[p].user
    BY <1>5 DEF GoesOn, Jobs
  <1>6. ASSUME NEW o \in Requests, Save(o)
        PROVE  job'[p].user = job[p].user \/ job'[p] = Idle
    <2>1. CASE job[o].kind = "submit"
      <3> DEFINE j == [job[o] EXCEPT !.at = SubmitOrder.save, !.sent = NoPayload]
      <3>1. j.user = job[o].user
        BY DEF Jobs
      <3>2. job' = [job EXCEPT ![o] = j]
        BY <1>6, <2>1 DEF Save
      <3> HIDE DEF j
      <3> QED BY <3>1, <3>2
    <2>2. CASE job[o].kind # "submit"
      BY <1>4, <1>6, <2>2 DEF Save
    <2> QED BY <2>1, <2>2
  <1>7. ASSUME NEW o \in Requests, Serve(o) \/ Drop(o)
        PROVE  job'[p].user = job[p].user \/ job'[p] = Idle
    BY <1>4, <1>5, <1>6, <1>7
       DEF Serve, Drop, Admit, CheckEditable, CheckPath, CheckNoResponse, Insert, IssueToken,
           Recheck, Judge, Mark, CheckSubmitted, Revert, Change
  <1>8. CASE Elsewhere
    BY <1>8 DEF Elsewhere, SetStatus, DeleteResponse, DeleteForm, DeadlinePasses
  <1> QED BY <1>1, <1>2, <1>3, <1>7, <1>8 DEF Next

LEMMA AloneStep ==
    ASSUME TypeInv, Alone, Next, SequentialClients PROVE Alone'
  <1> SUFFICES ASSUME NEW p \in Requests, NEW q \in Requests, job'[p].user \in Users,
                      job'[q].user = job'[p].user, p # q
               PROVE  FALSE
    BY DEF Alone
  <1>1. \/ job'[p].user = job[p].user
        \/ /\ \A other \in Requests : job[other].user # job'[p].user
           /\ \A other \in Requests \ {p} : job'[other] = job[other]
    BY WhoMoves
  <1>2. \/ job'[q].user = job[q].user
        \/ /\ \A other \in Requests : job[other].user # job'[q].user
           /\ \A other \in Requests \ {q} : job'[other] = job[other]
    BY WhoMoves
  <1> QED BY <1>1, <1>2 DEF Alone

\* A response that is there after a step was there before, of the same user, or is
\* the one row the step inserts.
LEMMA LiveAfter ==
    ASSUME TypeInv, Next, NEW r \in Responses, Live(r)'
    PROVE  \/ Live(r) /\ row'[r].owner = row[r].owner
           \/ \E p \in Requests :
                 /\ Insert(p) /\ job'[p] # job[p] /\ row[r] = NoRow
                 /\ row'[r] = [progress |-> "draft", owner |-> job[p].user]
  <1>1. CASE row'[r] = row[r]
    BY <1>1 DEF Live
  <1>2. CASE row'[r] # row[r]
    <2>1. PICK p \in Requests :
              /\ job'[p] # job[p]
              /\ \/ /\ Insert(p) /\ row[r] = NoRow /\ answers' = answers
                    /\ row'[r] = [progress |-> "draft", owner |-> job[p].user]
                 \/ /\ Save(p) \/ Mark(p) \/ Revert(p)
                    /\ job[p].resp = r
      BY <1>2, Writers
    <2>2. CASE ~Insert(p)
      <3>1. Live(r)
        BY <2>1, <2>2 DEF Save, Upsert, Mark, Revert
      <3>2. row[r] # NoRow
        BY <3>1 DEF Live, NoRow
      <3> QED BY <3>1, <3>2, OwnersStay
    <2> QED BY <2>1, <2>2 DEF Insert, Save, Mark, Revert, At
  <1> QED BY <1>1, <1>2

\* A step inserts one row at most.
LEMMA OneInsert ==
    ASSUME TypeInv, NEW p \in Requests, Insert(p), NEW r1 \in Responses, NEW r2 \in Responses,
           row'[r1] # row[r1], row'[r2] # row[r2]
    PROVE  r1 = r2
  <1>1. PICK new \in Responses :
             row' = [row EXCEPT ![new] = [progress |-> "draft", owner |-> job[p].user]]
    BY DEF Insert
  <1> QED BY <1>1 DEF TypeInv, TypeOK

LEMMA OneResponseStep ==
    ASSUME TypeInv, AtMostOnePerUser, Clear, Next PROVE AtMostOnePerUser'
  <1> SUFFICES ASSUME NEW r1 \in Responses, NEW r2 \in Responses, Live(r1)', Live(r2)',
                      row'[r1].owner = row'[r2].owner, r1 # r2
               PROVE  FALSE
    BY DEF AtMostOnePerUser, LiveRows
  <1> DEFINE New(r, p) == /\ Insert(p) /\ job'[p] # job[p] /\ row[r] = NoRow
                          /\ row'[r] = [progress |-> "draft", owner |-> job[p].user]
  <1>1. ASSUME NEW p \in Requests, NEW r \in Responses, NEW old \in Responses, New(r, p),
               Live(old), row'[old].owner = row[old].owner,
               row'[old].owner = row'[r].owner
        PROVE  FALSE
    <2>1. row'[r].owner = job[p].user
      BY <1>1
    <2>2. At(p, "insert")
      BY <1>1 DEF Insert
    <2>3. row[old].owner = job[p].user
      BY <1>1, <2>1
    <2> QED BY <1>1, <2>2, <2>3 DEF Clear, LiveRows
  <1>2. ASSUME NEW p \in Requests, New(r1, p), NEW q \in Requests, New(r2, q)
        PROVE  FALSE
    <2>1. row'[r1] # row[r1] /\ row'[r2] # row[r2]
      BY <1>2 DEF NoRow
    <2> QED BY <1>2, <2>1, OneInsert
  <1>3. (Live(r1) /\ row'[r1].owner = row[r1].owner) \/ \E p \in Requests : New(r1, p)
    BY LiveAfter
  <1>4. (Live(r2) /\ row'[r2].owner = row[r2].owner) \/ \E p \in Requests : New(r2, p)
    BY LiveAfter
  <1> HIDE DEF New
  <1> QED BY <1>1, <1>2, <1>3, <1>4 DEF AtMostOnePerUser, LiveRows

\* While the request of a user who waits is not itself writing, the response it owns
\* stays as it is, or goes.
LEMMA Undisturbed ==
    ASSUME SeenInv, Alone, Next, NEW p \in Requests, job[p].user \in Users,
           NEW r \in Responses, job[p].resp = r, Owns(p), Live(r)',
           job'[p] = job[p] \/ job[p].at \notin {"insert", "save", "mark", "revert"}
    PROVE  row'[r] = row[r] /\ answers'[r] = answers[r]
  <1> SUFFICES ASSUME row'[r] # row[r] \/ answers'[r] # answers[r] PROVE FALSE
    OBVIOUS
  <1> USE DEF SeenInv
  <1>1. row[r] # NoRow
    BY LifecycleAssumption DEF Owns, NoRow
  <1>2. PICK q \in Requests :
              /\ job'[q] # job[q]
              /\ Save(q) \/ Mark(q) \/ Revert(q)
              /\ job[q].resp = r
    BY <1>1, Writers
  <1>3. job[q].at \in {"save", "mark", "revert"}
    BY <1>2 DEF Save, Mark, Revert, At
  <1>4. Owns(q)
    BY <1>3 DEF Owned
  <1>5. q = p
    BY <1>2, <1>4 DEF Alone, Owns
  <1> QED BY <1>2, <1>3, <1>5

\* A user with no response has none after a step of somebody else.
LEMMA StillNone ==
    ASSUME SeenInv, Alone, Next, NEW p \in Requests, job[p].user \in Users,
           \A r \in LiveRows : row[r].owner # job[p].user,
           job'[p] = job[p] \/ job[p].at # "insert"
    PROVE  \A r \in LiveRows' : row'[r].owner # job[p].user
  <1> SUFFICES ASSUME NEW r \in Responses, Live(r)', row'[r].owner = job[p].user
               PROVE  FALSE
    BY DEF LiveRows
  <1> USE DEF SeenInv
  <1>1. PICK q \in Requests :
                 /\ Insert(q) /\ job'[q] # job[q]
                 /\ row'[r] = [progress |-> "draft", owner |-> job[q].user]
    BY LiveAfter DEF LiveRows
  <1>2. job[q].user = job[p].user
    BY <1>1
  <1>3. q = p
    BY <1>2 DEF Alone
  <1> QED BY <1>1, <1>3 DEF Insert, At

LEMMA OrderlyStep ==
    ASSUME OrderlyInv, [Next]_vars, SequentialClients PROVE OrderlyInv'
  <1>1. SeenInv'
    BY SeenStep DEF OrderlyInv
  <1>2. CASE UNCHANGED vars
    BY <1>1, <1>2 DEF OrderlyInv, vars, Alone, AtMostOnePerUser, Clear, MarkReady, RevertReady,
                      LiveRows, Live, At
  <1>3. CASE Next
    <2> USE DEF OrderlyInv
    <2>1. Alone' /\ AtMostOnePerUser'
      BY <1>3, AloneStep, OneResponseStep DEF SeenInv
    <2>2. ASSUME NEW p \in Requests
          PROVE  /\ At(p, "insert")' => job'[p] = job[p] \/ (At(p, "exists") /\ MayCreate(p)
                                           /\ job'[p].user = job[p].user)
                 /\ At(p, "mark")' => job'[p] = job[p] \/ (At(p, "judge") /\ MaySubmit(p)
                                           /\ job'[p].resp = job[p].resp)
                 /\ At(p, "revert")' => job'[p] = job[p] \/ (At(p, "submitted")
                                           /\ row[job[p].resp].progress = "submitted"
                                           /\ Owns(p)
                                           /\ job'[p].resp = job[p].resp)
      <3>1. JobOK(job[p]) /\ JobOK(job'[p])
        BY <1>1 DEF SeenInv, TypeInv, JobsOK
      <3>2. At(p, "admit") => Then[job[p].kind].admit \notin {"insert", "mark", "revert"}
        BY <3>1, KindsAre DEF At, Then, SubmitOrder, Stages, JobOK, Jobs, Idle
      <3>3. At(p, "editable") => Then[job[p].kind].editable \notin {"insert", "mark", "revert"}
        BY <3>1, KindsAre, WhoIsAt DEF At, Then, Stages, JobOK
      <3>4. First(job'[p].kind) \notin {"insert", "mark", "revert"}
        BY DEF First
      <3> QED BY <1>3, <3>2, <3>3, <3>4, Moves DEF SeenInv, At, Idle
    <2>3. ASSUME NEW p \in Requests
          PROVE  /\ At(p, "insert") \/ At(p, "exists") => job[p].user \in Users
                 /\ job[p].at \in {"judge", "mark", "submitted", "revert"} =>
                       job[p].user \in Users /\ job[p].resp \in Responses
                 /\ job[p].at \in {"judge", "mark", "revert"} => Owns(p)
      <3>1. JobOK(job[p])
        BY DEF SeenInv, TypeInv, JobsOK
      <3>2. At(p, "exists") => job[p].user \in Users
        BY <3>1, KindsAre DEF At, JobOK, Stages, Jobs
      <3> QED BY <3>1, <3>2, WhoIsAt DEF SeenInv, Owned, At
    <2>4. Clear'
      <3> SUFFICES ASSUME NEW p \in Requests, At(p, "insert")'
                   PROVE  \A r \in LiveRows' : row'[r].owner # job'[p].user
        BY DEF Clear
      <3>1. CASE job'[p] = job[p]
        BY <1>3, <2>3, <3>1, StillNone DEF Clear, At
      <3>2. CASE At(p, "exists") /\ MayCreate(p) /\ job'[p].user = job[p].user
        BY <1>3, <2>3, <3>2, StillNone DEF MayCreate, At
      <3> QED BY <2>2, <3>1, <3>2
    <2>5. MarkReady'
      <3> SUFFICES ASSUME NEW p \in Requests, At(p, "mark")', Live(job[p].resp)'
                   PROVE  Complete(Workflow, answers'[job'[p].resp])
        BY DEF MarkReady
      <3>1. CASE job'[p] = job[p]
        <4>1. /\ row'[job[p].resp] = row[job[p].resp]
              /\ answers'[job[p].resp] = answers[job[p].resp]
          BY <1>3, <2>3, <3>1, Undisturbed DEF At, Live
        <4>2. At(p, "mark") /\ Live(job[p].resp)
          BY <3>1, <4>1 DEF At, Live
        <4> QED BY <3>1, <4>1, <4>2 DEF MarkReady
      <3>2. CASE At(p, "judge") /\ MaySubmit(p) /\ job'[p].resp = job[p].resp
        <4>1. answers'[job[p].resp] = answers[job[p].resp]
          BY <1>3, <2>3, <3>2, Undisturbed DEF At, Live
        <4> QED BY <3>2, <4>1 DEF MaySubmit
      <3> QED BY <2>2, <3>1, <3>2
    <2>6. RevertReady'
      <3> SUFFICES ASSUME NEW p \in Requests, At(p, "revert")', Live(job[p].resp)'
                   PROVE  row'[job'[p].resp].progress = "submitted"
        BY DEF RevertReady
      <3>1. CASE job'[p] = job[p]
        <4>1. row'[job[p].resp] = row[job[p].resp]
          BY <1>3, <2>3, <3>1, Undisturbed DEF At, Live
        <4>2. At(p, "revert") /\ Live(job[p].resp)
          BY <3>1, <4>1 DEF At, Live
        <4> QED BY <3>1, <4>1, <4>2 DEF RevertReady
      <3>2. CASE /\ At(p, "submitted") /\ row[job[p].resp].progress = "submitted" /\ Owns(p)
                 /\ job'[p].resp = job[p].resp
        <4>1. row'[job[p].resp] = row[job[p].resp]
          BY <1>3, <2>3, <3>2, Undisturbed DEF At, Live
        <4> QED BY <3>2, <4>1
      <3> QED BY <2>2, <3>1, <3>2
    <2> QED BY <1>1, <2>1, <2>4, <2>5, <2>6
  <1> QED BY <1>2, <1>3

LEMMA OrderlyInit == Init => OrderlyInv
  <1> SUFFICES ASSUME Init PROVE OrderlyInv
    OBVIOUS
  <1>1. \A p \in Requests : job[p] = Idle
    BY DEF Init
  <1>2. \A r \in Responses : ~Live(r)
    BY DEF Init, NoRow, Live
  <1> QED BY <1>1, <1>2, SeenInit, LifecycleAssumption
          DEF OrderlyInv, Alone, AtMostOnePerUser, Clear, MarkReady, RevertReady, LiveRows, At,
              Idle

\* If every user waits for an answer before asking again, no user ever has two
\* responses: between the check of Create and its INSERT nothing can make one.
THEOREM OneResponse ==
    ASSUME SequentialClients PROVE Spec => []AtMostOnePerUser
  <1>1. Init => OrderlyInv
    BY OrderlyInit
  <1>2. OrderlyInv /\ [Next]_vars => OrderlyInv'
    BY OrderlyStep
  <1>3. OrderlyInv => AtMostOnePerUser
    BY DEF OrderlyInv
  <1> QED BY <1>1, <1>2, <1>3, PTL DEF Spec

LEMMA CompleteStep ==
    OrderlyInv /\ [Next]_vars => CompleteSubmissions \/ UNCHANGED vars
  <1> SUFFICES ASSUME OrderlyInv, Next, NEW r \in Responses,
                      row'[r].progress = "submitted", row[r].progress # "submitted"
               PROVE  Complete(Workflow, answers[r])
    BY DEF CompleteSubmissions
  <1> USE DEF OrderlyInv, SeenInv
  <1>1. Live(r)' /\ row'[r] # row[r]
    BY DEF Live
  <1>2. PICK p \in Requests :
              \/ row'[r] = [progress |-> "draft", owner |-> job[p].user]
              \/ /\ Save(p) \/ Mark(p) \/ Revert(p)
                 /\ job[p].resp = r
    BY <1>1, Writers
  <1>3. Mark(p) /\ job[p].resp = r
    BY <1>2 DEF Save, Revert, TypeInv, TypeOK
  <1> QED BY <1>3 DEF MarkReady, Mark

\* If every user waits for an answer before asking again, the completeness that Submit
\* judged still holds when it marks the response.
THEOREM SubmittedComplete ==
    ASSUME SequentialClients PROVE Spec => SubmitsOnlyComplete
  <1>1. Init => OrderlyInv
    BY OrderlyInit
  <1>2. OrderlyInv /\ [Next]_vars => OrderlyInv'
    BY OrderlyStep
  <1>3. OrderlyInv /\ [Next]_vars => [CompleteSubmissions]_vars
    BY CompleteStep
  <1> QED BY <1>1, <1>2, <1>3, PTL DEF Spec, SubmitsOnlyComplete

-----------------------------------------------------------------------------
(* The path of edits                                                       *)

\* A PATCH or an upload about to be saved answers questions on the path.
PathReady ==
    \A p \in Requests :
       At(p, "save") /\ job[p].kind \in {"patch", "upload"} /\ Live(job[p].resp) =>
          \A q \in DOMAIN job[p].sent :
             SectionOf[q] \in ActiveSections(Workflow, AnswersForWorkflow(p))

\* From the check of the path to the write there is one way.
LEMMA ThroughPath ==
    ASSUME TypeInv, Next, NEW p \in Requests, At(p, "path"), job'[p].at = "save"
    PROVE  /\ CheckPath(p)
           /\ job'[p].kind = job[p].kind /\ job'[p].resp = job[p].resp
           /\ job'[p].sent = job[p].sent
  <1> USE DEF TypeInv, JobsOK
  <1>1. ASSUME NEW o \in Requests, Arrivals(o) PROVE job'[p] = job[p]
    <2>1. o # p
      BY <1>1 DEF Arrivals, ArriveConfigure, ArriveCreate, ArriveOn, Arrive, At, Idle
    <2> QED BY <1>1, <2>1 DEF Arrivals, ArriveConfigure, ArriveCreate, ArriveOn, Arrive
  <1>2. ASSUME NEW o \in Requests, Answers(o) PROVE FALSE
    BY <1>2 DEF Answers, At, Idle
  <1>3. ASSUME NEW o \in Requests, Serve(o), o # p PROVE job'[p] = job[p]
    BY <1>3
       DEF Serve, Admit, CheckEditable, CheckPath, Save, CheckNoResponse, Insert, IssueToken,
           Recheck, Judge, Mark, CheckSubmitted, Revert, Change, GoesOn, Answers
  <1>4. ~Elsewhere
    BY DEF Elsewhere, SetStatus, DeleteResponse, DeleteForm, DeadlinePasses, At
  <1>5. Serve(p)
    BY <1>1, <1>2, <1>3, <1>4 DEF Next, Drop, At
  <1>6. CheckPath(p)
    BY <1>5 DEF Serve, Admit, CheckEditable, Save, CheckNoResponse, Insert, IssueToken,
                Recheck, Judge, Mark, CheckSubmitted, Revert, Change, At
  <1>7. job'[p] = [job[p] EXCEPT !.at = Then[job[p].kind][@]]
    BY <1>6 DEF CheckPath, GoesOn
  <1> QED BY <1>6, <1>7 DEF Jobs

LEMMA PathStep ==
    ASSUME OrderlyInv, PathReady, [Next]_vars PROVE PathReady'
  <1> SUFFICES ASSUME NEW p \in Requests, At(p, "save")', Live(job[p].resp)',
                      job'[p].kind \in {"patch", "upload"}, NEW q \in DOMAIN job'[p].sent
               PROVE  SectionOf[q] \in ActiveSections(Workflow, AnswersForWorkflow(p))'
    BY DEF PathReady
  <1>1. CASE UNCHANGED vars
    BY <1>1 DEF PathReady, vars, At, Live, AnswersForWorkflow, Merged
  <1>2. CASE Next
    <2> USE DEF OrderlyInv, SeenInv
    <2>1. job'[p] = job[p] \/ (At(p, "path") /\ job'[p].at = "save")
      <3>1. JobOK(job[p])
        BY DEF TypeInv, JobsOK
      <3>2. job'[p].kind = job[p].kind /\ At(p, "admit") =>
               Then[job[p].kind].admit # "save"
        BY KindsAre DEF Then
      <3>3. job'[p].kind = job[p].kind /\ At(p, "editable") =>
               Then[job[p].kind].editable # "save"
        BY KindsAre DEF Then
      <3>4. At(p, "recheck") => job[p].kind = "submit"
        BY WhoIsAt DEF At, TypeInv, JobsOK
      <3>5. First(job'[p].kind) # "save" /\ Idle.at # "save"
        BY DEF First, Idle
      <3> QED BY <1>2, <3>2, <3>3, <3>4, <3>5, Moves DEF At
    <2>2. /\ job'[p].kind = job[p].kind /\ job'[p].resp = job[p].resp
          /\ job'[p].sent = job[p].sent
          /\ job'[p] # job[p] => CheckPath(p)
      BY <1>2, <2>1, ThroughPath
    <2>3. job[p].user \in Users /\ job[p].resp \in Responses /\ Owns(p)
      BY <2>1, WhoIsAt DEF At, TypeInv, JobsOK, Owned
    <2>4. row'[job[p].resp] = row[job[p].resp] /\ answers'[job[p].resp] = answers[job[p].resp]
      BY <1>2, <2>1, <2>2, <2>3, Undisturbed DEF At, Live
    <2>5. AnswersForWorkflow(p)' = AnswersForWorkflow(p)
      BY <2>2, <2>4 DEF AnswersForWorkflow, Merged
    <2>6. CASE job'[p] = job[p]
      BY <2>2, <2>4, <2>5, <2>6 DEF PathReady, At, Live
    <2>7. CASE CheckPath(p)
      BY <2>2, <2>5, <2>7 DEF CheckPath
    <2> QED BY <2>2, <2>5, <2>6, <2>7
  <1> QED BY <1>1, <1>2

OnThePath ==
    \A p \in Acting : At(p, "save") /\ job[p].kind \in {"patch", "upload"} =>
       \A q \in Questions :
          answers'[job[p].resp][q] # answers[job[p].resp][q] =>
             SectionOf[q] \in ActiveSections(Workflow, answers'[job[p].resp])

LEMMA PathKept ==
    ASSUME OrderlyInv, PathReady, Next, FilesKeepTheirSection PROVE OnThePath
  <1> SUFFICES ASSUME NEW p \in Acting, At(p, "save"), job[p].kind \in {"patch", "upload"},
                      NEW q \in Questions,
                      answers'[job[p].resp][q] # answers[job[p].resp][q]
               PROVE  SectionOf[q] \in ActiveSections(Workflow, answers'[job[p].resp])
    BY DEF OnThePath
  <1> USE DEF OrderlyInv, SeenInv
  <1> DEFINE r == job[p].resp
  <1>1. p \in Requests /\ job'[p] # job[p]
    BY DEF Acting
  <1>2. job[p].resp \in Responses /\ JobOK(job[p])
    BY <1>1, WhoIsAt DEF At, TypeInv, JobsOK
  <1>3. Save(p)
    <2>1. job \in [Requests -> Jobs]
      BY DEF TypeInv, JobsOK
    <2>2. ASSUME NEW o \in Requests, o # p, Arrivals(o) \/ Serve(o) \/ Drop(o)
          PROVE  job'[p] = job[p]
      <3> HIDE DEF OrderlyInv, SeenInv
      <3>1. CASE Arrivals(o)
        BY <1>1, <2>2, <3>1, <2>1
           DEF Arrivals, ArriveConfigure, ArriveCreate, ArriveOn, Arrive
      <3>2. CASE Serve(o) \/ Drop(o)
        BY <1>1, <2>2, <3>2, <2>1
           DEF Drop, Serve, Admit, CheckEditable, CheckPath, Save, CheckNoResponse, Insert,
               IssueToken, Recheck, Judge, Mark, CheckSubmitted, Revert, Change, GoesOn,
               Answers
      <3> QED BY <2>2, <3>1, <3>2
    <2>3. ~Elsewhere
      BY <1>1 DEF Elsewhere, SetStatus, DeleteResponse, DeleteForm, DeadlinePasses
    <2>4. ~Drop(p)
      BY DEF Drop
    <2>5. ~Arrivals(p)
      BY DEF Arrivals, ArriveConfigure, ArriveCreate, ArriveOn, Arrive, At, Idle
    <2>6. Serve(p)
      BY <1>1, <2>2, <2>3, <2>4, <2>5 DEF Next
    <2> QED BY <2>6 DEF Serve, Admit, CheckEditable, CheckPath, CheckNoResponse, Insert,
                        IssueToken, Recheck, Judge, Mark, CheckSubmitted, Revert, Change, At
  <1>4. /\ Live(r) /\ Valid(job[p].sent)
        /\ answers'[r] = Merged(r, job[p].sent)
    BY <1>2, <1>3 DEF Save, Upsert, TypeInv, TypeOK
  <1>5. q \in DOMAIN job[p].sent
    BY <1>2, <1>4 DEF Merged, TypeInv, TypeOK
  <1>6. SectionOf[q] \in ActiveSections(Workflow, AnswersForWorkflow(p))
    BY <1>1, <1>4, <1>5 DEF PathReady
  <1>7. CASE job[p].kind = "patch"
    BY <1>4, <1>6, <1>7 DEF AnswersForWorkflow
  <1>8. CASE job[p].kind = "upload"
    <2>1. PICK file \in UploadQuestions : job[p].sent \in [{file} -> Accepts[file]]
      BY <1>2, <1>8 DEF JobOK, PayloadsOf
    <2>2. q = file /\ job[p].sent[q] \in Accepts[q]
      BY <1>5, <2>1
    <2>3. answers[r] \in [Questions -> Stored]
      BY <1>2 DEF TypeInv, TypeOK
    <2>4. Merged(r, job[p].sent) = [answers[r] EXCEPT ![q] = job[p].sent[q]]
      BY <2>1, <2>2, <2>3 DEF Merged
    <2>5. SectionOf[q] \in ActiveSections(Workflow, answers[r])
      BY <1>6, <1>8 DEF AnswersForWorkflow
    <2>6. SectionOf[q] \in ActiveSections(Workflow, [answers[r] EXCEPT ![q] = job[p].sent[q]])
      BY <2>1, <2>2, <2>3, <2>5 DEF FilesKeepTheirSection
    <2> QED BY <1>4, <2>4, <2>6
  <1> QED BY <1>7, <1>8

\* If every user waits for an answer before asking again, PATCH and file uploads answer
\* only questions on the path under the answers they leave behind, in every workflow in
\* which a file does not take its own section away.
THEOREM EditsOnThePath ==
    ASSUME SequentialClients, FilesKeepTheirSection PROVE Spec => EditsStayOnThePath
  <1>1. Init => OrderlyInv /\ PathReady
    <2>1. Init => PathReady
      BY DEF Init, PathReady, At, Idle
    <2> QED BY <2>1, OrderlyInit
  <1>2. OrderlyInv /\ PathReady /\ [Next]_vars => (OrderlyInv /\ PathReady)'
    BY OrderlyStep, PathStep
  <1>3. OrderlyInv /\ PathReady /\ [Next]_vars => [OnThePath]_vars
    BY PathKept
  <1>4. [][OnThePath]_vars => EditsStayOnThePath
    BY DEF OnThePath, EditsStayOnThePath
  <1> QED BY <1>1, <1>2, <1>3, <1>4, PTL DEF Spec

-----------------------------------------------------------------------------
(* Refinement of ResponseContract                                          *)

LEMMA ContractInit == Init => Contract!Init
  BY DEF Init, Contract!Init, NoRow, Blank, Contract!NoRow, Contract!Blank

LEMMA LiveIsLive == Contract!LiveRows = LiveRows
  BY DEF Contract!LiveRows, LiveRows, Live

\* Answers are saved as the contract saves them.
LEMMA SaveIsSave ==
    ASSUME TypeInv, NEW p \in Requests, Save(p)
    PROVE  \E r \in Contract!LiveRows : Contract!Save(r)
  <1>1. Live(job[p].resp) /\ job[p].resp \in Responses
    BY WhoIsAt DEF Save, Upsert, At, TypeInv, JobsOK
  <1>2. PICK r \in LiveRows : r = job[p].resp
    BY <1>1 DEF LiveRows
  <1>3. /\ Valid(job[p].sent)
        /\ answers' = [answers EXCEPT ![r] = Merged(r, job[p].sent)]
        /\ row' = row
    BY <1>2 DEF Save, Upsert
  <1>4. answers'[r] = Merged(r, job[p].sent)
    BY <1>2, <1>3 DEF TypeInv, TypeOK, LiveRows
  <1>5. \A q \in Questions : answers'[r][q] \in Accepts[q] \union {answers[r][q]}
    BY <1>3, <1>4 DEF Merged, Valid
  <1>6. [q \in Questions |-> answers'[r][q]] = Merged(r, job[p].sent)
    BY <1>4 DEF Merged
  <1>7. answers' = [answers EXCEPT ![r] = [q \in Questions |-> answers'[r][q]]]
    BY <1>3, <1>6
  <1>8. Contract!Save(r)
    BY <1>3, <1>5, <1>7, Zenon DEF Contract!Save
  <1> QED BY <1>2, <1>8, LiveIsLive, Zenon

\* A deletion removes what the contract removes.
LEMMA GoneIsRemove ==
    ASSUME NEW rows, Gone(rows) PROVE Contract!Remove(rows)
  BY DEF Gone, Contract!Remove, Blank, Contract!Blank

LEMMA ContractStep ==
    OrderlyInv /\ [Next]_vars => [Contract!Next]_<<row, answers>>
  <1> SUFFICES ASSUME OrderlyInv, Next, ~UNCHANGED <<row, answers>> PROVE Contract!Next
    BY DEF vars
  <1> USE DEF OrderlyInv, SeenInv
  <1>1. ASSUME NEW p \in Requests, Save(p) PROVE Contract!Next
    BY <1>1, SaveIsSave DEF Contract!Next
  <1>2. ASSUME NEW p \in Requests, Insert(p) PROVE Contract!Next
    <2>1. PICK r \in Responses :
             /\ row[r] = NoRow
             /\ row' = [row EXCEPT ![r] = [progress |-> "draft", owner |-> job[p].user]]
      BY <1>2 DEF Insert
    <2>2. job[p].user \in Users
      BY <1>2, WhoIsAt DEF Insert, At, TypeInv, JobsOK
    <2>3. \A other \in LiveRows : row[other].owner # job[p].user
      BY <1>2 DEF Clear, Insert
    <2>4. Contract!Open(job[p].user, r)
      BY <1>2, <2>1, <2>3, LiveIsLive DEF Contract!Open, Insert, NoRow, Contract!NoRow
    <2> QED BY <2>2, <2>4 DEF Contract!Next
  <1>3. ASSUME NEW p \in Requests, Mark(p) PROVE Contract!Next
    <2>1. PICK r \in LiveRows : r = job[p].resp
      BY <1>3, WhoIsAt DEF Mark, At, TypeInv, JobsOK, LiveRows
    <2>2. Completed(answers[r])
      BY <1>3, <2>1 DEF MarkReady, Mark, Completed
    <2>3. Contract!Submit(r)
      BY <1>3, <2>1, <2>2 DEF Contract!Submit, Mark
    <2> QED BY <2>3, LiveIsLive DEF Contract!Next
  <1>4. ASSUME NEW p \in Requests, Revert(p) PROVE Contract!Next
    <2>1. PICK r \in LiveRows : r = job[p].resp
      BY <1>4, WhoIsAt DEF Revert, At, TypeInv, JobsOK, LiveRows
    <2>2. row[r].progress = "submitted"
      BY <1>4, <2>1 DEF RevertReady, Revert
    <2>3. Contract!Cancel(r)
      BY <1>4, <2>1, <2>2 DEF Contract!Cancel, Revert
    <2> QED BY <2>3, LiveIsLive DEF Contract!Next
  <1>5. ASSUME NEW p \in Requests, Arrivals(p) \/ Drop(p) PROVE FALSE
    BY <1>5 DEF Arrivals, ArriveConfigure, ArriveCreate, ArriveOn, Arrive, Drop
  <1>6. ASSUME NEW p \in Requests, Serve(p)
        PROVE  Save(p) \/ Insert(p) \/ Mark(p) \/ Revert(p)
    BY <1>6 DEF Serve, Admit, CheckEditable, CheckPath, CheckNoResponse, IssueToken, Recheck,
                Judge, CheckSubmitted, Change
  <1>7. ASSUME Elsewhere PROVE Contract!Next
    <2>1. \E rows \in SUBSET LiveRows : Gone(rows)
      BY <1>7 DEF Elsewhere, SetStatus, DeleteResponse, DeleteForm, DeadlinePasses, LiveRows
    <2> QED BY <2>1, GoneIsRemove, LiveIsLive DEF Contract!Next
  <1> QED BY <1>1, <1>2, <1>3, <1>4, <1>5, <1>6, <1>7 DEF Next

\* If every user waits for an answer before asking again, the services keep what the
\* contract promises: one response per user, accepted answers, only complete responses
\* submitted, only submitted ones reverted, deletion for good.
THEOREM ImplementsContract ==
    ASSUME SequentialClients PROVE Spec => ContractSpec
  <1>1. Init => OrderlyInv /\ Contract!Init
    BY OrderlyInit, ContractInit
  <1>2. OrderlyInv /\ [Next]_vars => OrderlyInv'
    BY OrderlyStep
  <1>3. OrderlyInv /\ [Next]_vars => [Contract!Next]_<<row, answers>>
    BY ContractStep
  <1> QED BY <1>1, <1>2, <1>3, PTL DEF Spec, ContractSpec, Contract!Spec
=============================================================================
