------------------------- MODULE ResponseLifecycle -------------------------
(***************************************************************************)
(* One form, the responses to it and the HTTP requests that work on them   *)
(* (internal/form/response, answer, submit, and the parts of internal/form *)
(* that decide whether a form takes responses).                            *)
(*                                                                         *)
(* Every request is served by its own goroutine and every sqlc query is    *)
(* one SQL statement of its own: no service here opens a transaction,      *)
(* except UploadFiles.  A request is therefore a sequence of atomic steps, *)
(* each one statement, that interleaves with the statements of the others; *)
(* what one statement read may be stale when the next one writes.  Between *)
(* two steps a request may end: an early return, a cancelled context, a    *)
(* database error or a crash of the server.  It then writes nothing more,  *)
(* and nothing it has written is undone.                                   *)
(***************************************************************************)
EXTENDS FormWorkflow

CONSTANTS
    Users,             \* the respondents
    Requests,          \* the requests the server can be serving at a time
    Responses,         \* response ids (random UUIDs: never used twice)
    NoUser,            \* the user of a manager's request, the owner of no row
    NoResponse,        \* the response of a request that has none
    Workflow,          \* the workflow of the form, fixed here
    Accepts,           \* the values each question's Validate accepts
    UploadQuestions,   \* the questions of type upload_file
    OAuthQuestions,    \* the questions of type oauth_connect
    Payloads,          \* the answers a client may send in one request
    Null,              \* a field a manager's PATCH leaves out
    StatusMoves,       \* the statuses managers set
    FormPatches,       \* the deadlines and allow_edit_response managers PATCH
    InitialForms,      \* the forms a behaviour may start from
    SequentialClients  \* TRUE: a user waits for an answer before asking again

Statuses  == {"draft", "published", "archived", "closed", "deleted"}
Deadlines == {"none", "ahead", "passed"}
Forms     == [status : Statuses, deadline : Deadlines, allowEdit : BOOLEAN]

ASSUME LifecycleAssumption ==
    /\ NoUser \notin Users
    /\ NoResponse \notin Responses
    /\ \A q \in Questions : NoAnswer \notin Accepts[q]
    /\ UploadQuestions \subseteq Questions
    /\ OAuthQuestions \subseteq Questions
    /\ \A sent \in Payloads : DOMAIN sent \subseteq Questions
    /\ StatusMoves \subseteq Statuses \ {"deleted"}
    /\ FormPatches \subseteq [deadline : {Null, "ahead", "passed"},
                              allowEdit : BOOLEAN \union {Null}]
    /\ InitialForms \subseteq [status : Statuses \ {"deleted"},
                               deadline : Deadlines, allowEdit : BOOLEAN]
    /\ SequentialClients \in BOOLEAN

VARIABLES
    form,      \* the row of forms: status, deadline against the clock, allow_edit_response
    row,       \* the row of form_responses of each id: progress and owner
    answers,   \* the rows of answers of each response, by question
    tokens,    \* the OAuth form-state JWTs in users' hands: <<response, question>>
    job,       \* what each request is doing
    seen       \* history only: what has been so at some moment of the request

vars == <<form, row, answers, tokens, job, seen>>

-----------------------------------------------------------------------------
(* Rows                                                                    *)

NoRow       == [progress |-> "absent", owner |-> NoUser]
Blank       == [q \in Questions |-> NoAnswer]
Stored      == (UNION {Accepts[q] : q \in Questions}) \union {NoAnswer}
Live(r)     == row[r].progress \in {"draft", "submitted"}
LiveRows    == {r \in Responses : Live(r)}

\* CheckAvailable: deleted forms have no row to read.
Available == /\ form.status \in {"draft", "published"}
             /\ form.deadline # "passed"

\* ValidateResponseEditable.
Editable(r) == /\ Live(r)
               /\ row[r].progress = "submitted" => form.allowEdit

\* Mutant: a payload replaces all the answers of the response.
Merged_DropsOthers(r, sent) ==
    [q \in Questions |-> IF q \in DOMAIN sent THEN sent[q] ELSE NoAnswer]

\* The answers of r with those of the payload put over them.
Merged(r, sent) ==
    [q \in Questions |-> IF q \in DOMAIN sent THEN sent[q] ELSE answers[r][q]]

\* Mutant: values go to the database without Validate.
Valid_Anything(sent) == TRUE

Valid(sent) == \A q \in DOMAIN sent : sent[q] \in Accepts[q]

\* Mutant: answers without the foreign key to form_responses.
Upsert_NoForeignKey(r, sent) ==
    /\ Valid(sent)
    /\ answers' = [answers EXCEPT ![r] = Merged(r, sent)]

\* Upsert writes all of a payload or, when one value is invalid, none of it.
\* answers.response_id references form_responses: a response that has gone
\* takes no answers.  (A batch of none is no error there, but nothing either.)
Upsert(r, sent) ==
    /\ Live(r)
    /\ Valid(sent)
    /\ answers' = [answers EXCEPT ![r] = Merged(r, sent)]

-----------------------------------------------------------------------------
(* Requests                                                                *)

NoPayload == [q \in {} |-> NoAnswer]
Idle      == [kind |-> "none", at |-> "idle", user |-> NoUser,
              resp |-> NoResponse, sent |-> NoPayload]

\* Mutant: Submit judges the sections before it stores the answers it was sent.
SubmitOrder_JudgeFirst == [admit |-> "recheck", recheck |-> "judge", judge |-> "save",
                           save |-> "mark"]

SubmitOrder == [admit |-> "recheck", recheck |-> "save", save |-> "judge",
                judge |-> "mark"]

\* Which statement follows which, by kind of request.  "admit" is the availability
\* middleware of main.go, which the OAuth callback does not pass; "save" is the
\* BatchUpsert.
Then ==
    [create    |-> [admit |-> "exists", exists |-> "insert"],
     patch     |-> [admit |-> "editable", editable |-> "path", path |-> "save"],
     upload    |-> [admit |-> "editable", editable |-> "path", path |-> "save"],
     connect   |-> [admit |-> "editable", editable |-> "issue"],
     callback  |-> [editable |-> "save"],
     submit    |-> SubmitOrder,
     cancel    |-> [admit |-> "submitted", submitted |-> "revert"],
     configure |-> [admit |-> "change"]]

Kinds  == DOMAIN Then
Points == {"admit", "exists", "insert", "editable", "path", "save", "issue",
           "recheck", "judge", "mark", "submitted", "revert", "change"}

First(kind) == IF kind = "callback" THEN "editable" ELSE "admit"

\* Request p runs the statement it is at, and goes on or is answered.
At(p, point) == job[p].at = point
GoesOn(p)    == job' = [job EXCEPT ![p].at = Then[job[p].kind][@]]
Answers(p)   == job' = [job EXCEPT ![p] = Idle]

\* The payloads a request of a kind carries: files and OAuth accounts answer
\* one question, of the right type.
PayloadsOf(kind) ==
    CASE kind \in {"patch", "submit"} -> Payloads
      [] kind = "upload"  -> UNION {[{q} -> Accepts[q]] : q \in UploadQuestions}
      [] kind \in {"connect", "callback"} ->
            UNION {[{q} -> Accepts[q]] : q \in OAuthQuestions}
      [] OTHER -> {NoPayload}

\* A request arrives.  Under SequentialClients only of a user with no other
\* request under way: an assumption about the clients, not about the server.
Arrive(p, kind, u, r, sent) ==
    /\ job[p] = Idle
    /\ SequentialClients => \A other \in Requests : job[other].user # u
    /\ sent \in PayloadsOf(kind)
    /\ job' = [job EXCEPT ![p] = [kind |-> kind, at |-> First(kind), user |-> u,
                                  resp |-> r, sent |-> sent]]
    /\ UNCHANGED <<form, row, answers, tokens>>

\* POST /forms/{id}/responses.
ArriveCreate(p, u) == Arrive(p, "create", u, NoResponse, NoPayload)

\* A request on a response that exists or has existed, of whoever's.
ArriveOn(p, kind, u, r, sent) ==
    /\ kind \in {"patch", "upload", "connect", "callback", "submit", "cancel"}
    /\ row[r] # NoRow
    /\ kind = "callback" => \E q \in DOMAIN sent : <<r, q>> \in tokens
    /\ Arrive(p, kind, u, r, sent)

\* PATCH /forms/{id} of a manager.
ArriveConfigure(p) == 
    /\ job[p] = Idle
    /\ job' = [job EXCEPT ![p] = [Idle EXCEPT !.kind = "configure", !.at = "admit"]]
    /\ UNCHANGED <<form, row, answers, tokens>>

-----------------------------------------------------------------------------
(* Steps several kinds share                                               *)

\* Middleware.CheckAvailable: resolve the form of the response, look at the form.
Admissible(p) == /\ job[p].resp # NoResponse => Live(job[p].resp)
                 /\ Available

Admit(p) ==
    /\ At(p, "admit")
    /\ Admissible(p)
    /\ GoesOn(p)
    /\ UNCHANGED <<form, row, answers, tokens>>

Owns(p) == row[job[p].resp].owner = job[p].user

\* Mutants: the owner is not compared; the progress is not looked at.
MayEdit_AnyUser(p) == Editable(job[p].resp)
MayEdit_Locked(p)  == Owns(p) /\ Live(job[p].resp)

\* The owner check and ValidateResponseEditable, before any answer is read.  An
\* owner never changes, so its read is one step with the next.
MayEdit(p) == Owns(p) /\ Editable(job[p].resp)

CheckEditable(p) ==
    /\ At(p, "editable")
    /\ MayEdit(p)
    /\ GoesOn(p)
    /\ UNCHANGED <<form, row, answers, tokens>>

\* Mutant: PATCH resolves the workflow for the stored answers only.
AnswersForWorkflow_Stored(p) == answers[job[p].resp]

\* PATCH merges its payload into the answers it reads and resolves the workflow
\* for those; a file upload resolves it for the answers as they are.
AnswersForWorkflow(p) == IF job[p].kind = "patch" THEN Merged(job[p].resp, job[p].sent)
                                                  ELSE answers[job[p].resp]

\* Every question of the payload must lie in an active section, and a PATCH may
\* not answer an upload_file question.
CheckPath(p) ==
    /\ At(p, "path")
    /\ Resolved(Workflow, AnswersForWorkflow(p))
    /\ \A q \in DOMAIN job[p].sent :
          /\ SectionOf[q] \in ActiveSections(Workflow, AnswersForWorkflow(p))
          /\ job[p].kind = "patch" => q \notin UploadQuestions
    /\ GoesOn(p)
    /\ UNCHANGED <<form, row, answers, tokens>>

\* The BatchUpsert of PATCH, upload and callback, their last statement, and of
\* Submit, which goes on.
Save(p) ==
    /\ At(p, "save")
    /\ Upsert(job[p].resp, job[p].sent)
    /\ IF job[p].kind = "submit"
       THEN job' = [job EXCEPT ![p] = [job[p] EXCEPT !.at = SubmitOrder.save,
                                                     !.sent = NoPayload]]
       ELSE Answers(p)
    /\ UNCHANGED <<form, row, tokens>>

-----------------------------------------------------------------------------
(* Create, connect, submit, cancel and configure                           *)

\* Mutant: whether the user has a response is not asked.
MayCreate_Again(p) == form.status # "deleted"

\* formStore.Exists, then ExistsByFormIDAndSubmittedBy.
MayCreate(p) == /\ form.status # "deleted"
                /\ \A r \in LiveRows : row[r].owner # job[p].user

CheckNoResponse(p) ==
    /\ At(p, "exists")
    /\ MayCreate(p)
    /\ GoesOn(p)
    /\ UNCHANGED <<form, row, answers, tokens>>

\* The INSERT; form_responses.form_id references forms.
Insert(p) ==
    /\ At(p, "insert")
    /\ form.status # "deleted"
    /\ \E r \in Responses :
          /\ row[r] = NoRow
          /\ row' = [row EXCEPT ![r] = [progress |-> "draft", owner |-> job[p].user]]
    /\ Answers(p)
    /\ UNCHANGED <<form, answers, tokens>>

\* ConnectOAuthAccountStart hands out a JWT naming response, question and user.
IssueToken(p) ==
    /\ At(p, "issue")
    /\ tokens' = tokens \union {<<job[p].resp, q>> : q \in DOMAIN job[p].sent}
    /\ Answers(p)
    /\ UNCHANGED <<form, row, answers>>

\* SubmitHandler's owner check, Submit's GetFormID and its own CheckAvailable.
Recheck(p) ==
    /\ At(p, "recheck")
    /\ Live(job[p].resp)
    /\ Owns(p)
    /\ Available
    /\ GoesOn(p)
    /\ UNCHANGED <<form, row, answers, tokens>>

\* Mutant: the incomplete sections are collected and nobody looks at them.
MaySubmit_Incomplete(p) == Live(job[p].resp)

\* Submit reads the response back, answers included, and judges its sections.
MaySubmit(p) == Live(job[p].resp) /\ Complete(Workflow, answers[job[p].resp])

Judge(p) ==
    /\ At(p, "judge")
    /\ MaySubmit(p)
    /\ GoesOn(p)
    /\ UNCHANGED <<form, row, answers, tokens>>

\* UpdateSubmitted.
Mark(p) ==
    /\ At(p, "mark")
    /\ Live(job[p].resp)
    /\ row' = [row EXCEPT ![job[p].resp].progress = "submitted"]
    /\ Answers(p)
    /\ UNCHANGED <<form, answers, tokens>>

\* CancelSubmission reads the response: owner and progress.
CheckSubmitted(p) ==
    /\ At(p, "submitted")
    /\ Owns(p)
    /\ row[job[p].resp].progress = "submitted"
    /\ GoesOn(p)
    /\ UNCHANGED <<form, row, answers, tokens>>

\* RevertSubmission, whatever the progress is by now.
Revert(p) ==
    /\ At(p, "revert")
    /\ Live(job[p].resp)
    /\ row' = [row EXCEPT ![job[p].resp].progress = "draft"]
    /\ Answers(p)
    /\ UNCHANGED <<form, answers, tokens>>

\* The UPDATE of PATCH /forms/{id}: COALESCE keeps what the request leaves out,
\* so a deadline can be moved but not removed.
Coalesce(new, old) == IF new = Null THEN old ELSE new

Change(p) ==
    /\ At(p, "change")
    /\ form.status # "deleted"
    /\ \E patch \in FormPatches :
          form' = [form EXCEPT !.deadline = Coalesce(patch.deadline, @),
                               !.allowEdit = Coalesce(patch.allowEdit, @)]
    /\ Answers(p)
    /\ UNCHANGED <<row, answers, tokens>>

\* The request ends here: refused at the step it is at, cancelled, failed, or
\* lost with the server.
Drop(p) ==
    /\ job[p] # Idle
    /\ Answers(p)
    /\ UNCHANGED <<form, row, answers, tokens>>

-----------------------------------------------------------------------------
(* Requests of one writing statement, which read nothing before it, and time *)

\* Archive, Close, Unarchive (to draft), and the last statement of publish: an
\* UPDATE that looks at no earlier status.
SetStatus(status) ==
    /\ form.status # "deleted"
    /\ form' = [form EXCEPT !.status = status]
    /\ UNCHANGED <<row, answers, tokens, job>>

Gone(rows) ==
    /\ row' = [r \in Responses |-> IF r \in rows
                                   THEN [row[r] EXCEPT !.progress = "deleted"] ELSE row[r]]
    /\ answers' = [r \in Responses |-> IF r \in rows THEN Blank ELSE answers[r]]

\* DELETE of a response by a manager; its answers go with it (ON DELETE CASCADE).
DeleteResponse(r) ==
    /\ Live(r)
    /\ Gone({r})
    /\ UNCHANGED <<form, tokens, job>>

\* DELETE of the form; its responses and their answers go with it.
DeleteForm ==
    /\ form.status # "deleted"
    /\ form' = [form EXCEPT !.status = "deleted"]
    /\ Gone(LiveRows)
    /\ UNCHANGED <<tokens, job>>

DeadlinePasses ==
    /\ form.deadline = "ahead"
    /\ form' = [form EXCEPT !.deadline = "passed"]
    /\ UNCHANGED <<row, answers, tokens, job>>

-----------------------------------------------------------------------------
(* The specification                                                       *)

\* What holds now that a request of this kind on r depends on.
Facts(kind, r) ==
    UNION { IF Available THEN {"open"} ELSE {},
            IF kind \in {"patch", "upload", "callback", "submit"} /\ Editable(r)
            THEN {"unlocked"} ELSE {},
            IF kind = "submit" /\ Complete(Workflow, answers[r])
            THEN {"complete"} ELSE {} }

\* seen collects the facts of every state a request lives through.
Observe ==
    seen' = [p \in Requests |->
                IF job'[p] = Idle THEN {}
                ELSE seen[p] \union (Facts(job[p].kind, job[p].resp))']

Init ==
    /\ form \in InitialForms
    /\ row = [r \in Responses |-> NoRow]
    /\ answers = [r \in Responses |-> Blank]
    /\ tokens = {}
    /\ job = [p \in Requests |-> Idle]
    /\ seen = [p \in Requests |-> {}]

Arrivals(p) ==
    \/ ArriveConfigure(p)
    \/ \E u \in Users :
          \/ ArriveCreate(p, u)
          \/ \E kind \in Kinds, r \in Responses :
                \E sent \in PayloadsOf(kind) : ArriveOn(p, kind, u, r, sent)

Serve(p) ==
    \/ Admit(p) \/ CheckEditable(p) \/ CheckPath(p) \/ Save(p)
    \/ CheckNoResponse(p) \/ Insert(p) \/ IssueToken(p)
    \/ Recheck(p) \/ Judge(p) \/ Mark(p)
    \/ CheckSubmitted(p) \/ Revert(p) \/ Change(p)

Elsewhere ==
    \/ \E status \in StatusMoves : SetStatus(status)
    \/ \E r \in Responses : DeleteResponse(r)
    \/ DeleteForm
    \/ DeadlinePasses

Next ==
    /\ \/ \E p \in Requests : Arrivals(p) \/ Serve(p) \/ Drop(p)
       \/ Elsewhere
    /\ Observe

Spec == Init /\ [][Next]_vars

-----------------------------------------------------------------------------
(* Invariants                                                              *)

\* Every variable has its type; in particular each stored answer is one its
\* question's Validate accepts, whatever was sent.
TypeOK ==
    /\ form \in Forms
    /\ row \in [Responses -> [progress : {"absent", "draft", "submitted", "deleted"},
                              owner : Users \union {NoUser}]]
    /\ answers \in [Responses -> [Questions -> Stored]]
    /\ \A r \in Responses, q \in Questions : answers[r][q] \in Accepts[q] \union {NoAnswer}
    /\ tokens \subseteq Responses \X OAuthQuestions
    /\ job \in [Requests -> [kind : Kinds \union {"none"}, at : Points \union {"idle"},
                             user : Users \union {NoUser},
                             resp : Responses \union {NoResponse},
                             sent : UNION {PayloadsOf(kind) : kind \in Kinds}]]
    /\ seen \in [Requests -> SUBSET {"open", "unlocked", "complete"}]

\* A response that does not exist has no answers: no request that was under way
\* when the response or its form was deleted leaves some behind.
NoOrphanAnswers == \A r \in Responses : Live(r) \/ answers[r] = Blank

\* Create (internal/form/response/service.go) refuses a user who already has a
\* response, so no user has two.
AtMostOnePerUser ==
    \A r1, r2 \in LiveRows : row[r1].owner = row[r2].owner => r1 = r2

-----------------------------------------------------------------------------
(* Action properties                                                       *)

\* The requests that take a step.
Acting == {p \in Requests : job'[p] # job[p]}

AdmittedWrites ==
    \A r \in Responses :
       Live(r)' /\ (row'[r] # row[r] \/ answers'[r] # answers[r]) =>
          \E p \in Acting : /\ job[p].user = row'[r].owner
                            /\ job[p].kind # "callback" => "open" \in seen[p]

\* A response that is there after a step is made, marked, reverted or answered
\* only by a request of its own user, and (but for the OAuth callback, which no
\* availability middleware guards) one during which the form was available: what
\* CheckAvailable read may be stale, but never older than the request.
WritesAreAdmitted == [][AdmittedWrites]_vars

UnlockedEdits ==
    \A r \in Responses :
       Live(r)' /\ answers'[r] # answers[r] =>
          \E p \in Acting : "unlocked" \in seen[p] \/ job[p].kind = "submit"

\* PATCH, file upload and OAuth callback change the answers of a response only if
\* it was editable at some moment of the request (ValidateResponseEditable).
EditsNeedAnUnlockedResponse == [][UnlockedEdits]_vars

JudgedSubmissions ==
    \A r \in Responses :
       row[r].progress = "draft" /\ row'[r].progress = "submitted" =>
          \E p \in Acting : "complete" \in seen[p]

\* Even with requests of one user racing each other, a response becomes submitted
\* only by a request that lived through a moment when it was complete.
SubmissionsWereComplete == [][JudgedSubmissions]_vars

CompleteSubmissions ==
    \A r \in Responses :
       row'[r].progress = "submitted" /\ row[r].progress # "submitted" =>
          Complete(Workflow, answers[r])

\* When a response is marked submitted, every section active under its answers is
\* completed: the completeness Submit read still holds at its UPDATE.
SubmitsOnlyComplete == [][CompleteSubmissions]_vars

\* An assumption about the workflow: a file does not take its own section away, as it
\* would if a condition asked for the file on the way to its section.
FilesKeepTheirSection ==
    \A q \in UploadQuestions : \A given \in [Questions -> Stored], files \in Accepts[q] :
       SectionOf[q] \in ActiveSections(Workflow, given) =>
          SectionOf[q] \in ActiveSections(Workflow, [given EXCEPT ![q] = files])

\* A PATCH or a file upload answers only questions of sections that are active
\* under the answers it leaves behind (ErrAnswerSectionSkipped).  An upload
\* checks the answers from before it; that is the same under FilesKeepTheirSection.
EditsStayOnThePath ==
    [][\A p \in Acting : At(p, "save") /\ job[p].kind \in {"patch", "upload"} =>
          \A q \in Questions :
             answers'[job[p].resp][q] # answers[job[p].resp][q] =>
                SectionOf[q] \in ActiveSections(Workflow, answers'[job[p].resp])]_vars

-----------------------------------------------------------------------------
(* What the code says of itself and does not do                            *)

\* "response is not allowed to be edited": the answers of a response that was
\* locked throughout a request are not changed by it, a Submit included.
LockedResponsesStay ==
    [][\A r \in Responses :
          Live(r)' /\ answers'[r] # answers[r] =>
             \E p \in Acting : "unlocked" \in seen[p]]_vars

\* "cannot answer questions in a section skipped by workflow": no request with
\* answers, a Submit included, answers a question of a section that is skipped
\* under the answers it leaves behind.
SkippedSectionsTakeNoAnswers ==
    [][\A p \in Acting : At(p, "save") /\ job[p].kind # "callback" =>
          \A q \in Questions :
             answers'[job[p].resp][q] # answers[job[p].resp][q] =>
                SectionOf[q] \in ActiveSections(Workflow, answers'[job[p].resp])]_vars

-----------------------------------------------------------------------------
(* The abstract specification this one implements                          *)

Completed(given) == Complete(Workflow, given)

Contract == INSTANCE ResponseContract WITH row <- row, answers <- answers
ContractSpec == Contract!Spec
=============================================================================
