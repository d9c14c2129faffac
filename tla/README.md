# A formal model of the forms backend

This directory holds TLA+ models of the core of `core-system-backend`, the
configurations that check them with TLC, and theorems about them that TLAPS
checks. Paths below are relative to `src/`; `form/` stands for `internal/form/`.

Units publish forms, users fill them in. A form has sections of questions and a
*workflow*, a graph that decides from the answers which sections a respondent has
to fill. A user opens a *response*, stores answers in it over many requests from
many tabs, submits it, perhaps cancels and submits again, while managers edit,
close, reopen or delete the form. The server keeps nothing in memory between
requests: all state is rows of PostgreSQL, each request is a goroutine that issues
SQL statements one by one, and almost no service opens a transaction. The
difficulty of the system is therefore in what may happen between two statements.

## Files

| file | what it is |
| --- | --- |
| `FormWorkflow.tla` | which sections answers make active, when a section and a response are complete (operators only) |
| `WorkflowValidation.tla` | what a workflow must pass before it is saved and before it is activated (operators only) |
| `QuestionValues.tla` | what a question of each type accepts, stores, sends back, shows and matches (operators only) |
| `AnswerValues.tla` | the stored answers of a response while its questions are edited |
| `Respondent.tla` | a respondent answers a form with any of some workflows; what the resolver and the validator promise |
| `MCFormWorkflow.tla`, `MCForm.tla`, `resolver.cfg` | every small workflow and every order of answering it, against a reference definition; every type of question, edited between its answers |
| `ResponseLifecycle.tla` | one form, its responses, and every request that changes them, statement by statement |
| `ResponseContract.tla` | what the response service promises: the abstract specification |
| `MCResponseLifecycle.tla` | a form with two conditions and three sections for TLC |
| `orderly.cfg`, `concurrent.cfg` | the two checks of the lifecycle |
| `duplicate_responses.cfg`, `submit_edits_locked.cfg`, `submit_answers_skipped.cfg` | three statements of the repository that its code does not keep |
| `WorkflowVersions.tla` | the versions of one form's workflow, their edits and publishing, with SQL statements that overlap |
| `MCWorkflowVersions.tla`, `versions.cfg`, `versions_one_editor.cfg` | its two checks |
| `versions_two_active.cfg` | a fourth statement of the repository that its code does not keep |
| `ContentTables.tla` | the rows a form's content is made of: questions, views, highlight, files, attachments |
| `Questions.tla`, `Views.tla`, `Files.tla` | the requests that change each of them |
| `FormContent.tla`, `MCFormContent.tla`, `content.cfg` | all of those served at once, and their check |
| `Organisations.tla` | organisations, units, members, slugs and tenants, the role middleware, the setup of a start |
| `MCOrganisations.tla`, `organisations.cfg` | their check, crashes included |
| `Accounts.tla` | sign-up, login, linking, onboarding and refresh tokens |
| `AccountRegistry.tla` | what sign-up and login promise about accounts: the abstract specification |
| `MCAccounts.tla`, `accounts.cfg` | their check |
| `ResponseLifecycle_proofs.tla`, `WorkflowVersions_proofs.tla` | theorems about the lifecycle and the versions, with their proofs |
| `Organisations_proofs.tla`, `OrganisationPromises_proofs.tla` | theorems about types and units; about slugs, administrators and the setup |
| `Accounts_proofs.tla` | theorems about types and owners of sessions, the refinement, onboarding and refresh tokens |
| `FormContent_proofs.tla` | theorems about types, answers and their files, and places |
| `Respondent_proofs.tla` | theorems about the resolver and the validator, for every workflow |
| `AnswerValues_proofs.tla` | theorems about stored answers and rankings |
| `PROJECT.json` | the index: components, runs, the source lines of each definition, hazards, theorems |

## The system

### Components, their state and what makes them correct

| component | state | operations | hard behaviour | correct when |
| --- | --- | --- | --- | --- |
| Workflow resolution `form/workflow/resolver.go` | none | `ResolveSections` | drafts with cycles, dangling ids, removed questions, conditions without a rule or with a pattern that does not compile; unanswered conditions; answers older than a question's type | it visits what is reachable, ends, fails on exactly the broken workflows; shown sections stay |
| Responses `form/response` | `form_responses` (owner, progress) | create, mark submitted, cancel, delete; read with section progress | check and insert in two statements; deletion under running requests | one response per user; submitted means complete; no orphans |
| Submission `form/submit` | none of its own | `Submit`: recheck, save, judge, mark | four statements, each on what may have changed; a refusal keeps the saved answers | a response becomes submitted only if complete |
| Answers `form/answer` | `answers`, one row per response and question | PATCH, file upload, OAuth connection and its callback | the lock and the path are checked statements before the write; the callback comes minutes later | accepted values only; on the active path; not while locked |
| Forms `form/service.go`, `form/middleware.go` | `forms` (status, deadline, `allow_edit_response`) | create, PATCH, archive, close, unarchive, delete | availability is read before the handler runs | only available forms take answers |
| Workflow versions `form/workflow/service.go` | `workflow_versions` (draft or active) | update, create/delete node, activate | edits that write before they validate; concurrent activations; the latest version counts even if a draft | one active version; what is active was validated |
| Workflow validation `form/workflow/validator.go` | none | `Validate`, `Activate` | agreement with the resolver | an activated workflow resolves, unless it circles or an answer is older than its question's type |
| Publishing `internal/publish` | none of its own | read form, read workflow, activate, set status | four statements | a published form has a valid active workflow |
| Questions, sections `form/question` | `questions`, `sections` (order) | create, change, move, delete and close up | shifts and inserts in separate statements | without overlap, places are distinct and without gaps |
| Question values `form/question`, `form/answer` | none | decode, validate, encode, display, match; metadata | stored values outlive edits of type and choices; rankings depend on another answer | a stored answer is read back as it was meant |
| Files `internal/file`, `form/answer/resource_handler.go` | `files`, entries inside upload answers | upload, attach, delete with its references | read-merge-write of a JSON list without a row lock | no file without reference, no reference without file |
| Users `internal/user` | `users`, `auth`, `user_emails` | find or create by provider, by e-mail, link, onboarding | sign-ups of one person racing through two providers; recovery after a unique violation; whole rows written back | nobody enters another's account; onboarding is done once |
| Sessions `internal/auth`, `internal/jwt` | `refresh_tokens`; link tokens the clients hold | login, refresh, logout | a token is read and inactivated in two statements | one active token per login, for the owner of the identity |
| Units `internal/unit` | `units` (parent, organisation), `unit_members` (role) | create, delete; add, remove, change role | parents deleted under a creation; removal counts administrators without a lock, role changes lock | units stay in their organisation; a unit keeps an administrator |
| Tenants `internal/tenant` | `tenants` (strategy), `slug_history` | claim, rename, resolve a slug | a slug is checked and taken statements apart, no constraint on open rows | one holder per slug, one slug per organisation |
| Setup `internal/setup` | rows of the above | the organisations, members and accounts of the configuration, at every start | no transaction: a crash leaves part of it | the server comes up, with all that is configured |
| Views, highlights `form/view`, `form/highlight` | views and their order, one highlight per form | create, duplicate, reorder, delete | a maximum read before an insert | distinct positions |
| Inbox, distribution `internal/inbox`, `internal/distribute` | messages and per-user flags | create, mark read, archive | wired, but publishing does not call them at this commit | – |
| Authorisation `internal/auth/middleware`, `internal/auth/resolver` | none | checks before handlers | read-only | – |
| Markdown, fonts | none | pure conversions of texts | – | better tested than modelled |
| Configuration, routes, transactions | none at run time | start-up | – | – |

### How they interact

`cmd/backend/main.go:356-407` wires routes to a chain: authentication, then (on the
routes that write responses) `Middleware.CheckAvailable`, then a handler, which
calls services, which call sqlc queries. Components share nothing but rows:

* `form/response` calls the workflow resolver and `form/question` to judge sections;
* `form/submit` calls `form/response`, `form/answer` and the form service in turn;
* `form/answer` calls `form/response` for ownership and the lock, the resolver for the
  path, and `internal/file` for uploads, in the only transaction of these services;
* `internal/publish` calls `form/workflow` and then the form service;
* `internal/file` calls back into `form/answer` when a file is deleted, to take it from the
  answer that lists it, in the same transaction;
* `form/answer` asks `form/question` for the questions, and for the choices of a ranking
  reads the answer to another question;
* `internal/auth` turns identities into accounts through `internal/user`, accounts into
  tokens through `internal/jwt`; its role middleware reads `unit_members` before the
  handlers of `internal/unit` do;
* `internal/setup` runs `internal/unit` and `internal/user` before the server listens;
* deletions travel by `ON DELETE CASCADE` from `forms` to `form_responses` to `answers`.

## What is modelled

### FormWorkflow

`ResolveSections` is the loop of `form/workflow/resolver.go:27-142` as a recursive function over
(visits left, node). The code keeps a `visited` map and fails on a node seen twice; the function
instead counts: a walk over n nodes that makes n hops has seen one twice, so `Hops` bounds it
and running out is the same failure. The walk ends well at an end node, at a node with no next,
and at a condition that cannot be evaluated (its question has no answer, or the form has it no
longer). A condition's regular expression is the set of values that `matches` it.
`evaluateCondition` has two errors, and both end the walk with one (`Fails`): the node has no
rule, or `MatchesPattern` fails on the answer, one of the node's `refused` values: an answer
that `DecodeStorage` does not read back, since the question had another type when it was given,
or any answer under a pattern that does not compile. So a node's `rule` is "absent" (none, or
one that does not unmarshal), "broken" (an empty pattern or one that does not compile) or
"sound". `SectionProgress` and `Complete` are `calculateSectionProgress` and what `Submit` asks
of `response.Get`. An active section whose id is not a section of the form counts nowhere, as in
the loop of `Get` over the form's sections.

`Respondent` is the state machine around these operators: a form has any of a set of
workflows (`IsWorkflow`: finitely many nodes, the start node among them, types the parser
knows), and its questions are answered one at a time, with any values; at the start some may have
an answer older than the question's type (`OldValues`), which every sound rule refuses. The properties of
resolver and validator are stated there, against `Reachable`, a least closed set that knows
of no order and no count. `MCFormWorkflow` gives it each wiring of a start node, two
sections, two conditions and an end, and three questions.

### WorkflowValidation

`Validate` and `Activate` of `form/workflow/validator.go` with the nodes' own `Validate`
(`form/workflow/node`), over whole workflows of the shape `FormWorkflow` walks. The two
breadth-first searches of the validator (the order of sections before conditions and the
reachability of `GetValidationInfo`) are one recursive function, `Visits`: a queue of the ids
seen so far, read round after round, to which `QueuedNext` appends. The rule of a condition
has to be "sound" to pass a node's `Validate`; a draft is saved whatever the rule is. JSON that does
not parse and wrong field names are taken as rejected.
`MCFormWorkflow` composes it with the resolver: the wirings the run starts from are
sorted by what they pass.

### QuestionValues and AnswerValues

`QuestionValues` translates the `Answerable` of each type: `Requested` is `DecodeRequest`,
`Validate` and `EncodeStorage` with the text of "other" options merged in by the service,
`ReadBack` is `EncodeRequest`, `DisplayValue` and what `MatchesPattern` is asked about,
`Readable` and `DecodeStorage` what a stored value means to a question of a type,
`Generate` and `Built` how metadata is made from a request and taken apart again. What
JSON kind was sent is kept (`json`), since the code branches on it; a text is its number
of bytes, whether it is a link and the day it names; a choice is its id and how it is
written (plain, padded, "other").

`AnswerValues` is the state around them: `row` (the questions), `value` (the stored
answers), and PATCH requests as the statements of `answer.Service.Upsert`
(`ReadQuestions`, `ResolveRankingChoices`, `BatchUpsert`) beside `UpdateQuestion`, the
handler that replaces type, metadata and source of a question. `written` is history: the
question each answer was checked with.

### ResponseLifecycle

State and code:

| variable | code |
| --- | --- |
| `form` | the row of `forms`; the deadline is none, ahead or passed, as the clock in `CheckAvailable` sees it; a deleted form is status `deleted` |
| `row[r]` | the row of `form_responses` with id `r`; ids are UUIDs, so an absent one is used once and a deleted one never again |
| `answers[r][q]` | the row of `answers`, `NoAnswer` if there is none |
| `tokens` | the OAuth form-state JWTs users hold; they carry response and question |
| `job[p]` | what the goroutine serving request `p` is about to do, and its parameters |
| `seen[p]` | history: what has been true at some moment since `p` arrived. No action reads it |

A request is the sequence of statements `Then` lists, one action each:

| request | statements |
| --- | --- |
| POST response | `Admit`, `CheckNoResponse`, `Insert` |
| PATCH answers | `Admit`, `CheckEditable`, `CheckPath`, `Save` |
| POST files | `Admit`, `CheckEditable`, `CheckPath`, `Save` |
| GET oauth (start) | `Admit`, `CheckEditable`, `IssueToken` |
| OAuth callback | `CheckEditable`, `Save` – no availability middleware (`main.go:407`) |
| POST submit | `Admit`, `Recheck`, `Save`, `Judge`, `Mark` |
| POST cancel | `Admit`, `CheckSubmitted`, `Revert` |
| PATCH form | `Admit` (`CheckAvailable` is on this route too), `Change` |

Any other request of one writing statement is an action of its own: `SetStatus`
(archive, close, unarchive, the end of publishing), `DeleteResponse`, `DeleteForm`.
`DeadlinePasses` is the clock. Consecutive reads are one step where what the first
reads can never change (an owner). `Drop` ends a request at any point: a refusal,
a database error, a cancelled context or a crash of the server are the same here,
since nothing is in memory and nothing written is undone. A client's retry is a
new request.

Abstractions: one form; a payload is a function from some questions to values, and
`Accepts` stands for the `Validate` of the question types; a file list and an OAuth
account are one value each; which manager acts is left out; the workflow is a
constant (its edits are the subject of `WorkflowVersions`). `Admit` of a request on a response
that has been deleted fails, as the resolver of the form id does.

### ResponseContract

What the service promises to a user who does one thing at a time, with no requests
in it: at most one response per user, answers only of accepted values and never
lost, submitted only when complete, draft again only from submitted, removal with
all answers and for good. It takes `Completed` as an operator constant, so that it
speaks of no workflow.

### WorkflowVersions

The lifecycle treats a statement as one step, which is right where a statement reads and
writes rows of its own. The queries of `form/workflow/queries.sql` are different: each
finds the latest version, locks it (`FOR UPDATE`), and writes it if it is a draft or
inserts a new one. Under READ COMMITTED such a statement takes its snapshot when it
begins, may wait for the lock, then sees the locked row as it has become and every
other row as in the snapshot. So a statement is two steps here: `Begin` records the
snapshot and `now()`, and `Update`, `CreateNode`, `DeleteNode` or `Activate` commits.
Which row is the latest is decided by the snapshot (`Latest(job[p].seen, v)`), whether it
is a draft by what it has become (`IsDraft`), and which rows are deactivated again by the
snapshot (`Deactivated`).

| variable | code |
| --- | --- |
| `status` | `forms.status` |
| `versions[v]` | the row of `workflow_versions` with id `v`; `updated` is `updated_at` |
| `sections` | the ids of the form's rows of `sections` |
| `job[p]` | where the request stands, the workflow it sends, the snapshot of its statement |
| `clock` | `now()` of the last statement that began |

| request | steps |
| --- | --- |
| PUT workflow | `ArriveUpdate` (available), `ReadForUpdate` (validate, compare), `Begin`, `Update` |
| POST node | `ArriveCreateNode`, `Begin`, `CreateNode` |
| DELETE node | `ArriveDeleteNode`, `Begin`, `DeleteNode` |
| POST publish | `ArrivePublish` (is a draft), `ReadForPublish` (read, validate), `Begin`, `Activate`, `Publish` |
| archive, unarchive, close | `SetStatus` |

A workflow is which nodes it has and which of them are *wired*, that is, pass the node
validation for activation; what the edges are is `FormWorkflow`'s subject. A new node is not
wired; two workflows with the same nodes of which the same ones are wired may still differ in
the code, so where it compares them (`ReadForUpdate`, `Activate`) they may turn out equal or
not, and different if they differ here. Deleting a node unwires an arbitrary set of those that
may have led to it or asked its questions. The refusal by the validation after `CreateNode` and
`DeleteNode` changes no row, and is left out with the answer it changes. `now()` differs between
statements, so the tie breakers of "latest" never decide and are left out. `Drop` is any
refusal, failure or crash; a statement under way is rolled back. `form_lock` is not taken: the
expression is a `SELECT` in a `WITH` that nothing refers to, which PostgreSQL does not evaluate.

### FormContent

`ContentTables` holds the variables (`place`, `type`, `title`, `locked`, `highlight`,
`responses`, `answered`, `list`, `attached`, `files`) and what a statement makes of
places chosen in a snapshot; `Questions`, `Views` and `Files` hold the requests.

| request | steps | code |
| --- | --- | --- |
| POST question | `CountToAdd`, `BeginShift`, `ShiftOrdersForInsert`, `InsertQuestion` | `question/service.go` Create |
| PUT question | `UpdateFields`, `CountToMove`, `BeginMove`, `UpdateQuestionOrder` | Update |
| DELETE question | `BeginRemove`, `DeleteAndReorder` (with its answers and highlight) | Delete |
| PUT, DELETE highlight | `ReadToHighlight`, `SetHighlight`; `ClearHighlight` | `highlight/service.go` |
| POST view | `ReadTitles`, `ReadMaxOrder`, `InsertView` | `view/service.go` |
| PATCH view | `GetView`, `UpdateTitle`, `ReadMaxToMove`, `BeginViewMove`, `UpdateViewOrder` | |
| POST duplicate | `GetOriginal`, `TitleCopy`, `BeginViewShift`, `Duplicate` | one transaction |
| DELETE view | `DeleteIfUnlocked`, `BeginViewShift`, `DeleteView` | one transaction |
| lock, unlock view | `UpdateLocked` | |
| POST files | `CheckType`, `LoadPrevious`, `UpsertList`, `CommitUpload` | `answer/service.go` UploadFiles, one transaction |
| DELETE file | `LockFile`, `FindReference`, `PutShorterList`, `CommitDelete` | `file/service.go`, one transaction |
| PATCH of an upload answer, DELETE response | `PatchAnswer`, `DeleteResponse` | |

As in `WorkflowVersions`, a statement of several rows takes its snapshot when it begins
and applies to the newest rows when it can; what a transaction writes becomes visible
when it ends, and its locks are `HoldsSlot`, `HoldsFile`, `Taken`. An answer that lists no
files may be one the question got under another type, which does not unmarshal as a list
(`MayBeForeign`): reading it may end an upload or a deletion. `Cut` ends a request
anywhere, its open transaction undone, its committed statements not. `mixed` and `crossed`
are history: lists whose places two requests changed at once, answers written by one who
had read an older list.

### Organisations

| variable | code |
| --- | --- |
| `unit`, `tenant`, `role` | the rows of `units`, `tenants`, `unit_members`; a random id is used once |
| `history`, `serial` | the rows of `slug_history` in the order of their serial |
| `boot` | how far `setup.Service` of this start has come; requests arrive only when it is `up` |
| `job[p]` | what request `p` is about to do; `held` are the rows its transaction has locked |
| `clash`, `raced` | history: slugs two requests found free at a time; units where a removal overlapped another change of roles |

Every writing route of `internal/unit` is a request: create, rename and delete an
organisation, create and delete a unit, add, remove and change the role of a member, by
slug or by unit id. `Arrive` includes what the tenant and role middleware read; `Resolve`
is the handler's own look at the slug, `CheckFree`, `InsertUnit`, `WriteTenant`, `WriteSlug`,
`WriteOwner`, `DeleteRow`, `CountMembers`, `Join`, `Promote`, `ReadRoleToRemove`,
`CountToRemove`, `Drop` the statements of the services. Only `UpdateUnitMemberRole` is a
transaction: `BeginLock` is the snapshot of its `SELECT ... FOR UPDATE`. That statement has no
order, so `LockAdmins` locks the rows of the snapshot one at a time in any order and keeps them
while it waits for the next; a row demoted meanwhile is locked all the same, one deleted is passed
over. Two role changes of a unit may so wait for each other. PostgreSQL finds the circle (`Deadlocked`)
and ends one of them with an error (`Abort`), its locks given back. The setup is
`SetupCheck` to `SetupDone`, a statement each; `Crash` ends all requests and starts it again,
with the rows as they are.

### Accounts and AccountRegistry

| variable | code |
| --- | --- |
| `profile` | the rows of `users`: username, `is_onboarded` |
| `owner`, `mail` | the rows of `auth` and `user_emails`, both under unique constraints |
| `token` | the rows of `refresh_tokens`; `from` and `via` (history) the login a token descends from and the identities presented there |
| `link` | the link tokens handed out, JWTs |
| `job[p]` | the request |

`FindByProvider`, `LockEmail`, `Decide`, `Attach`, `StartAccount`, `UpsertEmail`, `CommitAccount`,
`Recover`, `OfferBinding`, `ReadForAvatar`, `SaveAvatar` are `FindOrCreate` of
`user/find_or_create.go` with its two transactions, the wait for the insert of the same
address, and the recovery from a unique violation, which may start over (a username taken before
`SaveAvatar` writes the row back is a conflict that is logged and forgotten: `NameTaken`); `VerifyExisting`,
`Confirm` the confirmation of a link; `LookupEmail`, `ReserveId`, `RegisterEmail` the accounts of
the setup; `ReadProfile`, `WriteProfile` onboarding; `Spend`, `DeleteExpiredRefreshTokens`,
`GenerateRefreshToken` a session. `Expire` is the clock.

`AccountRegistry` has four variables and no requests: an account is made with the identity
that comes with it or for an address of the configuration; an identity joins an account
that has none yet or several addresses, and otherwise only after the owner's confirmation.
`RegistrySpec` is `Accounts` refining it: `made` is which rows of `users` there are, `offers` the
link tokens handed out.

## What is checked

| run | states | question | result |
| --- | --- | --- | --- |
| `resolver` | 238 580 | Does the walk agree with reachability, for broken workflows and unreadable answers too? Does complete leave anything open? Do sections shown early disappear? Do validated workflows resolve? Do stored answers of any type survive edits of their questions? | holds |
| `orderly` | 204 646 | Clients that wait for answers, managers and clock that do not: does the service keep its contract? | holds |
| `concurrent` | about 288 000 | Clients with two requests at once, on one response: what still holds when any read may be stale? | holds |
| `versions` | 604 720 | Edits and publications that overlap: is what is active valid and left alone, has a published form one? | holds |
| `versions_one_editor` | 19 565 | One request at a time: is one version active, do sections and workflow agree? | holds |
| `content` | 63 940 | Edits of questions, views and files that overlap and end anywhere: are places in order, do answers list their files, does nobody wait for ever? | holds |
| `organisations` | 46 844 | Two overlapping requests out of every writing route, after a setup that may crash: who holds a slug, where do units belong, who is left to administer, does the server come up? | holds |
| `accounts` | 126 550 | First logins racing through two providers with links, setup, onboarding and refreshes: do they implement the registry, whose are the sessions? | holds |
| `versions_two_active` | | Is one version active when publications overlap? | violated |
| `duplicate_responses` | | Has a user at most one response when requests race? | violated |
| `submit_edits_locked` | | Does a locked response keep its answers? | violated |
| `submit_answers_skipped` | | Do skipped sections take no answers? | violated |

**Properties of `resolver`.** `ResolvesTheReachablePath` compares the walk with the least set
closed under "may follow", defined without order or counting: the walk fails exactly if that set
holds a dangling id or a condition that fails, or no node at which the walk ends.
`CompleteLeavesNothingOpen` relates completeness to required questions of reachable sections.
`CertainSectionsStay` is the promise behind stopping at an unanswered condition: answering more
removes no section, as long as both walks resolve. `ValidatedWorkflowsLeadOn` composes validator
and resolver. `Activate` checks neither cycles nor the order of sections before conditions;
still, in a workflow that passed it no walk meets a dangling reference or a condition without a
sound rule, and unless it circles it stops only at the end node or at a condition of a question
with no answer yet, or with one older than its type (there the walk fails: nothing in the
validator can prevent that). In a workflow that passed `Validate`, the section of a condition's
question can be reached without that condition. And no walk reaches a node that the validation
warnings call unreachable.

**Properties of the values.** `AnswersReadBack`: however questions are edited, each can be
built again (one that cannot makes every read of the form fail), an answer decodes after
any edit that keeps the type, what is sent back of it is taken by the question as it was
answered to mean the same, and workflow patterns match exactly the choices sent.
`RankedWereSelected`: a ranking is of choices selected in its source once the request is
done. It exempts a source whose answer changed between `ResolveRankingChoices` and
`BatchUpsert`; without that, two overlapping PATCHes of one respondent break it.

**Properties of the lifecycle.** `WritesAreAdmitted`: a response is made, marked,
reverted or answered only by its owner's request, and by one during which the form
was available. It is phrased with `seen` because the check is stale by the time of
the write; the strongest true statement is that it is never older than the request.
`EditsNeedAnUnlockedResponse` and `SubmissionsWereComplete` are the same for the lock
and for completeness. `NoOrphanAnswers`: no late write survives a deletion.
`SubmitsOnlyComplete`, `AtMostOnePerUser`, `ContractSpec` are the sharper forms that
hold only if a user waits for each answer. `EditsStayOnThePath`: PATCH and upload
answer only questions of sections active under the answers they leave behind. PATCH checks
the path of the answers it is about to leave, the upload that of the answers from before it;
the two agree as long as a file does not take its own section away
(`FilesKeepTheirSection`, which TLC evaluates for the instance).

**Properties of the versions.** `ActivesAreValid`: the validation is done statements before
the write, on a workflow that was read; nothing else may get into an active version, in
particular not an edit that waited for the lock while `Activate` held it.
`ActiveVersionsStay`: the workflow of an active version is never rewritten.
`PublishedHasActive` relates the form's status to its versions, which are written by separate
statements. `AtMostOneActive` is what `form_lock` is for. `SectionsHaveNodes`: the two
places that hold sections agree, even when edits are cut off or refused after
they have written. `OneEditor` and `Overlap` are assumptions about clients and timing,
used where the code relies on them; with overlapping edits `SectionsHaveNodes` fails
(an edit that rewrites an older version loses the node of a new section).

**Properties of the content.** `PlacesWithoutGaps`: no overlap moves a row before the
first place, and when nothing overlapped the places of a list are one after another: what a
request shifts, inserts, moves and closes up adds up. `AnswersListTheirFiles`: an answer
lists exactly the files attached to it unless somebody wrote over a list he had read
before another did (`crossed`; two overlapping uploads do that, and the files of the first
stay attached and unlisted), the attachment of a deleted file is gone, the highlighted question is
there. `RequestsAnswered`: the locks of files, answers, views and closing rows are taken in an
order without a cycle. `mixed` and `crossed` exempt what overlapped, so these two properties show
what the code keeps without overlap, and that overlap spoils one list and one answer at a
time; what goes wrong under it is named in the hazards.

**Properties of organisations.** `NewestRowHoldsSlug`: of a slug only the newest row may be
open, so one organisation holds it and the two status endpoints agree; without a constraint
in the database this rests on `CheckFree`, and slugs found free twice at a time are exempt.
`OneSlugPerOrganisation` has no exemption. `ListedOrganisationsOpen`: the slug a
person is shown leads to that organisation and to no other, and the tenant middleware lets its routes
through, unless an update of the organisation has asked for the strategy `isolated`, which the
middleware refuses. `UnitsStayInTheirOrganisation`: parent, organisation and existence agree
whatever is deleted under a creation. `AdminsRemain`: a unit that has administrators keeps one,
unless a removal overlapped another change (`RemoveMember` takes no lock) or a demotion waited for
locks while administrators came. `RequestsAnswered`: a role change
that waits for locks ends, since a transaction gives them back on every return and the database ends one
of those that wait in a circle. `SetupIsComplete`, `ServerComesUp`: after any crash the next
start completes what is configured, and does not trip over what is there.

**Properties of accounts.** `RegistrySpec` is the refinement. `SessionsAreTheOwners`: on every
recovery path a session is for the account of an identity that was presented.
`OneTokenPerLogin`: of each login one refresh token is active, but for logins of which one
token was refreshed twice at once. `OnboardingStays`: onboarding is done once, but for requests
that had read the row before (the download of a picture writes the whole row back).

**Bounds.** *resolver*: two sections and two conditions give every shape the walk distinguishes
(cycle through a section, through conditions, rejoining, dangling, missing next), and the second
condition may fail in each of its ways; one value that is older than its question's type stands
for all. *orderly*: one user, two requests and two ids, so that a manager's request runs beside
the user's and a deleted response is followed by another; six payloads: two teams that activate
different sections, an answer one of them skips, alone and together with that team, a value that
is refused, and none at all; managers archive, reopen to draft and extend the deadline.
*concurrent*: two users and two requests on one response: two requests of the owner, or one of
the owner and one of a stranger, while managers lock, unlock, archive and delete. Two requests
suffice for the races the code has, all of the form check–write–write; a third adds an
interleaving of the same kind and is covered by the theorems. Requests, ids and users are
interchangeable, so symmetry is used there, where no liveness is checked. Nothing in the
lifecycle counts up, so no bound is in a guard. *versions*: two requests, three versions and at
most four statements (`MaxStatements`, the guard of `Begin`): enough for a draft to be
activated, for an edit to make the next draft, and for two statements to overlap on either; one
section. *versions_one_editor*: four versions, two sections and a condition. A request that
finds no unused version id cannot insert; the statements end first. *resolver*, values: one
question of any type, edited once (`MaxEdits`) between answers, or a choice and a ranking of it;
or two overlapping PATCHes of those; per type the values at each boundary its code compares
with. *content*: two requests ever (`MaxRequests`); three questions and three views, with an id
each for one more, so that a row can move past two others; one response whose upload answer
lists two files, and a third file to upload. *organisations*: Ann and Bob, both configured as
administrators of the one configured organisation, so that two removals can meet, Bob also
global administrator; both strategies; two slugs, four units, five rows of history, two requests
and one crash, after which what the first start left is met by the second. Two role changes that
take the same two rows in opposite order are among them. *accounts*: Ann, with one address, two
providers (one of which may send no address) and an account the setup makes for that address;
Bob, with an account of an earlier release, two addresses, one linked identity and one that is
not; three requests and with them three refresh tokens, enough for a login, a refresh and
another that overlaps it.

**`SequentialClients`** is an assumption about clients, not the server. The
server enforces nothing of the kind; that is what `concurrent` and
`duplicate_responses` are about. Even with two tabs, `SubmissionsWereComplete` holds
while `SubmitsOnlyComplete` does not: a PATCH between `Judge` and `Mark` can
leave a submitted response incomplete.

**Fairness.** In `content`, `organisations` and `accounts` a request that is served goes on
(`WF_vars(Step(p))`): a goroutine runs until it has answered, the database ends the transactions
it has begun, and a waiting statement proceeds once its locks are free. The setup runs in `main`
(`WF_vars(Setup)`). Nobody has to make a request; none has to end early, and the server crashes
a bounded number of times. `RequestsAnswered` and `ServerComesUp` need no more: weak fairness of
each request suffices since a request that waits for a lock waits for one other whose own step
is enabled, or in a circle that `Abort`, which is a step, ends: the database looks for circles
after `deadlock_timeout`. Nothing is assumed in the other runs, and no liveness is claimed
there: nothing in those services waits.

**Deadlock** is checked in the lifecycle and versions runs (a request can always arrive). The
others stop by their bounds: all questions answered, all requests made.

### What the code says and does not do

* `form/workflow/queries.sql:234` – "Lock the form row to serialize activations per form":
  the lock is never taken, and two overlapping publications both activate; the second
  waits for the row of the draft, finds it active, sees no active version in its
  snapshot, and inserts another (`activate_test.go:133` of the integration tests:
  "should have exactly one active version").
* `form/response/service.go:108` – Create "Returns an error if the user already has a
  response for the form"; two concurrent requests make two (no transaction, no unique
  constraint on form and user).
* `internal/errors.go:134` – "response is not allowed to be edited": every route that
  writes answers asks, except Submit. A submitted, locked response is changed by
  submitting it again.
* `internal/errors.go:137` – "cannot answer questions in a section skipped by workflow":
  PATCH and upload ask, Submit does not.

Seen while modelling and part of the model, not contradicted by any text: the OAuth
callback stores an answer on a form that has been archived or has expired meanwhile;
a failed Submit keeps the answers it saved; Submit accepts answers to upload questions,
which PATCH refuses; an allowed edit may make a submitted response incomplete, and it
stays submitted; a deadline can be moved by PATCH but not removed (`COALESCE`);
`ListSubmittedByFormID` (`form/response/queries.sql:56-60`) compares with `'SUBMITTED'`,
which is not a value of the enumeration; a condition may ask for an upload question
(`form/question/types.go:66`), and one on the way to its own section could hide the file it was
just given; deleting the start or the end node is stored
and then refused with 400, and no request can bring the node back; publishing
sets the status to published even if the form was archived since it was read as a draft;
the resolver judges responses by the latest version, draft or not; `MatchesPattern` "Returns false
with nil if the pattern is invalid (logs error internally)." (`form/question/service.go:69`), but
`matchPattern` (`form/question/helpers.go:81-88`) returns the error of `regexp.Compile`, which a test
expects too (`file_test.go:66`), and the walk fails with it.

Of values: editing the choices of a question gives all of them new ids, and stored answers
and workflow rules keep the old ones; a choice answer cannot be cleared by PATCH, since an
empty selection is refused; a single, multiple or dropdown choice with a source never gets
choices (only rankings are resolved) and cannot be answered; a ranked "other" option resolved
from a stored answer has no name; a date without all parts is sent back with those of
1 January 1970, so that a year-less 29 February comes back as 1 March; the answer to
an upload question is sent back in a form no request takes; after a change of type an old
value is unreadable (text and number, any to date) or silently read as empty; date bounds are
compared as instants when made, as written days when answered; text lengths are bytes.

Of content: a file attached to an answer that is gone cannot be deleted (the reference is
looked up first, and its absence is an error); the amount and types of files are checked for
submitted values, not by the upload; a change of type leaves the highlight on a question
that no longer supports one.

Of organisations: several queued role changes may lock fewer than all administrators, since a
`SELECT ... FOR UPDATE` does not see rows that became administrators' after its snapshot;
a configured organisation that was renamed is created again at the next start; deleting a unit
leaves its subunits without parent; a strategy of `isolated`, which PUT may set, makes every
route behind the tenant middleware answer an error;
`DeleteUnit` checks the role in the organisation of the slug, not the unit's;
`available` of the two status endpoints (`internal/tenant/handler.go:90` and `:123`) means
opposite things.

## What is proved

`ResponseLifecycle_proofs.tla`, for any finite or infinite sets of users, requests,
responses and questions, any workflow and any payloads, under
`LifecycleAssumption` and `FormAssumption`:

| theorem | statement | needs |
| --- | --- | --- |
| `TypeCorrect` | `Spec => []TypeOK` | |
| `NoOrphans` | `Spec => []NoOrphanAnswers` | |
| `WritesAdmitted` | `Spec => WritesAreAdmitted` | |
| `EditsUnlocked` | `Spec => EditsNeedAnUnlockedResponse` | |
| `SubmissionsJudged` | `Spec => SubmissionsWereComplete` | |
| `OneResponse` | `Spec => []AtMostOnePerUser` | `SequentialClients` |
| `SubmittedComplete` | `Spec => SubmitsOnlyComplete` | `SequentialClients` |
| `ImplementsContract` | `Spec => ContractSpec` | `SequentialClients` |
| `EditsOnThePath` | `Spec => EditsStayOnThePath` | `SequentialClients`, `FilesKeepTheirSection` |

The argument has three layers, each an inductive invariant over the one below.

1. `TypeInv` is `TypeOK` with `JobsOK`: a request of a kind is only at statements of that
   kind, names a user and a response if its kind does. Without it a `Save` could be a
   manager's, or on no response. Accepted values survive since `Upsert`
   validates all of a payload before it writes.
2. `SeenInv` adds what a request has established by the statement it is at:
   `Admitted`, `Unlocked`, `Judged`, `Owned`. These are not properties of the state of
   the form or the response (which may have changed since) but of `seen`; `SeenNow`
   says that `seen` includes what holds now, so that passing a check puts
   the checked fact into `seen`, and `SeenGrows` that it stays there. `Owned` survives because
   owners never change. The action properties follow, since `Writers` lists who may
   have written.
3. `OrderlyInv` adds, for clients that wait: `Alone` (one request per user), `Clear` (at
   `insert` the user has no response), `MarkReady` (at `mark` the response is
   complete, if it still exists), `RevertReady`. These are exactly the checks whose staleness
   the concurrent run exhibits; `Undisturbed` shows that nobody but the request
   itself writes to the response between its check and its write, except by
   deleting it. `ImplementsContract` maps each writing statement to an action of
   the contract and every other step to a stutter. `EditsOnThePath` adds `PathReady`: at
   `save`, the sections of what is sent are active under the answers as they would be merged
   now. `ThroughPath` says that the check of the path is the only way to `save`, and
   `Undisturbed` that the answers it judged are still those.

`Complete` and `ActiveSections` stay closed in the proofs: what the theorems say
about completeness holds for whatever the resolver computes.

`WorkflowVersions_proofs.tla`, for any sets of requests, versions and nodes and any number
of statements, under `VersionsAssumption`:

| theorem | statement | needs |
| --- | --- | --- |
| `TypeCorrect` | `Spec => []TypeOK` | |
| `ActivesValid` | `Spec => []ActivesAreValid` | |
| `ActiveStays` | `Spec => ActiveVersionsStay` | |
| `PublishedActive` | `Spec => []PublishedHasActive` | |
| `OneActive` | `Spec => []AtMostOneActive` | `~Overlap` |
| `SectionsMatch` | `Spec => []SectionsHaveNodes` | `OneEditor` |

`TypeInv` here also says what a request carries: a publishing request holds a validated
workflow from `ReadForPublish` on. Two lemmas describe every statement by what it
does to the versions: `Edits` writes one row that is not active and leaves it so,
`Activates` writes one such row and deactivates some others (`VersionsMove`).
`ActivesValid` and `ActiveStays` follow from these. `PublishedActive` needs
`ReadyToPublish`: a request about to set the status has seen to an active version, and no
step leaves the form without one (`ActiveRemains`). `OneActive` needs `SerialInv`: one statement
runs at a time, and its snapshot is the present (`SeesVersions`), so that it
deactivates all there is; overlap breaks exactly that conjunct. `SectionsMatch` needs
`EditorInv`: one request is served at a time (`Solo`), a workflow it carries has the nodes of the
latest version (`JobsFit`), and every version is older than its statement (`Dated`), so that
the row it writes becomes the latest one together with its sections (`Rewritten`).

`Organisations`, for any sets of units, people, slugs and requests, any setup, and any bounds,
under `OrganisationsAssumption`:

| theorem | module | statement |
| --- | --- | --- |
| `TypeCorrect` | `Organisations_proofs` | `Spec => []TypeOK` |
| `UnitsStay` | | `Spec => []UnitsStayInTheirOrganisation` |
| `OneSlug` | `OrganisationPromises_proofs` | `Spec => []OneSlugPerOrganisation` |
| `NewestHolds` | | `Spec => []NewestRowHoldsSlug` |
| `ListedOpen` | | `Spec => []ListedOrganisationsOpen` |
| `AdminsStay` | | `Spec => AdminsRemain` |
| `SetupComplete` | | `Spec => SetupIsComplete` |

1. `TypeInv` types the rows and says what a request (`JobOK`) and the setup (`BootOK`) carry
   at each of their points.
2. `SlugInv`: the server serves nobody before its setup is done (`BootIdle`); an organisation
   that is being created has no row of history yet, and no two requests create the same one
   (`NamelessInv`); a slug that was not found free twice is being taken by one request, and is
   free, or that organisation's own, until it writes (`TakingInv`). This last part is why the
   property needs `clash`: the check is statements before the write. An organisation with an
   open row of history has a row of `tenants` (`TenantInv`), which `ListedOpen` needs to know
   what the middleware does. Every step is reduced to one of two things it can do to the
   history: give a slug to an organisation (`Gives`), or take rows away with a deleted
   organisation (`Thins`).
3. `AdminInv`: no two transactions have locked one row (`LocksInv`), though a locked row may be no
   administrator's any more; a demotion about to be written holds an administrator who will be left
   (`DemotionInv`); who removes alone has counted what is there (`AloneInv`, `RemovalInv`);
   the members the setup has come past are there (`GrantInv`).

`Accounts`, for any identities, addresses, configuration, accounts of earlier releases and number of
requests, under `AccountsAssumption`:

| theorem | module | statement |
| --- | --- | --- |
| `TypeCorrect` | `Accounts_proofs` | `Spec => []TypeOK` |
| `SessionsOwners` | | `Spec => []SessionsAreTheOwners` |
| `Implements` | | `Spec => RegistrySpec` |
| `OnboardedOnce` | | `Spec => OnboardingStays` |
| `OneToken` | | `Spec => []OneTokenPerLogin` |

1. `Inv` has three parts. `TypeInv` again says what a request carries where. `SoundInv`: rows of
   `auth` and `user_emails` lead to accounts that are there, link tokens name an account and
   an identity of it, and what a request has established stays true, because these rows only
   grow (`Grows`). `LockInv` is about the two transactions: of one address one request at a
   time resolves the row and one inserts it, and then nobody has it (`MailFree`).
2. The refinement maps `CommitAccount` to `SignUp`, `RegisterEmail` to `Invite`, `Attach` to
   `Join`, `OfferBinding` to `Offer` and `Confirm` to `Confirm`; every other step is a
   stutter. The hard case is `Attach`: it relies on a count that another transaction may have
   made stale. `AttachInv` says it is not: the account has no identity or several
   addresses, and to give it one in between takes the lock of the same address, or a second address.
3. `ProfileInv`: who holds a row of `users` to write it back has it as it is, or finds it still
   to be onboarded, unless somebody wrote it under him (`crossed`). `TokenInv`: of a
   login not overlapped one token is active or one request is about to issue it, and no
   token descends from one that has not been issued.

`FormContent`, for any questions, views, responses, files and requests, under
`ContentAssumption`:

| theorem | module | statement |
| --- | --- | --- |
| `FilesListed` | `FormContent_proofs` | `Spec => []AnswersListTheirFiles` |
| `ContentTyped` | | `Spec => []TypeOK` |
| `PlacesFollow` | | `Spec => []PlacesWithoutGaps` |

1. `ContentInv` is inductive. `AttachedOK`: files are attached to answers that are there or whose
   question or response is not, and the question of an attached file is there or gone for ever, so
   that an upload to an answer that is not there finds no file of an earlier one. `AddOK`: no
   file is attached to answers of a question about to be inserted. `UploadOK` and `DeleteOK` say
   what the locks give: the parents of a locked answer stay (`Removing`, `DeletingResponse` wait
   for it), and a deletion that writes no list has found its file missing from one that was
   written over. `Apart`: two deletions do not hold one file, two uploads
   do not bring the same new one. Every other request moves places without making a question there or
   absent (`PlacesKept`) and so keeps all of this (`QuietKeeps`).
2. `ContentTyped`: most of it is the shape of rows. That a copied view gets a title needs a number
   no view of that title has, among one more than there are views: were all taken, the
   views would be at least that many (`FS_Surjection`, an injection from numbers to views).
   That no two transactions lock one file or one answer is `Apart` again.
3. `PlacesFollow`, which counts nothing: a list `Fills` a set of places when every row has
   one of them, every one of them a row, and no two rows the same. Shift, move, insert and close up
   are then lemmas about sets of places (`a .. b` becomes `(a .. b) \ {k}` or an interval
   one longer or shorter), and no cardinality is needed. `OrderInv` says for requests that
   do overlap that none puts a row before the first place (`Aims`), that a row about to be
   made is not there and concerns nobody else (`Makes`), and that one deletion closes one gap
   (`Deletes`). `ListInv` adds, for a list nobody touched at the same time (`mixed`), that at
   most one request is about it and that it fills its places, or all but the one an insertion
   has made room for (`FilledBut`).

`Respondent`, for every finite workflow of any size and wiring, any questions, sections, values and
answers, under `FormAssumption` and `RespondentAssumption`:

| theorem | module | statement |
| --- | --- | --- |
| `ResolverExact` | `Respondent_proofs` | `Spec => []ResolvesTheReachablePath` |
| `CompleteIsClosed` | | `Spec => []CompleteLeavesNothingOpen` |
| `CertainStay` | | `Spec => CertainSectionsStay` |
| `ValidatorSound` | | `Spec => []ValidatedWorkflowsLeadOn` |

The invariant of the state machine is only that the workflow is one of `Workflows`; all the rest is
about functions defined by recursion, for arguments of any size. The provers cannot use the library's
induction theorems (they take an operator), but they can use its theorem that `<` is
well founded on `Nat`, whose parameter is a relation: a set of counterexamples has a least one.

1. `RoundsExist`: a function defined by recursion on `0 .. n` exists and satisfies its equation,
   since a least `n` without one would extend the function of `n - 1`. With it `ResolveSections` and
   `Visits` can be unfolded.
2. `Led` is the least set closed under the steps, with the three facts that make it one: the start
   is in it, it is closed, and it is in every closed set.
3. `WalkFinds`: the sections the walk records are on nodes it was led to, and where it stops well
   it has passed all of them. `NoReturn`: a walk that stops visits no node twice (a
   node met again would have to stop sooner than itself), so that `WalkEnds` within `Hops`
   of them: as many different nodes as the walk made hops, and one more, are not there.
   `ResolverExact` follows. `CompleteIsClosed` reads the progress of sections off it, and
   `CertainStay` compares two walks: answering one more question changes only the step of a condition
   the first walk stopped at. A condition that fails is a node the walk was led to and cannot leave, so it
   is found by the same argument as a dangling id.
4. `Searched` is what the queue of `Visits` is after `n` rounds: no id twice, all of them led to, and the
   successors of the first `n` in it. `SearchCompletes`: the rounds outnumber the places, and a queue
   without repetitions is an injection into them, so that it has been read to its end and is closed.
   `BeforeLeadsTo`: an id that stands before another in the queue is led to by steps that avoid the
   other. `ValidatorSound` puts these together with what `Activate` and `Validate` ask of nodes.

`AnswerValues`, for any questions, bodies of updates, sent values and number of requests, under
`EditsAssumption` (what a request is parsed to is a list, an object or a day of the calendar, and
NULL is none of them):

| theorem | module | statement |
| --- | --- | --- |
| `AnswersKept` | `AnswerValues_proofs` | `ValuesSpec => []AnswersReadBack` |
| `RankingsFollow` | | `ValuesSpec => RankedWereSelected` |

`ValuesInv` is inductive. `RowInv`: every question is one that `Generate` made from a body, so that it
can be built (`RowIsBuilt`). `PatchOk`: a request under way has well formed values and the questions
as they were when it read them; from `ResolveRankingChoices` on, its rankings have the choices that
`RankedFrom` takes out of the same request, or out of the answers as it saw them (`Ranks`).
`ValueOk`: a stored answer is what its question, as it was then, makes of some sent value. That value is
what the rest is argued from. `SentAgain` and `OtherTextFound`: the ids a choice sends back pick the same
choices, and the text of the first "other" one is the text all of them were stored with.
`RanksBelow` counts the ranks below one, so that sorting by rank gives the order the ranking was sent in
(`RankedInOrder`). `DateAgain`: a year with the missing parts taken from January the first is a day of
the calendar. `RankedAreSelected` follows a ranking's ids through `Ranks` to the answer of its source,
which is in the same request or unchanged since it was read.

Only model-checked: the liveness properties, `RequestsAnswered` of the organisations, accounts and
content and `ServerComesUp` of the organisations. They rest on fairness and `ENABLED`, which
these provers cannot use. Every other property of a run that passes is proved. Of the four runs
that expect a violation, two check what holds under an assumption and is proved under it
(`AtMostOnePerUser`, `AtMostOneActive`); the other two show what the code does not keep.

## Not modelled, and what is left

What a next extension could take:

1. Responses judged by a workflow that is edited meanwhile: the lifecycle with the latest version
   as a variable, a composition of `ResponseLifecycle` and `WorkflowVersions`.

Not modelled:

* Creation of forms, their texts, dressing, fonts and cover images, markdown: data that no property
  here is about.
* `internal/inbox` and `internal/distribute`: flags set by single statements; publishing does not
  call them at this commit.
* The form-owner and response middleware: they read rows that never change. The availability and role
  middleware, whose answers go stale, are in `ResponseLifecycle` and `Organisations`.
* Signing of tokens, cookies and the providers' protocols; a token is what it says.
* Read-only lists and exports.
* Configuration and the wiring of routes, but for the order of middleware, which the models follow.
