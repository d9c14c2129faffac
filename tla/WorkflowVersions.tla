-------------------------- MODULE WorkflowVersions --------------------------
(***************************************************************************)
(* The versions of one form's workflow, the requests that edit them and    *)
(* the one that publishes the form (internal/form/workflow/service.go and  *)
(* queries.sql, internal/publish/service.go).                              *)
(*                                                                         *)
(* Every query is one SQL statement under READ COMMITTED, and a statement  *)
(* is not atomic here.  It begins with a snapshot, in which it looks for   *)
(* the latest version; it waits for the lock of that row (FOR UPDATE), and *)
(* from then on sees the row as it has become, but every other row still   *)
(* as in the snapshot.  Begin and the four statements are these two        *)
(* moments; what a statement changes it changes when it commits.           *)
(*                                                                         *)
(* A workflow is the set of its nodes and the set of those that are wired: *)
(* with the edges and the condition rule that node validation asks for.    *)
(***************************************************************************)
EXTENDS Naturals

CONSTANTS
    Requests,        \* the requests the server can be serving at a time
    Versions,        \* ids of workflow_versions (random UUIDs: never used twice)
    StartNode, EndNode,
    SectionNodes,    \* ids of section nodes, and of the rows of sections
    ConditionNodes,  \* ids of condition nodes
    NoNode,          \* the node of a request that names none
    Statuses,        \* the statuses Archive, Unarchive and Close set
    MaxStatements,   \* bound: the statements that begin in a behaviour
    Overlap,         \* FALSE: a statement begins only when none is under way
    OneEditor        \* TRUE: an editor waits for an answer before asking again

Nodes     == {StartNode, EndNode} \union SectionNodes \union ConditionNodes
Workflows == [nodes : SUBSET Nodes, wired : SUBSET Nodes]

ASSUME VersionsAssumption ==
    /\ StartNode # EndNode
    /\ {StartNode, EndNode} \intersect (SectionNodes \union ConditionNodes) = {}
    /\ SectionNodes \intersect ConditionNodes = {}
    /\ NoNode \notin Nodes
    /\ Statuses \subseteq {"draft", "archived", "closed"}
    /\ MaxStatements \in Nat
    /\ Overlap \in BOOLEAN
    /\ OneEditor \in BOOLEAN

VARIABLES
    status,     \* of the form
    versions,   \* the rows of workflow_versions
    sections,   \* the ids of the rows of sections
    job,        \* what each request is doing
    clock       \* now() of the last statement that began

vars == <<status, versions, sections, job, clock>>

-----------------------------------------------------------------------------
(* Workflows and versions                                                  *)

Empty     == [nodes |-> {}, wired |-> {}]
Initially == [nodes |-> {StartNode, EndNode}, wired |-> {StartNode}]
NoVersion == [exists |-> FALSE, active |-> FALSE, workflow |-> Empty, updated |-> 0]

\* Validate: one start node, one end node, and every edge leads to a node.
ValidDraft(w) == {StartNode, EndNode} \subseteq w.nodes

\* The validator's Activate: every node is also valid by itself.  (That the walk
\* reaches it is only a warning.)
ValidToActivate(w) == ValidDraft(w) /\ w.nodes \ {EndNode} \subseteq w.wired

\* Get: the latest row by updated_at.  now() differs between statements, so the tie
\* breakers is_active and seq decide nothing here; they do inside one transaction.
Latest(rows, v) ==
    /\ rows[v].exists
    /\ \A other \in Versions : rows[other].exists => rows[other].updated <= rows[v].updated

\* current_active: the latest among the active rows.
LatestActive(rows, v) ==
    /\ rows[v].active
    /\ \A other \in Versions : rows[other].active => rows[other].updated <= rows[v].updated

-----------------------------------------------------------------------------
(* Requests                                                                *)

Idle == [kind |-> "none", at |-> "idle", node |-> NoNode, sent |-> Empty,
         seen |-> [v \in Versions |-> NoVersion], stamp |-> 0]

At(p, point) == job[p].at = point
Answered(p)  == job' = [job EXCEPT ![p] = Idle]

\* A request arrives and passes the checks before its first statement: for edits
\* CheckAvailable (the deadline left out), for publishing that the form is a draft.
Arrive(p, kind, at, node) ==
    /\ job[p] = Idle
    /\ OneEditor => \A other \in Requests : job[other] = Idle
    /\ job' = [job EXCEPT ![p] = [Idle EXCEPT !.kind = kind, !.at = at, !.node = node]]
    /\ UNCHANGED <<status, versions, sections, clock>>

ArriveUpdate(p) == status \in {"draft", "published"} /\ Arrive(p, "update", "read", NoNode)

\* gen_random_uuid: an id that nothing has.
Fresh(node) == /\ node \notin sections
               /\ \A v \in Versions : node \notin versions[v].workflow.nodes
               /\ \A p \in Requests : node # job[p].node /\ node \notin job[p].sent.nodes

ArriveCreateNode(p, node) ==
    /\ status \in {"draft", "published"}
    /\ node \in SectionNodes \union ConditionNodes
    /\ Fresh(node)
    /\ Arrive(p, "create", "write", node)

\* Any node may be deleted, the start and end nodes too.
ArriveDeleteNode(p, node) ==
    status \in {"draft", "published"} /\ Arrive(p, "delete", "write", node)

ArrivePublish(p) == status = "draft" /\ Arrive(p, "publish", "get", NoNode)

\* Update compares the client's workflow with the one it reads: the nodes must be the
\* same, the whole must pass Validate, and if the latest version is active and the
\* two are structurally equal there is nothing to write.  Structurally different ones
\* may have the same nodes and wired ones here.
ReadForUpdate(p) ==
    /\ At(p, "read")
    /\ \E v \in Versions, wired \in SUBSET (Nodes \ {EndNode}) :
          LET given == [nodes |-> versions[v].workflow.nodes, wired |-> wired] IN
          /\ Latest(versions, v)
          /\ wired \subseteq given.nodes
          /\ ValidDraft(given)
          /\ \/ versions[v].active /\ given = versions[v].workflow /\ Answered(p)
             \/ job' = [job EXCEPT ![p] = [job[p] EXCEPT !.at = "write", !.sent = given]]
    /\ UNCHANGED <<status, versions, sections, clock>>

\* Mutant: publishing validates the workflow as a draft.
MayActivate_Draft(w) == ValidDraft(w)

MayActivate(w) == ValidToActivate(w)

\* PublishForm reads the latest workflow and validates it for activation.
ReadForPublish(p) ==
    /\ At(p, "get")
    /\ \E v \in Versions :
          /\ Latest(versions, v)
          /\ MayActivate(versions[v].workflow)
          /\ job' = [job EXCEPT ![p] = [job[p] EXCEPT !.at = "write",
                                                      !.sent = versions[v].workflow]]
    /\ UNCHANGED <<status, versions, sections, clock>>

-----------------------------------------------------------------------------
(* Statements                                                              *)

\* A statement begins: its snapshot and its now().
Begin(p) ==
    /\ At(p, "write")
    /\ Overlap \/ \A other \in Requests : ~At(other, "running")
    /\ clock < MaxStatements
    /\ clock' = clock + 1
    /\ job' = [job EXCEPT ![p] = [job[p] EXCEPT !.at = "running", !.seen = versions,
                                                !.stamp = clock + 1]]
    /\ UNCHANGED <<status, versions, sections>>

\* Mutant: whether the locked row is a draft is decided by the snapshot.
IsDraft_Snapshot(p, v) == ~job[p].seen[v].active

\* The locked row, as it has become, is a draft.
IsDraft(p, v) == ~versions[v].active

Row(p, workflow, active) ==
    [exists |-> TRUE, active |-> active, workflow |-> workflow, updated |-> job[p].stamp]

\* Where a statement that found v the latest writes: into v if that is a draft, into
\* a new row otherwise.
Target(p, v, target) == IF IsDraft(p, v) THEN target = v ELSE ~versions[target].exists

\* The UPDATE, CreateNode and DeleteNode queries: the workflow of the latest version
\* becomes Edit(it), in place or as a new draft.
Rewrite(p, Edit(_)) ==
    \E v \in Versions, target \in Versions :
        /\ Latest(job[p].seen, v)
        /\ Target(p, v, target)
        /\ versions' = [versions EXCEPT ![target] = Row(p, Edit(versions[v].workflow), FALSE)]

Running(p, kind) == At(p, "running") /\ job[p].kind = kind

Update(p) ==
    LET Sent(w) == job[p].sent IN
    /\ Running(p, "update")
    /\ Rewrite(p, Sent)
    /\ Answered(p)
    /\ UNCHANGED <<status, sections, clock>>

\* The new node is not wired.  The service validates the result after it is written;
\* a refusal changes the answer only.
CreateNode(p) ==
    LET Added(w) == [w EXCEPT !.nodes = @ \union {job[p].node}] IN
    /\ Running(p, "create")
    /\ Rewrite(p, Added)
    /\ sections' = sections \union ({job[p].node} \intersect SectionNodes)
    /\ Answered(p)
    /\ UNCHANGED <<status, clock>>

\* Mutant: a deleted section node leaves its row in sections.
SectionsWithout_Kept(node, w) == sections

\* The section goes with its node, if the latest workflow has such a node.
SectionsWithout(node, w) == IF node \in w.nodes THEN sections \ {node} ELSE sections

\* Mutant: the node goes and what it was wired with stays.
Wired_Kept(w, node, cut) == w.wired \ cut

\* Without the node, the nodes that led to it or asked a question of its section are
\* no longer wired.
Wired(w, node, cut) == w.wired \ (cut \union {node})

\* Deleting also validates only what it has written.
DeleteNode(p) ==
    /\ Running(p, "delete")
    /\ \E v \in Versions, cut \in SUBSET Nodes :
          LET node == job[p].node
              Without(w) == [nodes |-> w.nodes \ {node}, wired |-> Wired(w, node, cut)] IN
          /\ Latest(job[p].seen, v)
          /\ cut \subseteq versions[v].workflow.wired
          /\ node \notin versions[v].workflow.nodes => cut = {}
          /\ Rewrite(p, Without)
          /\ sections' = SectionsWithout(node, versions[v].workflow)
    /\ Answered(p)
    /\ UNCHANGED <<status, clock>>

\* Mutants: no version is deactivated; every active one is, the new one included.
Deactivated_None(p, target, row) == [versions EXCEPT ![target] = row]
Deactivated_All(p, target, row) ==
    [v \in Versions |-> [(IF v = target THEN row ELSE versions[v]) EXCEPT !.active = FALSE]]

\* deactivated: the rows that were active in the snapshot, but for the one written,
\* which one statement does not write twice.
Deactivated(p, target, row) ==
    [v \in Versions |->
        IF v = target THEN row
        ELSE IF job[p].seen[v].active THEN [versions[v] EXCEPT !.active = FALSE]
        ELSE versions[v]]

\* Whether the request's workflow is already the active one: current_active by the
\* snapshot, the latest version by its lock.  The lock of the form's row that stands
\* first in the query is in a WITH nothing refers to, which PostgreSQL does not run.
\* It compares all of the two, so here it may as well find a difference.
Unchanged(p, v) ==
    /\ versions[v].active
    /\ \E active \in Versions : /\ LatestActive(job[p].seen, active)
                                /\ job[p].seen[active].workflow = job[p].sent

Activate(p) ==
    /\ Running(p, "publish")
    /\ \E v \in Versions :
          /\ Latest(job[p].seen, v)
          /\ \/ Unchanged(p, v) /\ UNCHANGED versions
             \/ \E target \in Versions :
                   /\ Target(p, v, target)
                   /\ versions' = Deactivated(p, target, Row(p, job[p].sent, TRUE))
    /\ job' = [job EXCEPT ![p] = [Idle EXCEPT !.kind = "publish", !.at = "status"]]
    /\ UNCHANGED <<status, sections, clock>>

\* The last statement of PublishForm sets the status, whatever it has become.
Publish(p) ==
    /\ At(p, "status")
    /\ status' = "published"
    /\ Answered(p)
    /\ UNCHANGED <<versions, sections, clock>>

\* The request is refused, cancelled or lost; a statement under way is rolled back.
Drop(p) ==
    /\ job[p] # Idle
    /\ Answered(p)
    /\ UNCHANGED <<status, versions, sections, clock>>

\* Archive, Unarchive, Close.
SetStatus(new) ==
    /\ status' = new
    /\ UNCHANGED <<versions, sections, job, clock>>

-----------------------------------------------------------------------------
(* The specification                                                       *)

\* Creating a form creates a draft with a start and an end node.
Init ==
    /\ status = "draft"
    /\ \E v \in Versions :
          versions = [u \in Versions |->
                        IF u = v THEN [NoVersion EXCEPT !.exists = TRUE,
                                                        !.workflow = Initially]
                        ELSE NoVersion]
    /\ sections = {}
    /\ job = [p \in Requests |-> Idle]
    /\ clock = 0

Arrivals(p) ==
    \/ ArriveUpdate(p)
    \/ ArrivePublish(p)
    \/ \E node \in Nodes : ArriveCreateNode(p, node) \/ ArriveDeleteNode(p, node)

Serve(p) ==
    \/ ReadForUpdate(p) \/ ReadForPublish(p) \/ Begin(p)
    \/ Update(p) \/ CreateNode(p) \/ DeleteNode(p) \/ Activate(p)
    \/ Publish(p)

Next ==
    \/ \E p \in Requests : Arrivals(p) \/ Serve(p) \/ Drop(p)
    \/ \E new \in Statuses : SetStatus(new)

Spec == Init /\ [][Next]_vars

-----------------------------------------------------------------------------
(* Properties                                                              *)

Rows == [exists : BOOLEAN, active : BOOLEAN, workflow : Workflows, updated : Nat]

\* Every variable has its type, only nodes of a workflow are wired in it, and only
\* versions that exist are active.
TypeOK ==
    /\ status \in {"draft", "published", "archived", "closed"}
    /\ versions \in [Versions -> Rows]
    /\ \A v \in Versions : /\ versions[v].active => versions[v].exists
                           /\ versions[v].workflow.wired \subseteq versions[v].workflow.nodes
    /\ sections \subseteq SectionNodes
    /\ job \in [Requests -> [kind : {"none", "update", "create", "delete", "publish"},
                             at : {"idle", "read", "get", "write", "running", "status"},
                             node : Nodes \union {NoNode}, sent : Workflows,
                             seen : [Versions -> Rows], stamp : Nat]]
    /\ clock \in 0..MaxStatements

\* However edits and publications overlap, an active version holds a workflow that
\* passed the validation for activation: an edit that lost the race to Activate does
\* not get into the version that became active.
ActivesAreValid ==
    \A v \in Versions : versions[v].active => ValidToActivate(versions[v].workflow)

\* A published form has an active workflow: the statuses of the form and of its
\* versions are set by separate statements, among those of others.
PublishedHasActive == status = "published" => \E v \in Versions : versions[v].active

\* "Lock the form row to serialize activations per form": at most one version of a
\* form is active.
AtMostOneActive ==
    \A v1, v2 \in Versions : versions[v1].active /\ versions[v2].active => v1 = v2

\* The sections of the form are the section nodes of the latest workflow, from which
\* respondents' sections are resolved.
SectionsHaveNodes ==
    \A v \in Versions : Latest(versions, v) =>
        versions[v].workflow.nodes \intersect SectionNodes = sections

FrozenWhileActive ==
    \A v \in Versions : versions[v].active /\ versions'[v].active =>
        versions'[v].workflow = versions[v].workflow

\* The workflow of a version never changes while the version is active: edits of a
\* published workflow make a draft of their own.
ActiveVersionsStay == [][FrozenWhileActive]_vars
=============================================================================
