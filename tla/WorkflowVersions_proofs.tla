----------------------- MODULE WorkflowVersions_proofs -----------------------
(***************************************************************************)
(* Theorems about WorkflowVersions, for any sets of requests, versions and  *)
(* nodes and any number of statements.                                      *)
(***************************************************************************)
EXTENDS WorkflowVersions, TLAPS

-----------------------------------------------------------------------------
(* Types, and what a request carries                                       *)

Jobs == [kind : {"none", "update", "create", "delete", "publish"},
         at : {"idle", "read", "get", "write", "running", "status"},
         node : Nodes \union {NoNode}, sent : Workflows,
         seen : [Versions -> Rows], stamp : Nat]

WellWired(w) == w \in Workflows /\ w.wired \subseteq w.nodes

\* What a request writes is well wired, and what it activates was validated.
JobOK(j) ==
    /\ j \in Jobs
    /\ j.kind \in {"create", "delete"} => j.node \in Nodes
    /\ WellWired(j.sent)
    /\ j.at = "read" => j.kind = "update"
    /\ j.kind = "publish" /\ j.at \in {"write", "running"} => ValidToActivate(j.sent)

JobsOK == job \in [Requests -> Jobs] /\ \A p \in Requests : JobOK(job[p])

VersionOK(row) == /\ row \in Rows
                  /\ row.active => row.exists
                  /\ WellWired(row.workflow)

VersionsOK == versions \in [Versions -> Rows] /\ \A v \in Versions : VersionOK(versions[v])

TypeInv == /\ status \in {"draft", "published", "archived", "closed"}
           /\ VersionsOK
           /\ sections \subseteq SectionNodes
           /\ JobsOK
           /\ clock \in 0..MaxStatements

LEMMA EmptyOK == WellWired(Empty) /\ WellWired(Initially)
  BY DEF WellWired, Workflows, Empty, Initially, Nodes

LEMMA NoVersionOK == VersionOK(NoVersion) /\ NoVersion \in Rows
  BY EmptyOK DEF VersionOK, NoVersion, Rows, WellWired

LEMMA IdleOK == JobOK(Idle) /\ Idle \in Jobs /\ Idle.at = "idle" /\ Idle.kind = "none"
  BY EmptyOK, NoVersionOK DEF JobOK, Jobs, Idle, WellWired

LEMMA JobsStep ==
    ASSUME TypeInv, NEW p \in Requests, NEW j, JobOK(j), job' = [job EXCEPT ![p] = j]
    PROVE  JobsOK'
  BY DEF TypeInv, JobsOK, JobOK

LEMMA TypeInit == Init => TypeInv
  <1> SUFFICES ASSUME Init PROVE TypeInv
    OBVIOUS
  <1>1. VersionsOK
    <2> DEFINE First == [NoVersion EXCEPT !.exists = TRUE, !.workflow = Initially]
    <2>1. VersionOK(First) /\ First \in Rows
      BY EmptyOK DEF VersionOK, NoVersion, Rows, WellWired
    <2>2. PICK v \in Versions :
             versions = [u \in Versions |-> IF u = v THEN First ELSE NoVersion]
      BY DEF Init
    <2> HIDE DEF First
    <2> QED BY <2>1, <2>2, NoVersionOK DEF VersionsOK
  <1>2. JobsOK
    BY IdleOK DEF Init, JobsOK
  <1> QED BY <1>1, <1>2, VersionsAssumption DEF Init, TypeInv

-----------------------------------------------------------------------------
(* What a statement writes                                                 *)

\* An edit writes one row that is not active, and leaves it so.
Edits(p) ==
    \E target \in Versions, w \in Workflows :
        /\ ~versions[target].active
        /\ WellWired(w)
        /\ versions' = [versions EXCEPT ![target] = Row(p, w, FALSE)]

\* Activation finds its workflow active, or writes it to a row that is not active and
\* deactivates what it saw active.
Activates(p) ==
    \/ UNCHANGED versions /\ \E v \in Versions : versions[v].active
    \/ \E target \in Versions :
          /\ ~versions[target].active
          /\ versions' = Deactivated(p, target, Row(p, job[p].sent, TRUE))

LEMMA TargetIsInactive ==
    ASSUME TypeInv, NEW p \in Requests, NEW v \in Versions, NEW target \in Versions,
           Target(p, v, target)
    PROVE  ~versions[target].active
  BY DEF TypeInv, VersionsOK, VersionOK, Target, IsDraft

LEMMA EditsWrite ==
    ASSUME TypeInv, NEW p \in Requests, Update(p) \/ CreateNode(p) \/ DeleteNode(p)
    PROVE  Edits(p)
  <1> USE DEF TypeInv
  <1>1. CASE Update(p)
    <2>1. PICK v \in Versions, target \in Versions :
             /\ Target(p, v, target)
             /\ versions' = [versions EXCEPT ![target] = Row(p, job[p].sent, FALSE)]
      BY <1>1 DEF Update, Rewrite
    <2>2. WellWired(job[p].sent) /\ job[p].sent \in Workflows
      BY DEF JobsOK, JobOK, Jobs
    <2> QED BY <2>1, <2>2, TargetIsInactive DEF Edits
  <1>2. CASE CreateNode(p)
    <2> DEFINE Added(w) == [w EXCEPT !.nodes = @ \union {job[p].node}]
    <2>1. PICK v \in Versions, target \in Versions :
             /\ Target(p, v, target)
             /\ versions' = [versions EXCEPT ![target] =
                                Row(p, Added(versions[v].workflow), FALSE)]
      BY <1>2 DEF CreateNode, Rewrite
    <2>2. job[p].node \in Nodes
      BY <1>2 DEF CreateNode, Running, JobsOK, JobOK
    <2>3. WellWired(Added(versions[v].workflow))
      BY <2>2 DEF VersionsOK, VersionOK, WellWired, Workflows
    <2>4. Added(versions[v].workflow) \in Workflows
      BY <2>3 DEF WellWired
    <2> QED BY <2>1, <2>3, <2>4, TargetIsInactive DEF Edits
  <1>3. CASE DeleteNode(p)
    <2> DEFINE Without(w, cut) == [nodes |-> w.nodes \ {job[p].node},
                                   wired |-> Wired(w, job[p].node, cut)]
    <2>1. PICK v \in Versions, target \in Versions, cut \in SUBSET Nodes :
             /\ Target(p, v, target)
             /\ versions' = [versions EXCEPT ![target] =
                                Row(p, Without(versions[v].workflow, cut), FALSE)]
      BY <1>3 DEF DeleteNode, Rewrite
    <2>2. WellWired(Without(versions[v].workflow, cut))
      BY DEF VersionsOK, VersionOK, WellWired, Workflows, Wired
    <2>3. Without(versions[v].workflow, cut) \in Workflows
      BY <2>2 DEF WellWired
    <2> QED BY <2>1, <2>2, <2>3, TargetIsInactive DEF Edits
  <1> QED BY <1>1, <1>2, <1>3

LEMMA ActivateWrites ==
    ASSUME TypeInv, NEW p \in Requests, Activate(p)
    PROVE  Activates(p)
  BY TargetIsInactive DEF Activate, Activates, Unchanged

-----------------------------------------------------------------------------
(* Type correctness                                                        *)

LEMMA RowOK ==
    ASSUME TypeInv, NEW p \in Requests, NEW w, WellWired(w), NEW active \in BOOLEAN
    PROVE  VersionOK(Row(p, w, active)) /\ Row(p, w, active) \in Rows
  <1>1. job[p].stamp \in Nat
    BY DEF TypeInv, JobsOK, Jobs
  <1> QED BY <1>1 DEF VersionOK, Row, Rows, WellWired

LEMMA EditedVersionsOK ==
    ASSUME TypeInv, NEW p \in Requests, Edits(p)
    PROVE  VersionsOK'
  <1>1. PICK target \in Versions, w \in Workflows :
           /\ WellWired(w)
           /\ versions' = [versions EXCEPT ![target] = Row(p, w, FALSE)]
    BY DEF Edits
  <1>2. VersionOK(Row(p, w, FALSE)) /\ Row(p, w, FALSE) \in Rows
    BY <1>1, RowOK
  <1> QED BY <1>1, <1>2 DEF TypeInv, VersionsOK

LEMMA ActivatedVersionsOK ==
    ASSUME TypeInv, NEW p \in Requests, Activates(p)
    PROVE  VersionsOK'
  <1> USE DEF TypeInv
  <1>1. CASE UNCHANGED versions
    BY <1>1 DEF VersionsOK
  <1>2. ASSUME NEW target \in Versions,
               versions' = Deactivated(p, target, Row(p, job[p].sent, TRUE))
        PROVE  VersionsOK'
    <2> DEFINE new == Row(p, job[p].sent, TRUE)
    <2>1. VersionOK(new) /\ new \in Rows
      BY RowOK DEF JobsOK, JobOK
    <2>2. ASSUME NEW v \in Versions
          PROVE  LET off == [versions[v] EXCEPT !.active = FALSE]
                 IN  VersionOK(off) /\ off \in Rows
      BY DEF VersionsOK, VersionOK, Rows, WellWired
    <2> HIDE DEF new
    <2>3. versions' = Deactivated(p, target, new)
      BY <1>2 DEF new
    <2> QED BY <2>1, <2>2, <2>3 DEF VersionsOK, Deactivated
  <1> QED BY <1>1, <1>2 DEF Activates

\* Every step leaves the requests as they are or gives one of them a new job.
LEMMA JobsMove ==
    ASSUME TypeInv, Next
    PROVE  JobsOK'
  <1> USE DEF TypeInv
  <1>1. ASSUME NEW p \in Requests, Answered(p) PROVE JobsOK'
    BY <1>1, IdleOK, JobsStep DEF Answered
  <1>2. ASSUME NEW p \in Requests, Arrivals(p) PROVE JobsOK'
    <2>1. ASSUME NEW kind \in {"update", "create", "delete", "publish"},
                 NEW at \in {"read", "get", "write"}, NEW node \in Nodes \union {NoNode},
                 Arrive(p, kind, at, node),
                 kind \in {"create", "delete"} => node \in Nodes,
                 at = "read" => kind = "update",
                 kind = "publish" => at = "get"
          PROVE  JobsOK'
      <3> DEFINE j == [Idle EXCEPT !.kind = kind, !.at = at, !.node = node]
      <3>1. JobOK(j)
        <4>1. j \in Jobs
          BY IdleOK DEF Jobs, Idle
        <4>2. j.sent = Idle.sent /\ j.kind = kind /\ j.at = at /\ j.node = node
          BY DEF Idle
        <4> QED BY <2>1, <4>1, <4>2, IdleOK DEF JobOK
      <3>2. job' = [job EXCEPT ![p] = j]
        BY <2>1 DEF Arrive
      <3> HIDE DEF j
      <3> QED BY <3>1, <3>2, JobsStep
    <2>2. CASE ArriveUpdate(p)
      BY <2>1, <2>2 DEF ArriveUpdate
    <2>3. CASE ArrivePublish(p)
      BY <2>1, <2>3 DEF ArrivePublish
    <2>4. ASSUME NEW node \in Nodes, ArriveCreateNode(p, node) PROVE JobsOK'
      BY <2>1, <2>4 DEF ArriveCreateNode
    <2>5. ASSUME NEW node \in Nodes, ArriveDeleteNode(p, node) PROVE JobsOK'
      BY <2>1, <2>5 DEF ArriveDeleteNode
    <2> QED BY <1>2, <2>2, <2>3, <2>4, <2>5 DEF Arrivals
  <1>3. ASSUME NEW p \in Requests, ReadForUpdate(p) PROVE JobsOK'
    <2>1. PICK v \in Versions, wired \in SUBSET (Nodes \ {EndNode}) :
             LET given == [nodes |-> versions[v].workflow.nodes, wired |-> wired] IN
             /\ wired \subseteq given.nodes
             /\ \/ Answered(p)
                \/ job' = [job EXCEPT ![p] = [job[p] EXCEPT !.at = "write", !.sent = given]]
      BY <1>3 DEF ReadForUpdate
    <2> DEFINE given == [nodes |-> versions[v].workflow.nodes, wired |-> wired]
               j == [job[p] EXCEPT !.at = "write", !.sent = given]
    <2>2. WellWired(given)
      BY <2>1 DEF WellWired, Workflows, VersionsOK, VersionOK
    <2>3. job[p].kind = "update"
      BY <1>3 DEF ReadForUpdate, At, JobsOK, JobOK
    <2>4. given \in Workflows
      BY <2>2 DEF WellWired
    <2>5. JobOK(j)
      <3>1. /\ j \in Jobs
            /\ j.kind = "update" /\ j.at = "write" /\ j.sent = given
        BY <2>3, <2>4 DEF JobsOK, Jobs
      <3> HIDE DEF j, given
      <3> QED BY <3>1, <2>2 DEF JobOK
    <2>6. CASE Answered(p)
      BY <1>1, <2>6
    <2>7. CASE job' = [job EXCEPT ![p] = j]
      <3> HIDE DEF j
      <3> QED BY <2>5, <2>7, JobsStep
    <2> QED BY <2>1, <2>6, <2>7
  <1>4. ASSUME NEW p \in Requests, ReadForPublish(p) PROVE JobsOK'
    <2>1. PICK v \in Versions :
             /\ ValidToActivate(versions[v].workflow)
             /\ job' = [job EXCEPT ![p] = [job[p] EXCEPT !.at = "write",
                                                        !.sent = versions[v].workflow]]
      BY <1>4 DEF ReadForPublish, MayActivate
    <2> DEFINE w == versions[v].workflow
               j == [job[p] EXCEPT !.at = "write", !.sent = w]
    <2>2. WellWired(w) /\ w \in Workflows
      BY DEF WellWired, VersionsOK, VersionOK
    <2>3. JobOK(j)
      <3>1. /\ j \in Jobs
            /\ j.kind = job[p].kind /\ j.at = "write" /\ j.sent = w /\ j.node = job[p].node
        BY <2>2 DEF JobsOK, Jobs
      <3>2. ValidToActivate(w)
        BY <2>1
      <3> HIDE DEF j, w
      <3> QED BY <3>1, <3>2, <2>2 DEF JobsOK, JobOK
    <2>4. job' = [job EXCEPT ![p] = j]
      BY <2>1
    <2> HIDE DEF j
    <2> QED BY <2>3, <2>4, JobsStep
  <1>5. ASSUME NEW p \in Requests, Begin(p) PROVE JobsOK'
    <2> DEFINE j == [job[p] EXCEPT !.at = "running", !.seen = versions, !.stamp = clock + 1]
    <2>1. JobOK(j)
      <3>1. /\ j \in Jobs
            /\ j.kind = job[p].kind /\ j.at = "running" /\ j.sent = job[p].sent
            /\ j.node = job[p].node
        <4>1. job[p] \in Jobs
          BY DEF JobsOK
        <4>2. versions \in [Versions -> Rows] /\ clock + 1 \in Nat
          BY VersionsAssumption DEF VersionsOK
        <4> QED BY <4>1, <4>2 DEF Jobs
      <3>2. JobOK(job[p]) /\ job[p].at = "write"
        BY <1>5 DEF Begin, At, JobsOK
      <3> HIDE DEF j
      <3> QED BY <3>1, <3>2 DEF JobOK
    <2>2. job' = [job EXCEPT ![p] = j]
      BY <1>5 DEF Begin
    <2> HIDE DEF j
    <2> QED BY <2>1, <2>2, JobsStep
  <1>6. ASSUME NEW p \in Requests, Activate(p) PROVE JobsOK'
    <2> DEFINE j == [Idle EXCEPT !.kind = "publish", !.at = "status"]
    <2>1. JobOK(j)
      <3>1. j \in Jobs /\ j.kind = "publish" /\ j.at = "status" /\ j.sent = Idle.sent
        BY IdleOK DEF Jobs, Idle
      <3> HIDE DEF j
      <3> QED BY <3>1, IdleOK DEF JobOK
    <2>2. job' = [job EXCEPT ![p] = j]
      BY <1>6 DEF Activate
    <2> HIDE DEF j
    <2> QED BY <2>1, <2>2, JobsStep
  <1>7. ASSUME NEW p \in Requests,
               Update(p) \/ CreateNode(p) \/ DeleteNode(p) \/ Publish(p) \/ Drop(p)
        PROVE  JobsOK'
    BY <1>1, <1>7 DEF Update, CreateNode, DeleteNode, Publish, Drop
  <1>8. ASSUME NEW new \in Statuses, SetStatus(new) PROVE JobsOK'
    BY <1>8 DEF SetStatus, JobsOK
  <1> QED BY <1>2, <1>3, <1>4, <1>5, <1>6, <1>7, <1>8 DEF Next, Serve

\* What a step does to the versions: an edit, an activation, or nothing.
LEMMA VersionsMove ==
    ASSUME TypeInv, Next
    PROVE  \/ UNCHANGED versions
           \/ \E p \in Requests : Edits(p)
           \/ \E p \in Requests : Activate(p) /\ Activates(p)
  <1>1. ASSUME NEW p \in Requests, Arrivals(p) PROVE UNCHANGED versions
    BY <1>1 DEF Arrivals, ArriveUpdate, ArrivePublish, ArriveCreateNode, ArriveDeleteNode,
                Arrive
  <1>2. ASSUME NEW p \in Requests,
               ReadForUpdate(p) \/ ReadForPublish(p) \/ Begin(p) \/ Publish(p) \/ Drop(p)
        PROVE  UNCHANGED versions
    BY <1>2 DEF ReadForUpdate, ReadForPublish, Begin, Publish, Drop
  <1>3. ASSUME NEW new \in Statuses, SetStatus(new) PROVE UNCHANGED versions
    BY <1>3 DEF SetStatus
  <1> QED BY <1>1, <1>2, <1>3, EditsWrite, ActivateWrites DEF Next, Serve

LEMMA TypeStep == TypeInv /\ [Next]_vars => TypeInv'
  <1> SUFFICES ASSUME TypeInv, [Next]_vars PROVE TypeInv'
    OBVIOUS
  <1>1. CASE UNCHANGED vars
    BY <1>1 DEF vars, TypeInv, VersionsOK, JobsOK
  <1>2. CASE Next
    <2>1. VersionsOK'
      BY <1>2, VersionsMove, EditedVersionsOK, ActivatedVersionsOK DEF TypeInv, VersionsOK
    <2>2. JobsOK'
      BY <1>2, JobsMove
    <2>3. ASSUME NEW p \in Requests, Arrivals(p) \/ Serve(p) \/ Drop(p)
          PROVE  /\ status' \in {"draft", "published", "archived", "closed"}
                 /\ clock' \in 0..MaxStatements
      <3>1. CASE Arrivals(p)
        BY <3>1 DEF TypeInv, Arrivals, ArriveUpdate, ArrivePublish, ArriveCreateNode,
                    ArriveDeleteNode, Arrive
      <3>2. CASE Begin(p)
        BY <3>2, VersionsAssumption DEF TypeInv, Begin
      <3>3. CASE Publish(p)
        BY <3>3 DEF TypeInv, Publish
      <3>4. CASE \/ ReadForUpdate(p) \/ ReadForPublish(p) \/ Update(p) \/ CreateNode(p)
                 \/ DeleteNode(p) \/ Activate(p) \/ Drop(p)
        BY <3>4 DEF TypeInv, ReadForUpdate, ReadForPublish, Update, CreateNode, DeleteNode,
                    Activate, Drop
      <3> QED BY <2>3, <3>1, <3>2, <3>3, <3>4 DEF Serve
    <2>4. ASSUME NEW p \in Requests, Arrivals(p) \/ Serve(p) \/ Drop(p)
          PROVE  sections' \subseteq SectionNodes
      <3>1. CASE Arrivals(p)
        BY <3>1 DEF TypeInv, Arrivals, ArriveUpdate, ArrivePublish, ArriveCreateNode,
                    ArriveDeleteNode, Arrive
      <3>2. CASE CreateNode(p)
        BY <3>2 DEF TypeInv, CreateNode
      <3>3. CASE DeleteNode(p)
        BY <3>3 DEF TypeInv, DeleteNode, SectionsWithout
      <3>4. CASE \/ ReadForUpdate(p) \/ ReadForPublish(p) \/ Begin(p) \/ Update(p)
                 \/ Activate(p) \/ Publish(p) \/ Drop(p)
        BY <3>4 DEF TypeInv, ReadForUpdate, ReadForPublish, Begin, Update, Activate,
                    Publish, Drop
      <3> QED BY <2>4, <3>1, <3>2, <3>3, <3>4 DEF Serve
    <2>5. ASSUME NEW new \in Statuses, SetStatus(new)
          PROVE  /\ status' \in {"draft", "published", "archived", "closed"}
                 /\ clock' \in 0..MaxStatements
                 /\ sections' \subseteq SectionNodes
      BY <2>5, VersionsAssumption DEF TypeInv, SetStatus
    <2> QED BY <1>2, <2>1, <2>2, <2>3, <2>4, <2>5 DEF Next, TypeInv
  <1> QED BY <1>1, <1>2

LEMMA TypeAlways == Spec => []TypeInv
  BY TypeInit, TypeStep, PTL DEF Spec

\* Every variable has its type in every state the program can reach.
THEOREM TypeCorrect == Spec => []TypeOK
  <1>1. TypeInv => TypeOK
    BY DEF TypeInv, TypeOK, VersionsOK, VersionOK, WellWired, JobsOK, Jobs
  <1> QED BY <1>1, TypeAlways, PTL

-----------------------------------------------------------------------------
(* Safety under every overlap of statements                                *)

\* An edit that loses the race to Activate writes a draft of its own; what becomes
\* active was validated by the request that activates it.
LEMMA ActivesStep ==
    TypeInv /\ ActivesAreValid /\ [Next]_vars => ActivesAreValid'
  <1> SUFFICES ASSUME TypeInv, ActivesAreValid, [Next]_vars PROVE ActivesAreValid'
    OBVIOUS
  <1>1. CASE UNCHANGED versions
    BY <1>1 DEF ActivesAreValid
  <1>2. ASSUME NEW p \in Requests, Edits(p) PROVE ActivesAreValid'
    <2>1. PICK target \in Versions, w \in Workflows :
             versions' = [versions EXCEPT ![target] = Row(p, w, FALSE)]
      BY <1>2 DEF Edits
    <2> QED BY <2>1 DEF ActivesAreValid, TypeInv, VersionsOK, Row
  <1>3. ASSUME NEW p \in Requests, NEW target \in Versions, Activate(p),
               versions' = Deactivated(p, target, Row(p, job[p].sent, TRUE))
        PROVE  ActivesAreValid'
    <2>1. ValidToActivate(job[p].sent)
      BY <1>3 DEF Activate, Running, At, TypeInv, JobsOK, JobOK
    <2>2. ASSUME NEW v \in Versions, v # target, versions'[v].active
          PROVE  versions[v].active /\ versions'[v].workflow = versions[v].workflow
      BY <1>3, <2>2 DEF Deactivated, TypeInv, VersionsOK, Rows
    <2>3. versions'[target].workflow = job[p].sent
      BY <1>3 DEF Deactivated, Row
    <2> QED BY <2>1, <2>2, <2>3 DEF ActivesAreValid
  <1>4. CASE UNCHANGED vars
    BY <1>1, <1>4 DEF vars
  <1> QED BY <1>1, <1>2, <1>3, <1>4, VersionsMove DEF Activates

\* However statements overlap, an active version holds a workflow that was validated
\* for activation.
THEOREM ActivesValid == Spec => []ActivesAreValid
  <1>1. Init => ActivesAreValid
    BY DEF Init, ActivesAreValid, NoVersion
  <1> QED BY <1>1, ActivesStep, TypeAlways, PTL DEF Spec

LEMMA FrozenStep == TypeInv /\ [Next]_vars => FrozenWhileActive \/ UNCHANGED vars
  <1> SUFFICES ASSUME TypeInv, Next PROVE FrozenWhileActive
    OBVIOUS
  <1>1. CASE UNCHANGED versions
    BY <1>1 DEF FrozenWhileActive
  <1>2. ASSUME NEW p \in Requests, Edits(p) PROVE FrozenWhileActive
    BY <1>2 DEF Edits, FrozenWhileActive, TypeInv, VersionsOK
  <1>3. ASSUME NEW p \in Requests, NEW target \in Versions, ~versions[target].active,
               versions' = Deactivated(p, target, Row(p, job[p].sent, TRUE))
        PROVE  FrozenWhileActive
    BY <1>3 DEF Deactivated, FrozenWhileActive, TypeInv, VersionsOK, Rows
  <1> QED BY <1>1, <1>2, <1>3, VersionsMove DEF Activates

\* The workflow of a version does not change while the version is active.
THEOREM ActiveStays == Spec => ActiveVersionsStay
  <1>1. TypeInv /\ [Next]_vars => [FrozenWhileActive]_vars
    BY FrozenStep
  <1> QED BY <1>1, TypeAlways, PTL DEF Spec, ActiveVersionsStay

\* There is an active version once the form is published or about to be.
SomeActive == \E v \in Versions : versions[v].active
ReadyToPublish == /\ status = "published" => SomeActive
                  /\ \A p \in Requests : At(p, "status") => SomeActive

LEMMA ActiveRemains ==
    ASSUME TypeInv, Next, SomeActive
    PROVE  SomeActive'
  <1>1. CASE UNCHANGED versions
    BY <1>1 DEF SomeActive
  <1>2. ASSUME NEW p \in Requests, Edits(p) PROVE SomeActive'
    BY <1>2 DEF Edits, SomeActive, TypeInv, VersionsOK
  <1>3. ASSUME NEW p \in Requests, Activates(p) PROVE SomeActive'
    BY <1>3 DEF Activates, SomeActive, Deactivated, Row
  <1> QED BY <1>1, <1>2, <1>3, VersionsMove

\* What a step does to the requests: it leaves them, or gives one of them a new job,
\* which only Begin takes into a statement and only an activation to the last one.
Proceeds(p, j) ==
    /\ job' = [job EXCEPT ![p] = j]
    /\ \/ j.at \in {"idle", "read", "get", "write"}
       \/ j.at = "running" /\ j.seen = versions /\ Begin(p)
       \/ j.at = "status" /\ Activate(p)

LEMMA RequestsMove ==
    ASSUME TypeInv, Next
    PROVE  \/ UNCHANGED job
           \/ \E p \in Requests, j \in Jobs : Proceeds(p, j)
  <1> DEFINE Goal == \E p \in Requests, j \in Jobs : Proceeds(p, j)
  <1> SUFFICES ASSUME job' # job PROVE Goal
    OBVIOUS
  <1>1. ASSUME NEW p \in Requests PROVE job[p] \in Jobs
    BY DEF TypeInv, JobsOK
  <1>2. ASSUME NEW p \in Requests, NEW j \in Jobs, job' = [job EXCEPT ![p] = j],
               \/ j.at \in {"idle", "read", "get", "write"}
               \/ j.at = "running" /\ j.seen = versions /\ Begin(p)
               \/ j.at = "status" /\ Activate(p)
        PROVE  Goal
    <2>1. Proceeds(p, j)
      BY <1>2 DEF Proceeds
    <2> QED BY <2>1
  <1> HIDE DEF Goal
  <1>3. ASSUME NEW p \in Requests, Answered(p) PROVE Goal
    BY <1>2, <1>3, IdleOK DEF Answered
  <1>4. ASSUME NEW p \in Requests, Arrivals(p) PROVE Goal
    <2>1. ASSUME NEW kind \in {"update", "create", "delete", "publish"},
                 NEW at \in {"read", "get", "write"}, NEW node \in Nodes \union {NoNode},
                 Arrive(p, kind, at, node)
          PROVE  Goal
      <3> DEFINE j == [Idle EXCEPT !.kind = kind, !.at = at, !.node = node]
      <3>1. j \in Jobs /\ j.at = at
        BY IdleOK DEF Jobs, Idle
      <3>2. job' = [job EXCEPT ![p] = j]
        BY <2>1 DEF Arrive
      <3> HIDE DEF j
      <3> QED BY <1>2, <3>1, <3>2
    <2> QED BY <1>4, <2>1 DEF Arrivals, ArriveUpdate, ArrivePublish, ArriveCreateNode,
                              ArriveDeleteNode
  <1>5. ASSUME NEW p \in Requests, NEW w \in Workflows,
               job' = [job EXCEPT ![p] = [job[p] EXCEPT !.at = "write", !.sent = w]]
        PROVE  Goal
    <2> DEFINE j == [job[p] EXCEPT !.at = "write", !.sent = w]
    <2>1. j \in Jobs /\ j.at = "write"
      BY <1>1 DEF Jobs
    <2>2. job' = [job EXCEPT ![p] = j]
      BY <1>5
    <2> HIDE DEF j
    <2> QED BY <1>2, <2>1, <2>2
  <1>6. ASSUME NEW p \in Requests, ReadForUpdate(p) PROVE Goal
    <2>1. PICK v \in Versions, wired \in SUBSET (Nodes \ {EndNode}) :
             LET given == [nodes |-> versions[v].workflow.nodes, wired |-> wired] IN
             \/ Answered(p)
             \/ job' = [job EXCEPT ![p] = [job[p] EXCEPT !.at = "write", !.sent = given]]
      BY <1>6 DEF ReadForUpdate
    <2>2. [nodes |-> versions[v].workflow.nodes, wired |-> wired] \in Workflows
      BY DEF TypeInv, VersionsOK, VersionOK, WellWired, Workflows
    <2> QED BY <1>3, <1>5, <2>1, <2>2
  <1>7. ASSUME NEW p \in Requests, ReadForPublish(p) PROVE Goal
    <2>1. PICK v \in Versions :
             job' = [job EXCEPT ![p] = [job[p] EXCEPT !.at = "write",
                                                     !.sent = versions[v].workflow]]
      BY <1>7 DEF ReadForPublish
    <2>2. versions[v].workflow \in Workflows
      BY DEF TypeInv, VersionsOK, VersionOK, WellWired
    <2> QED BY <1>5, <2>1, <2>2
  <1>8. ASSUME NEW p \in Requests, Begin(p) PROVE Goal
    <2> DEFINE j == [job[p] EXCEPT !.at = "running", !.seen = versions, !.stamp = clock + 1]
    <2>1. j \in Jobs /\ j.at = "running" /\ j.seen = versions
      <3>1. versions \in [Versions -> Rows] /\ clock + 1 \in Nat
        BY VersionsAssumption DEF TypeInv, VersionsOK
      <3> QED BY <1>1, <3>1 DEF Jobs
    <2>2. job' = [job EXCEPT ![p] = j]
      BY <1>8 DEF Begin
    <2> HIDE DEF j
    <2> QED BY <1>2, <1>8, <2>1, <2>2
  <1>9. ASSUME NEW p \in Requests, Activate(p) PROVE Goal
    <2> DEFINE j == [Idle EXCEPT !.kind = "publish", !.at = "status"]
    <2>1. j \in Jobs /\ j.at = "status"
      BY IdleOK DEF Jobs, Idle
    <2>2. job' = [job EXCEPT ![p] = j]
      BY <1>9 DEF Activate
    <2> HIDE DEF j
    <2> QED BY <1>2, <1>9, <2>1, <2>2
  <1>10. ASSUME NEW p \in Requests,
                Update(p) \/ CreateNode(p) \/ DeleteNode(p) \/ Publish(p) \/ Drop(p)
         PROVE  Goal
    BY <1>3, <1>10 DEF Update, CreateNode, DeleteNode, Publish, Drop
  <1>11. ASSUME NEW new \in Statuses, SetStatus(new) PROVE Goal
    BY <1>11 DEF SetStatus
  <1> QED BY <1>4, <1>6, <1>7, <1>8, <1>9, <1>10, <1>11 DEF Next, Serve

\* Only an activation takes a request to its last statement.
LEMMA ReachesStatus ==
    ASSUME TypeInv, Next, NEW p \in Requests, At(p, "status")'
    PROVE  At(p, "status") \/ Activate(p)
  BY RequestsMove DEF Proceeds, At, TypeInv, JobsOK

LEMMA ReadyStep == TypeInv /\ ReadyToPublish /\ [Next]_vars => ReadyToPublish'
  <1> SUFFICES ASSUME TypeInv, ReadyToPublish, [Next]_vars PROVE ReadyToPublish'
    OBVIOUS
  <1>1. CASE UNCHANGED vars
    BY <1>1 DEF vars, ReadyToPublish, SomeActive, At
  <1>2. CASE Next
    <2>1. ASSUME NEW p \in Requests, At(p, "status")' PROVE SomeActive'
      <3>1. CASE At(p, "status")
        BY <1>2, <3>1, ActiveRemains DEF ReadyToPublish
      <3>2. CASE Activate(p)
        BY <3>2, ActivateWrites DEF Activates, SomeActive, Deactivated, Row
      <3> QED BY <1>2, <2>1, <3>1, <3>2, ReachesStatus
    <2>2. ASSUME status' = "published" PROVE SomeActive'
      <3>1. CASE status = "published"
        BY <1>2, <3>1, ActiveRemains DEF ReadyToPublish
      <3>2. CASE status # "published"
        <4>1. PICK p \in Requests : Publish(p)
          BY <1>2, <2>2, <3>2, VersionsAssumption
             DEF Next, Serve, Arrivals, ArriveUpdate, ArrivePublish, ArriveCreateNode,
                 ArriveDeleteNode, Arrive, ReadForUpdate, ReadForPublish, Begin, Update,
                 CreateNode, DeleteNode, Activate, Drop, SetStatus
        <4> QED BY <1>2, <4>1, ActiveRemains DEF Publish, ReadyToPublish
      <3> QED BY <3>1, <3>2
    <2> QED BY <2>1, <2>2 DEF ReadyToPublish
  <1> QED BY <1>1, <1>2

\* A published form has an active version, however its publication interleaves with
\* edits, other publications and changes of its status.
THEOREM PublishedActive == Spec => []PublishedHasActive
  <1>1. Init => ReadyToPublish
    BY DEF Init, ReadyToPublish, At, Idle
  <1>2. ReadyToPublish => PublishedHasActive
    BY DEF ReadyToPublish, PublishedHasActive, SomeActive
  <1> QED BY <1>1, <1>2, ReadyStep, TypeAlways, PTL DEF Spec

-----------------------------------------------------------------------------
(* Safety when statements do not overlap                                   *)

\* While statements do not overlap, the one under way has seen the versions as they
\* are, so that it deactivates every version that is active.
OneRunning == \A p, q \in Requests : At(p, "running") /\ At(q, "running") => p = q
SeesVersions == \A p \in Requests : At(p, "running") => job[p].seen = versions
SerialInv == AtMostOneActive /\ OneRunning /\ SeesVersions

\* The versions are changed by a statement under way, which then ends.
LEMMA VersionsMoveOnce ==
    ASSUME TypeInv, Next, versions' # versions
    PROVE  \E p \in Requests : /\ At(p, "running") /\ ~At(p, "running")'
                               /\ Edits(p) \/ Activates(p)
  <1>1. PICK p \in Requests : Serve(p)
    <2>1. ASSUME NEW p \in Requests, Arrivals(p) \/ Drop(p) PROVE FALSE
      BY <2>1 DEF Arrivals, ArriveUpdate, ArrivePublish, ArriveCreateNode,
                  ArriveDeleteNode, Arrive, Drop
    <2>2. ASSUME NEW new \in Statuses, SetStatus(new) PROVE FALSE
      BY <2>2 DEF SetStatus
    <2> QED BY <2>1, <2>2 DEF Next
  <1>2. \/ Update(p) \/ CreateNode(p) \/ DeleteNode(p)
        \/ Activate(p)
    BY <1>1 DEF Serve, ReadForUpdate, ReadForPublish, Begin, Publish
  <1>3. At(p, "running")
    BY <1>2 DEF Update, CreateNode, DeleteNode, Activate, Running
  <1>4. ~At(p, "running")'
    <2>1. CASE Answered(p)
      BY <2>1 DEF Answered, At, Idle, TypeInv, JobsOK
    <2>2. CASE Activate(p)
      BY <2>2 DEF Activate, At, Idle, TypeInv, JobsOK
    <2> QED BY <1>2, <2>1, <2>2 DEF Update, CreateNode, DeleteNode
  <1> QED BY <1>2, <1>3, <1>4, EditsWrite, ActivateWrites

LEMMA SerialStep ==
    ASSUME ~Overlap
    PROVE  TypeInv /\ SerialInv /\ [Next]_vars => SerialInv'
  <1> SUFFICES ASSUME TypeInv, SerialInv, [Next]_vars PROVE SerialInv'
    OBVIOUS
  <1>1. CASE UNCHANGED vars
    BY <1>1 DEF vars, SerialInv, AtMostOneActive, OneRunning, SeesVersions, At
  <1>2. CASE Next
    <2>1. OneRunning'
      <3>1. ASSUME NEW p \in Requests, NEW j \in Jobs, Proceeds(p, j), ~Begin(p)
            PROVE  OneRunning'
        BY <3>1 DEF Proceeds, SerialInv, OneRunning, At, TypeInv, JobsOK
      <3>2. ASSUME NEW p \in Requests, NEW j \in Jobs, Proceeds(p, j), Begin(p)
            PROVE  OneRunning'
        BY <3>2 DEF Begin, Proceeds, OneRunning, At, TypeInv, JobsOK
      <3>3. CASE UNCHANGED job
        BY <3>3 DEF SerialInv, OneRunning, At
      <3> QED BY <1>2, <3>1, <3>2, <3>3, RequestsMove
    <2>2. SeesVersions'
      <3>1. ASSUME NEW p \in Requests, At(p, "running")',
                   NEW q \in Requests, At(q, "running"), ~At(q, "running")'
            PROVE  FALSE
        <4>1. ~At(p, "running")
          BY <3>1 DEF SerialInv, OneRunning
        <4>2. PICK j \in Jobs : Proceeds(p, j)
          BY <1>2, <3>1, <4>1, RequestsMove DEF Proceeds, At, TypeInv, JobsOK
        <4>3. job'[q] = job[q]
          BY <3>1, <4>1, <4>2 DEF Proceeds, TypeInv, JobsOK
        <4> QED BY <3>1, <4>3 DEF At
      <3>2. CASE versions' # versions
        BY <1>2, <3>1, <3>2, VersionsMoveOnce DEF SeesVersions
      <3>3. CASE UNCHANGED versions
        BY <1>2, <3>3, RequestsMove
           DEF Proceeds, SerialInv, SeesVersions, At, TypeInv, JobsOK
      <3> QED BY <3>2, <3>3
    <2>3. AtMostOneActive'
      <3>1. CASE UNCHANGED versions
        BY <3>1 DEF SerialInv, AtMostOneActive
      <3>2. ASSUME NEW p \in Requests, Edits(p) PROVE AtMostOneActive'
        <4>1. PICK target \in Versions, w \in Workflows :
                 versions' = [versions EXCEPT ![target] = Row(p, w, FALSE)]
          BY <3>2 DEF Edits
        <4> QED BY <4>1 DEF SerialInv, AtMostOneActive, Row, TypeInv, VersionsOK
      <3>3. ASSUME NEW p \in Requests, NEW target \in Versions, At(p, "running"),
                   versions' = Deactivated(p, target, Row(p, job[p].sent, TRUE))
            PROVE  AtMostOneActive'
        <4>1. job[p].seen = versions
          BY <3>3 DEF SerialInv, SeesVersions
        <4>2. ASSUME NEW v \in Versions, v # target PROVE ~versions'[v].active
          BY <3>3, <4>1, <4>2 DEF Deactivated, TypeInv, VersionsOK, Rows
        <4> QED BY <4>2 DEF AtMostOneActive
      <3> QED BY <1>2, <3>1, <3>2, <3>3, VersionsMoveOnce DEF Activates
    <2> QED BY <2>1, <2>2, <2>3 DEF SerialInv
  <1> QED BY <1>1, <1>2

\* At most one version is active if statements do not overlap.
THEOREM OneActive ==
    ASSUME ~Overlap
    PROVE  Spec => []AtMostOneActive
  <1>1. Init => SerialInv
    BY DEF Init, SerialInv, AtMostOneActive, OneRunning, SeesVersions, At, Idle, NoVersion
  <1>2. TypeInv /\ SerialInv /\ [Next]_vars => SerialInv'
    BY SerialStep
  <1>3. SerialInv => AtMostOneActive
    BY DEF SerialInv
  <1> QED BY <1>1, <1>2, <1>3, TypeAlways, PTL DEF Spec

-----------------------------------------------------------------------------
(* Editors who wait for an answer before they ask again                    *)

\* What a request carries fits the rows as they are: the workflow it is about to write
\* has the nodes of the latest, and its statement is later than every version.
JobFits(j) ==
    /\ j.kind \in {"update", "publish"} /\ j.at \in {"write", "running"} =>
          j.sent.nodes \intersect SectionNodes = sections
    /\ j.at = "running" =>
          /\ j.seen = versions /\ j.stamp <= clock
          /\ \A v \in Versions : versions[v].exists => versions[v].updated < j.stamp

Solo     == \A p, q \in Requests : job[p] # Idle /\ job[q] # Idle => p = q
JobsFit  == \A p \in Requests : JobFits(job[p])
Dated    == \A v \in Versions : versions[v].exists => versions[v].updated <= clock
EditorInv == Solo /\ JobsFit /\ Dated /\ SectionsHaveNodes

\* A statement makes the row it writes the latest one.
MakesLatest(p, target, nodes) ==
    /\ At(p, "running")
    /\ versions'[target].exists
    /\ versions'[target].updated = job[p].stamp
    /\ versions'[target].workflow.nodes = nodes
    /\ \A v \in Versions \ {target} : /\ versions'[v].exists = versions[v].exists
                                      /\ versions'[v].updated = versions[v].updated

\* What an edit makes of the nodes, and of the rows of sections.
LEMMA Rewritten ==
    ASSUME TypeInv, EditorInv, NEW p \in Requests,
           Update(p) \/ CreateNode(p) \/ DeleteNode(p)
    PROVE  \E target \in Versions, nodes \in SUBSET Nodes :
              /\ MakesLatest(p, target, nodes)
              /\ nodes \intersect SectionNodes = sections'
  <1> USE DEF TypeInv, VersionsOK
  <1>1. ASSUME NEW w, NEW target \in Versions, At(p, "running"),
               versions' = [versions EXCEPT ![target] = Row(p, w, FALSE)]
        PROVE  MakesLatest(p, target, w.nodes)
    BY <1>1 DEF MakesLatest, Row
  <1>2. ASSUME NEW v \in Versions, At(p, "running"), Latest(job[p].seen, v)
        PROVE  /\ versions[v].workflow.nodes \intersect SectionNodes = sections
               /\ versions[v].workflow.nodes \subseteq Nodes
    <2>1. Latest(versions, v)
      BY <1>2 DEF EditorInv, JobsFit, JobFits, At
    <2> QED BY <2>1 DEF EditorInv, SectionsHaveNodes, VersionOK, WellWired, Workflows
  <1>3. CASE Update(p)
    <2>1. PICK v \in Versions, target \in Versions :
             versions' = [versions EXCEPT ![target] = Row(p, job[p].sent, FALSE)]
      BY <1>3 DEF Update, Rewrite
    <2>2. job[p].sent.nodes \intersect SectionNodes = sections
      BY <1>3 DEF Update, Running, At, EditorInv, JobsFit, JobFits
    <2>3. job[p].sent.nodes \subseteq Nodes
      BY DEF JobsOK, JobOK, WellWired, Workflows
    <2> QED BY <1>1, <1>3, <2>1, <2>2, <2>3 DEF Update, Running
  <1>4. CASE CreateNode(p)
    <2> DEFINE Added(w) == [w EXCEPT !.nodes = @ \union {job[p].node}]
    <2>1. PICK v \in Versions, target \in Versions :
             /\ Latest(job[p].seen, v)
             /\ versions' = [versions EXCEPT ![target] =
                                Row(p, Added(versions[v].workflow), FALSE)]
      BY <1>4 DEF CreateNode, Rewrite
    <2>2. job[p].node \in Nodes /\ At(p, "running")
      BY <1>4 DEF CreateNode, Running, JobsOK, JobOK
    <2>3. Added(versions[v].workflow).nodes = versions[v].workflow.nodes \union {job[p].node}
      BY DEF VersionOK, WellWired, Workflows
    <2> HIDE DEF Added
    <2>4. sections' = sections \union ({job[p].node} \intersect SectionNodes)
      BY <1>4 DEF CreateNode
    <2>5. MakesLatest(p, target, versions[v].workflow.nodes \union {job[p].node})
      BY <1>1, <2>1, <2>2, <2>3
    <2>6. /\ versions[v].workflow.nodes \intersect SectionNodes = sections
          /\ versions[v].workflow.nodes \subseteq Nodes
      BY <1>2, <2>1, <2>2
    <2>7. (versions[v].workflow.nodes \union {job[p].node}) \intersect SectionNodes = sections'
      BY <2>4, <2>6
    <2> QED BY <2>2, <2>5, <2>6, <2>7
  <1>5. CASE DeleteNode(p)
    <2> DEFINE Without(w, cut) == [nodes |-> w.nodes \ {job[p].node},
                                   wired |-> Wired(w, job[p].node, cut)]
    <2>1. PICK v \in Versions, cut \in SUBSET Nodes :
             LET Gone(w) == [nodes |-> w.nodes \ {job[p].node},
                             wired |-> Wired(w, job[p].node, cut)] IN
             /\ Latest(job[p].seen, v)
             /\ Rewrite(p, Gone)
             /\ sections' = SectionsWithout(job[p].node, versions[v].workflow)
      BY <1>5 DEF DeleteNode
    <2>2. PICK u \in Versions, target \in Versions :
             /\ Latest(job[p].seen, u)
             /\ versions' = [versions EXCEPT ![target] =
                                Row(p, Without(versions[u].workflow, cut), FALSE)]
      BY <2>1 DEF Rewrite
    <2>3. At(p, "running")
      BY <1>5 DEF DeleteNode, Running
    <2>4. Without(versions[u].workflow, cut).nodes = versions[u].workflow.nodes \ {job[p].node}
      OBVIOUS
    <2> HIDE DEF Without
    <2>5. sections' = IF job[p].node \in versions[v].workflow.nodes
                      THEN sections \ {job[p].node} ELSE sections
      BY <2>1 DEF SectionsWithout
    <2>6. /\ versions[v].workflow.nodes \intersect SectionNodes = sections
          /\ versions[u].workflow.nodes \intersect SectionNodes = sections
          /\ versions[u].workflow.nodes \subseteq Nodes
      BY <1>2, <2>1, <2>2, <2>3
    <2>7. (versions[u].workflow.nodes \ {job[p].node}) \intersect SectionNodes = sections'
      BY <2>5, <2>6
    <2> QED BY <1>1, <2>2, <2>3, <2>4, <2>6, <2>7
  <1> QED BY <1>3, <1>4, <1>5

LEMMA Activated ==
    ASSUME TypeInv, EditorInv, NEW p \in Requests, Activate(p)
    PROVE  \/ UNCHANGED versions
           \/ \E target \in Versions, nodes \in SUBSET Nodes :
                 /\ MakesLatest(p, target, nodes)
                 /\ nodes \intersect SectionNodes = sections'
  <1> USE DEF TypeInv, VersionsOK
  <1> SUFFICES ASSUME versions' # versions
               PROVE  \E target \in Versions, nodes \in SUBSET Nodes :
                         /\ MakesLatest(p, target, nodes)
                         /\ nodes \intersect SectionNodes = sections'
    OBVIOUS
  <1>1. PICK target \in Versions :
           versions' = Deactivated(p, target, Row(p, job[p].sent, TRUE))
    BY DEF Activate
  <1>2. job[p].sent.nodes \subseteq Nodes
    BY DEF JobsOK, JobOK, WellWired, Workflows
  <1>3. job[p].sent.nodes \intersect SectionNodes = sections /\ sections' = sections
    BY DEF Activate, Running, At, EditorInv, JobsFit, JobFits
  <1>4. ASSUME NEW v \in Versions \ {target}
        PROVE  /\ versions'[v].exists = versions[v].exists
               /\ versions'[v].updated = versions[v].updated
    <2>1. versions'[v] = IF job[p].seen[v].active
                         THEN [versions[v] EXCEPT !.active = FALSE] ELSE versions[v]
      BY <1>1, <1>4 DEF Deactivated
    <2> QED BY <2>1 DEF Rows
  <1>5. versions'[target] = Row(p, job[p].sent, TRUE)
    BY <1>1 DEF Deactivated
  <1>6. MakesLatest(p, target, job[p].sent.nodes)
    BY <1>4, <1>5 DEF MakesLatest, Row, Activate, Running
  <1> QED BY <1>2, <1>3, <1>6

\* A request that arrives carries nothing to write, or a node, and is the only one.
ArrivesAlone(p) ==
    \E j : /\ job' = [job EXCEPT ![p] = j] /\ JobFits(j)
           /\ \A other \in Requests : job[other] = Idle
           /\ UNCHANGED <<versions, sections, clock>>

LEMMA ArrivalsFit ==
    ASSUME OneEditor, TypeInv, NEW p \in Requests, Arrivals(p)
    PROVE  ArrivesAlone(p)
  <1>1. ASSUME NEW kind, NEW at, NEW node, Arrive(p, kind, at, node),
               \/ at = "read" \/ at = "get"
               \/ (kind = "create" \/ kind = "delete") /\ at = "write"
        PROVE  ArrivesAlone(p)
    <2> DEFINE j == [Idle EXCEPT !.kind = kind, !.at = at, !.node = node]
    <2>1. j.kind = kind /\ j.at = at
      BY DEF Idle
    <2>2. job' = [job EXCEPT ![p] = j]
      BY <1>1 DEF Arrive
    <2> HIDE DEF j
    <2>3. JobFits(j)
      BY <1>1, <2>1 DEF JobFits
    <2> QED BY <1>1, <2>2, <2>3 DEF Arrive, ArrivesAlone
  <1>2. CASE ArriveUpdate(p) \/ ArrivePublish(p)
    BY <1>1, <1>2, Zenon DEF ArriveUpdate, ArrivePublish
  <1>3. ASSUME NEW node \in Nodes, ArriveCreateNode(p, node) \/ ArriveDeleteNode(p, node)
        PROVE  ArrivesAlone(p)
    BY <1>1, <1>3, Zenon DEF ArriveCreateNode, ArriveDeleteNode
  <1> QED BY <1>2, <1>3 DEF Arrivals

\* What the other steps give a request fits as well.
LEMMA ReadsFit ==
    ASSUME TypeInv, EditorInv, NEW p \in Requests,
           ReadForUpdate(p) \/ ReadForPublish(p) \/ Begin(p)
    PROVE  \E j : /\ job' = [job EXCEPT ![p] = j] /\ (JobFits(j))'
                  /\ job[p] # Idle
                  /\ UNCHANGED <<versions, sections>> /\ clock' \in {clock, clock + 1}
  <1> USE DEF TypeInv, JobsOK
  <1>1. job[p] \in Jobs /\ job[p] # Idle
    BY IdleOK DEF ReadForUpdate, ReadForPublish, Begin, At
  <1>2. JobFits(Idle)'
    BY IdleOK DEF JobFits
  <1>3. ASSUME NEW w \in Workflows, w.nodes \intersect SectionNodes = sections,
               UNCHANGED <<versions, sections, clock>>,
               job' = [job EXCEPT ![p] = [job[p] EXCEPT !.at = "write", !.sent = w]]
        PROVE  \E j : job' = [job EXCEPT ![p] = j] /\ (JobFits(j))'
    <2>1. PICK j : j = [job[p] EXCEPT !.at = "write", !.sent = w]
      OBVIOUS
    <2>2. j.at = "write" /\ j.sent = w
      BY <1>1, <2>1 DEF Jobs
    <2>3. (JobFits(j))'
      BY <1>3, <2>2 DEF JobFits
    <2> QED BY <1>3, <2>1, <2>3
  <1>4. ASSUME NEW v \in Versions, Latest(versions, v)
        PROVE  versions[v].workflow.nodes \intersect SectionNodes = sections
    BY <1>4 DEF EditorInv, SectionsHaveNodes
  <1>5. ASSUME NEW v \in Versions PROVE versions[v].workflow \in Workflows
    BY DEF VersionsOK, VersionOK, WellWired
  <1>6. CASE ReadForUpdate(p)
    <2>1. PICK v \in Versions, wired \in SUBSET (Nodes \ {EndNode}) :
             LET given == [nodes |-> versions[v].workflow.nodes, wired |-> wired] IN
             /\ Latest(versions, v)
             /\ \/ Answered(p)
                \/ job' = [job EXCEPT ![p] = [job[p] EXCEPT !.at = "write", !.sent = given]]
      BY <1>6 DEF ReadForUpdate
    <2>2. [nodes |-> versions[v].workflow.nodes, wired |-> wired] \in Workflows
      BY <1>5 DEF Workflows
    <2>3. CASE Answered(p)
      BY <1>1, <1>2, <1>6, <2>3 DEF Answered, ReadForUpdate
    <2> QED BY <1>1, <1>3, <1>4, <1>6, <2>1, <2>2, <2>3 DEF ReadForUpdate
  <1>7. CASE ReadForPublish(p)
    <2>1. PICK v \in Versions :
             /\ Latest(versions, v)
             /\ job' = [job EXCEPT ![p] = [job[p] EXCEPT !.at = "write",
                                                         !.sent = versions[v].workflow]]
      BY <1>7 DEF ReadForPublish
    <2> QED BY <1>1, <1>3, <1>4, <1>5, <1>7, <2>1 DEF ReadForPublish
  <1>8. CASE Begin(p)
    <2>1. PICK j : j = [job[p] EXCEPT !.at = "running", !.seen = versions,
                                      !.stamp = clock + 1]
      OBVIOUS
    <2>2. /\ j.at = "running" /\ j.seen = versions /\ j.stamp = clock + 1
          /\ j.kind = job[p].kind /\ j.sent = job[p].sent
      BY <1>1, <2>1 DEF Jobs
    <2>3. UNCHANGED <<versions, sections>> /\ clock' = clock + 1 /\ At(p, "write")
      BY <1>8 DEF Begin
    <2>4. clock \in Nat
      BY VersionsAssumption
    <2>5. \A v \in Versions : versions[v].exists => versions[v].updated < clock + 1
      BY <2>4 DEF EditorInv, Dated, VersionsOK, Rows
    <2>6. j.kind \in {"update", "publish"} => j.sent.nodes \intersect SectionNodes = sections
      BY <2>2, <2>3 DEF EditorInv, JobsFit, JobFits, At
    <2>7. (JobFits(j))'
      BY <2>2, <2>3, <2>4, <2>5, <2>6 DEF JobFits
    <2>8. job' = [job EXCEPT ![p] = j]
      BY <1>8, <2>1 DEF Begin
    <2> QED BY <1>1, <2>3, <2>7, <2>8
  <1> QED BY <1>6, <1>7, <1>8

\* The statement that runs is the only request, so that what it makes of the latest
\* workflow and of the rows of sections is all that changes.
LEMMA Overwritten ==
    ASSUME TypeInv, EditorInv, NEW p \in Requests, NEW target \in Versions, NEW nodes,
           MakesLatest(p, target, nodes), nodes \intersect SectionNodes = sections',
           VersionsOK', clock' = clock
    PROVE  SectionsHaveNodes' /\ Dated'
  <1> USE DEF TypeInv, VersionsOK
  <1>1. job[p].stamp \in Nat /\ clock \in Nat /\ job[p].stamp <= clock
    BY VersionsAssumption DEF JobsOK, Jobs, EditorInv, JobsFit, JobFits, MakesLatest, At
  <1>2. ASSUME NEW v \in Versions, versions'[v].exists, v # target
        PROVE  versions'[v].updated < job[p].stamp /\ versions'[v].updated \in Nat
    BY <1>2 DEF MakesLatest, EditorInv, JobsFit, JobFits, At, Rows
  <1>3. ASSUME NEW v \in Versions, Latest(versions, v)' PROVE v = target
    BY <1>1, <1>2, <1>3 DEF Latest, MakesLatest
  <1>4. SectionsHaveNodes'
    BY <1>3 DEF SectionsHaveNodes, MakesLatest
  <1>5. Dated'
    BY <1>1, <1>2 DEF Dated, MakesLatest
  <1> QED BY <1>4, <1>5

LEMMA EditorStep ==
    ASSUME OneEditor, TypeInv, TypeInv', EditorInv, [Next]_vars
    PROVE  EditorInv'
  <1> USE DEF TypeInv, JobsOK
  <1>1. CASE UNCHANGED vars
    BY <1>1 DEF vars, EditorInv, Solo, JobsFit, JobFits, Dated, SectionsHaveNodes, Latest
  <1>2. ASSUME NEW p \in Requests, NEW j, job' = [job EXCEPT ![p] = j], (JobFits(j))',
               \/ job[p] # Idle
               \/ \A other \in Requests : job[other] = Idle
        PROVE  Solo' /\ JobsFit'
    <2>1. ASSUME NEW other \in Requests, other # p
          PROVE  job'[other] = Idle
      BY <1>2, <2>1 DEF EditorInv, Solo
    <2>2. (JobFits(Idle))'
      BY IdleOK DEF JobFits
    <2>3. Solo'
      BY <2>1 DEF Solo
    <2>4. JobsFit'
      BY <1>2, <2>1, <2>2 DEF JobsFit
    <2> QED BY <2>3, <2>4
  <1>3. ASSUME UNCHANGED <<versions, sections>>, clock' \in {clock, clock + 1}
        PROVE  SectionsHaveNodes' /\ Dated'
    <2>1. clock \in Nat /\ clock' >= clock
      BY <1>3, VersionsAssumption
    <2>2. SectionsHaveNodes'
      BY <1>3 DEF EditorInv, SectionsHaveNodes, Latest
    <2>3. Dated'
      BY <1>3, <2>1 DEF EditorInv, Dated, VersionsOK, Rows
    <2> QED BY <2>2, <2>3
  <1>4. ASSUME NEW p \in Requests, Arrivals(p) PROVE EditorInv'
    <2>1. PICK j : /\ job' = [job EXCEPT ![p] = j] /\ JobFits(j)
                   /\ \A other \in Requests : job[other] = Idle
                   /\ UNCHANGED <<versions, sections, clock>>
      BY <1>4, ArrivalsFit DEF ArrivesAlone
    <2>2. (JobFits(j))'
      BY <2>1 DEF JobFits
    <2> QED BY <1>2, <1>3, <2>1, <2>2 DEF EditorInv
  <1>5. ASSUME NEW p \in Requests, ReadForUpdate(p) \/ ReadForPublish(p) \/ Begin(p)
        PROVE  EditorInv'
    <2>1. PICK j : /\ job' = [job EXCEPT ![p] = j] /\ (JobFits(j))'
                   /\ job[p] # Idle
                   /\ UNCHANGED <<versions, sections>> /\ clock' \in {clock, clock + 1}
      BY <1>5, ReadsFit
    <2> QED BY <1>2, <1>3, <2>1 DEF EditorInv
  <1>6. ASSUME NEW p \in Requests, job[p] # Idle, Answered(p) PROVE Solo' /\ JobsFit'
    <2>1. (JobFits(Idle))'
      BY IdleOK DEF JobFits
    <2> QED BY <1>2, <1>6, <2>1 DEF Answered
  <1>7. ASSUME NEW p \in Requests, Update(p) \/ CreateNode(p) \/ DeleteNode(p)
        PROVE  EditorInv'
    <2>1. /\ job[p] # Idle /\ Answered(p) /\ clock' = clock
      BY <1>7, IdleOK DEF Update, CreateNode, DeleteNode, Running, At
    <2>2. PICK target \in Versions, nodes \in SUBSET Nodes :
             /\ MakesLatest(p, target, nodes)
             /\ nodes \intersect SectionNodes = sections'
      BY <1>7, Rewritten
    <2> QED BY <1>6, <2>1, <2>2, Overwritten DEF EditorInv
  <1>8. ASSUME NEW p \in Requests, Activate(p) PROVE EditorInv'
    <2>1. PICK j : j = [Idle EXCEPT !.kind = "publish", !.at = "status"]
      OBVIOUS
    <2>2. j.at = "status"
      BY <2>1 DEF Idle
    <2>3. /\ job[p] # Idle /\ job' = [job EXCEPT ![p] = j]
          /\ UNCHANGED <<sections, clock>>
      BY <1>8, <2>1, IdleOK DEF Activate, Running, At
    <2>4. Solo' /\ JobsFit'
      BY <1>2, <2>2, <2>3 DEF JobFits
    <2>5. SectionsHaveNodes' /\ Dated'
      BY <1>3, <1>8, <2>3, Activated, Overwritten
    <2> QED BY <2>4, <2>5 DEF EditorInv
  <1>9. ASSUME NEW p \in Requests, Publish(p) \/ Drop(p) PROVE EditorInv'
    <2>1. job[p] # Idle /\ Answered(p) /\ UNCHANGED <<versions, sections, clock>>
      BY <1>9, IdleOK DEF Publish, Drop, At
    <2> QED BY <1>3, <1>6, <2>1 DEF EditorInv
  <1>10. ASSUME NEW new \in Statuses, SetStatus(new) PROVE EditorInv'
    BY <1>10 DEF SetStatus, EditorInv, Solo, JobsFit, JobFits, Dated, SectionsHaveNodes,
                 Latest
  <1> QED BY <1>1, <1>4, <1>5, <1>7, <1>8, <1>9, <1>10 DEF Next, Serve

\* If an editor waits for each answer, the rows of sections are the section nodes of the
\* latest workflow, whatever of his edits is refused or cut off after it has written.
THEOREM SectionsMatch ==
    ASSUME OneEditor
    PROVE  Spec => []SectionsHaveNodes
  <1>1. Init => EditorInv
    <2> SUFFICES ASSUME Init PROVE EditorInv
      OBVIOUS
    <2>1. PICK v \in Versions :
             versions = [u \in Versions |->
                           IF u = v THEN [NoVersion EXCEPT !.exists = TRUE,
                                                           !.workflow = Initially]
                           ELSE NoVersion]
      BY DEF Init
    <2>2. \A u \in Versions : versions[u].exists => u = v
      BY <2>1 DEF NoVersion
    <2>3. versions[v].updated = 0 /\ versions[v].workflow = Initially
      BY <2>1 DEF NoVersion
    <2>4. Initially.nodes \intersect SectionNodes = {}
      BY VersionsAssumption DEF Initially
    <2>5. SectionsHaveNodes
      BY <2>2, <2>3, <2>4 DEF SectionsHaveNodes, Latest, Init
    <2>6. Dated
      BY <2>2, <2>3 DEF Dated, Init
    <2>7. Solo /\ JobsFit
      BY IdleOK DEF Init, Solo, JobsFit, JobFits
    <2> QED BY <2>5, <2>6, <2>7 DEF EditorInv
  <1>2. TypeInv /\ TypeInv' /\ EditorInv /\ [Next]_vars => EditorInv'
    BY EditorStep
  <1>3. EditorInv => SectionsHaveNodes
    BY DEF EditorInv
  <1> QED BY <1>1, <1>2, <1>3, TypeAlways, PTL DEF Spec

=============================================================================
