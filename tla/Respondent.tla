----------------------------- MODULE Respondent -----------------------------
(***************************************************************************)
(* A respondent answers, one question at a time, a form that has any of    *)
(* some workflows, with the sections the resolver works out in between.    *)
(*                                                                         *)
(* A workflow may be a draft: cycles, dangling references, conditions with *)
(* no rule, with a pattern that does not compile, or on questions that are *)
(* gone.  An answer may be older than its question's type: what was stored *)
(* for the type before (Update of internal/form/question rewrites the type *)
(* and leaves the answers).                                                *)
(***************************************************************************)
EXTENDS WorkflowValidation

CONSTANTS
    Workflows,   \* the workflows the form may have
    Values,      \* the values of answers
    OldValues    \* the values stored when their question had another type

\* A pattern that compiles is refused by old answers only.
ASSUME RespondentAssumption ==
    /\ NoAnswer \notin Values \union OldValues
    /\ \A w \in Workflows : IsWorkflow(w)
    /\ \A w \in Workflows : \A id \in DOMAIN w.nodes : LET node == w.nodes[id] IN
          node.type = "condition" /\ node.rule = "sound" => node.refused \subseteq OldValues

VARIABLES workflow, answers

vars == <<workflow, answers>>

Ids == DOMAIN workflow.nodes

Init ==
    /\ workflow \in Workflows
    /\ answers \in [Questions -> OldValues \union {NoAnswer}]

\* A question that has no answer is given one.
Next ==
    \E q \in Questions \ Answered(answers), v \in Values :
        /\ answers' = [answers EXCEPT ![q] = v]
        /\ UNCHANGED workflow

Spec == Init /\ [][Next]_vars

-----------------------------------------------------------------------------
(* The reference: what the walk may reach, as a least set closed under its  *)
(* steps, with no order and no count of rounds.                             *)

Follows(id) ==
    LET node == workflow.nodes[id] IN
    IF Stops(node, answers) \/ Fails(node, answers) THEN {}
    ELSE {Successor(node, answers)} \ {NoNode}

\* Nodes and dangling references: the least set of them with start that is closed
\* under steps, from nodes to sets of them.
Places == Ids \union References(workflow)

Closed(ids, steps) == \A id \in ids \intersect Ids : steps[id] \subseteq ids

Closure(start, steps) ==
    {id \in Places : \A ids \in SUBSET Places : start \in ids /\ Closed(ids, steps) => id \in ids}

Reachable == Closure(workflow.start, [id \in Ids |-> Follows(id)])

\* ResolveSections records exactly the reachable section nodes, and fails exactly
\* when what is reachable holds a dangling reference or a condition that fails, or
\* has no last node.
ResolvesTheReachablePath ==
    LET reached == Reachable
        lasts   == {id \in reached \intersect Ids : Follows(id) = {}}
        failing == {id \in lasts : Fails(workflow.nodes[id], answers)}
        path    == ResolveSections(workflow, answers)
    IN  /\ path.ok <=> reached \subseteq Ids /\ lasts # {} /\ failing = {}
        /\ path.ok => path.sections = reached \intersect NodesOf(workflow, "section")

\* A complete response leaves no required question of an active section open, and
\* no active section that asks something untouched.
CompleteLeavesNothingOpen ==
    Complete(workflow, answers) =>
        \A section \in Reachable \intersect NodesOf(workflow, "section") \intersect Sections :
            /\ QuestionsIn(section) \intersect Required \subseteq Answered(answers)
            /\ QuestionsIn(section) # {} => \E q \in QuestionsIn(section) : q \in Answered(answers)

\* The nodes some path from the start leads to without passing avoided.
LeadsTo(avoided) ==
    Closure(workflow.start, [id \in Ids |-> NextNodes(workflow.nodes[id]) \ {avoided}])

\* What the validator promises the respondents (Activate, validateConditionSectionOrder
\* and validateAllNodesReachableFromStart): in a workflow that was activated no walk
\* meets a dangling reference, and it stops at the end node or at a condition whose
\* question has no answer yet or one older than its type, unless it circles; in a
\* saved one the section of a condition's question can be reached without that
\* condition; and no walk reaches a node the warnings call unreachable.
ValidatedWorkflowsLeadOn ==
    LET reached == Reachable IN
    /\ Activate(workflow) =>
          /\ reached \subseteq Ids
          /\ \A id \in reached : LET node == workflow.nodes[id] IN
                Follows(id) = {} =>
                   \/ node.type = "end"
                   \/ /\ node.type = "condition" /\ node.question \in Questions
                      /\ answers[node.question] \in OldValues \union {NoAnswer}
    /\ Answered(answers) = {} /\ Validate(workflow) =>
          \A id \in NodesOf(workflow, "condition") \intersect LeadsTo(NoNode) :
             LET question == workflow.nodes[id].question IN
             question \in Questions /\ SectionOf[question] \in Ids => SectionOf[question] \in LeadsTo(id)
    /\ reached \intersect Unreachable(workflow) = {}

\* The sections shown for some of the answers are certain (ResolveSections' doc):
\* as long as the walk resolves, answering one more question removes none.
CertainSectionsStay ==
    [][Resolved(workflow, answers) /\ Resolved(workflow, answers)' =>
          ActiveSections(workflow, answers) \subseteq
             ActiveSections(workflow, answers)']_vars
=============================================================================
