------------------------- MODULE WorkflowValidation -------------------------
(***************************************************************************)
(* What internal/form/workflow/validator.go and workflow/node ask of a     *)
(* workflow: Validate before a draft is saved, Activate before a version   *)
(* is made active, and the warnings of GetValidationInfo.                  *)
(*                                                                         *)
(* Besides the fields of FormWorkflow a condition has the source its rule  *)
(* names, CHOICE or NONCHOICE.  A question outside Questions is one of     *)
(* another form or none at all, NoQuestion the empty reference a draft may *)
(* hold, and what a condition without a rule has.  Ids, labels, payloads   *)
(* and field names are well formed, and the choices a pattern names are    *)
(* those of its question.                                                  *)
(***************************************************************************)
EXTENDS FormWorkflow, SequencesExt

CONSTANTS
    NoQuestion,        \* the question of a rule that refers to none
    ChoiceQuestions    \* the questions of ChoiceTypes; the others are of NonChoiceTypes

ASSUME ValidationAssumption == /\ NoQuestion \notin Questions
                               /\ ChoiceQuestions \subseteq Questions

-----------------------------------------------------------------------------
(* The graph of a workflow.                                                *)

NodesOf(w, type) == {id \in DOMAIN w.nodes : w.nodes[id].type = type}

NextNodes(node) ==
    (IF node.type = "end" THEN {}
     ELSE IF node.type = "condition" THEN {node.nextTrue, node.nextFalse}
     ELSE {node.next}) \ {NoNode}

References(w) == UNION {NextNodes(w.nodes[id]) : id \in DOMAIN w.nodes}

\* A node is queued once, an absent reference never.
Queued(seen, id) == IF id = NoNode \/ Contains(seen, id) THEN seen ELSE Append(seen, id)

\* Mutant: a condition leads to its nextTrue only.
QueuedNext_TrueOnly(seen, node) ==
    IF node.type = "end" THEN seen
    ELSE IF node.type = "condition" THEN Queued(seen, node.nextTrue)
    ELSE Queued(seen, node.next)

\* The references of a node, in the order the breadth-first searches take them.
QueuedNext(seen, node) ==
    IF node.type = "end" THEN seen
    ELSE IF node.type = "condition" THEN Queued(Queued(seen, node.nextTrue), node.nextFalse)
    ELSE Queued(seen, node.next)

\* How many ids a search may visit.
Visitable(w) == Cardinality(DOMAIN w.nodes \union References(w))

\* The ids a breadth-first search from the start node visits, in that order.
\* A dangling reference is visited and leads nowhere.
Visits(w) ==
    LET visits[n \in 0..Visitable(w)] ==
            IF n = 0 THEN <<w.start>>
            ELSE LET seen == visits[n - 1]
                 IN  IF n > Len(seen) \/ seen[n] \notin DOMAIN w.nodes THEN seen
                     ELSE QueuedNext(seen, w.nodes[seen[n]])
    IN  visits[Visitable(w)]

Before(seen, id, other) ==
    \E i, j \in DOMAIN seen : i < j /\ seen[i] = id /\ seen[j] = other

-----------------------------------------------------------------------------
(* The checks.                                                             *)

RequiredNodeTypes(w) ==
    Cardinality(NodesOf(w, "start")) = 1 /\ Cardinality(NodesOf(w, "end")) = 1

GraphReferences(w) == References(w) \subseteq DOMAIN w.nodes

\* The question of a rule exists, and is of a type its source is about.
RuleFits(node) ==
    /\ node.question \in Questions
    /\ node.source = "CHOICE" <=> node.question \in ChoiceQuestions

\* The node's own Validate, which only Activate calls.
NodeValid(node) ==
    \/ node.type = "end"
    \/ node.type \in {"start", "section"} /\ node.next # NoNode
    \/ /\ node.type = "condition"
       /\ NoNode \notin {node.nextTrue, node.nextFalse}
       /\ node.rule = "sound" /\ RuleFits(node)

\* validateConditionSectionOrder.  A condition of a section that is no node of the
\* workflow, and a condition the search does not visit, are left to other checks.
ConditionSectionOrder(w) ==
    LET seen == Visits(w) IN
    \A id \in NodesOf(w, "condition") \intersect ToSet(seen) :
        LET question == w.nodes[id].question IN
        question \in Questions /\ SectionOf[question] \in DOMAIN w.nodes =>
            Before(seen, SectionOf[question], id)

Validate(w) ==
    /\ RequiredNodeTypes(w)
    /\ GraphReferences(w)
    /\ ConditionSectionOrder(w)
    /\ \A id \in NodesOf(w, "condition") :
          w.nodes[id].question = NoQuestion \/ RuleFits(w.nodes[id])

Activate(w) ==
    /\ RequiredNodeTypes(w)
    /\ \A id \in DOMAIN w.nodes : NodeValid(w.nodes[id])
    /\ GraphReferences(w)

\* The nodes GetValidationInfo warns that no respondent reaches.
Unreachable(w) == DOMAIN w.nodes \ ToSet(Visits(w))
=============================================================================
