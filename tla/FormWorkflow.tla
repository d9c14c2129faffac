---------------------------- MODULE FormWorkflow ----------------------------
(***************************************************************************)
(* How a form's workflow turns the answers of a response into the sections *)
(* the respondent has to fill, and when such a section counts as filled    *)
(* (internal/form/workflow/resolver.go, calculateSectionProgress and Get   *)
(* of internal/form/response/service.go).                                  *)
(*                                                                         *)
(* A workflow is a record: start, the id of its start node, and nodes, a   *)
(* function from node ids to nodes.  A node has a type; start and section  *)
(* nodes a next, condition nodes a rule, its question, a nextTrue and a    *)
(* nextFalse.  The id of a section node is the id of its section.  An id   *)
(* outside DOMAIN nodes is a dangling reference, NoNode an absent one.     *)
(* The resolver takes the type and the id of a node as well formed, as the *)
(* validator leaves them.                                                  *)
(*                                                                         *)
(* The rule is "absent" when the node has no conditionRule or one that     *)
(* does not unmarshal, "broken" when its pattern is empty or does not      *)
(* compile, "sound" otherwise.  matches are the answers MatchesPattern     *)
(* finds the pattern in; refused those it returns an error for: what       *)
(* DecodeStorage does not read back, and under a pattern that does not     *)
(* compile every answer the pattern is tried on.                           *)
(*                                                                         *)
(* answers maps every question of the form to a value or to NoAnswer.      *)
(***************************************************************************)
EXTENDS Naturals, FiniteSets

CONSTANTS
    Questions,   \* the questions of the form
    NoAnswer,    \* the value of a question that has no row in answers
    NoNode,      \* the next of a node that has none
    Sections,    \* the sections of the form
    SectionOf,   \* the section a question belongs to
    Required     \* the required questions

ASSUME FormAssumption == /\ SectionOf \in [Questions -> Sections]
                         /\ Required \subseteq Questions

IsWorkflow(w) ==
    /\ IsFiniteSet(DOMAIN w.nodes)
    /\ NoNode \notin DOMAIN w.nodes
    /\ w.start \in DOMAIN w.nodes /\ w.nodes[w.start].type = "start"
    /\ \A id \in DOMAIN w.nodes : w.nodes[id].type \in {"start", "section", "condition", "end"}

-----------------------------------------------------------------------------
(* ResolveSections: the walk from the start node                           *)

\* evaluateCondition needs an answer to a question the form still has.
Evaluable(node, answers) ==
    node.question \in Questions /\ answers[node.question] # NoAnswer

\* evaluateCondition returns an error: there is no rule, or the answer it would
\* match is refused.
Fails(node, answers) ==
    /\ node.type = "condition"
    /\ node.rule # "absent" => Evaluable(node, answers) /\ answers[node.question] \in node.refused

\* Mutant: a condition without an answer takes its nextFalse.
Stops_Answered(node, answers) ==
    \/ node.type = "end"
    \/ node.type = "condition" /\ node.rule # "absent" /\ node.question \notin Questions

\* The walk ends at an end node, and at a condition that cannot be evaluated:
\* only the sections before it are certain to be filled.
Stops(node, answers) ==
    \/ node.type = "end"
    \/ node.type = "condition" /\ node.rule # "absent" /\ ~Evaluable(node, answers)

Successor(node, answers) ==
    IF node.type # "condition" THEN node.next
    ELSE IF answers[node.question] \in node.matches THEN node.nextTrue
    ELSE node.nextFalse

\* Mutant: one node too few.
Hops_Short(w) == Cardinality(DOMAIN w.nodes) - 2

\* How many nodes a walk may visit after its first.  One more is a node visited
\* twice, which the code's visited map makes an error.
Hops(w) == Cardinality(DOMAIN w.nodes) - 1

\* The sections on the walk, and whether it stopped well: a cycle, a dangling
\* reference and a condition that fails are errors.  left is how many more nodes
\* it may visit.
ResolveSections(w, answers) ==
    LET stop == [ok |-> TRUE,  sections |-> {}]
        fail == [ok |-> FALSE, sections |-> {}]
        walk[left \in 0..Hops(w)] == [id \in DOMAIN w.nodes |->
            LET node == w.nodes[id]
                next == Successor(node, answers)
                rest == IF Fails(node, answers) THEN fail
                        ELSE IF Stops(node, answers) \/ next = NoNode THEN stop
                        ELSE IF next \notin DOMAIN w.nodes \/ left = 0 THEN fail
                        ELSE walk[left - 1][next]
            IN  [rest EXCEPT !.sections = @ \union (IF node.type = "section"
                                                    THEN {id} ELSE {})]]
    IN  walk[Hops(w)][w.start]

Resolved(w, answers) == ResolveSections(w, answers).ok

ActiveSections(w, answers) == ResolveSections(w, answers).sections

-----------------------------------------------------------------------------
(* Progress of a section and of a response.                                *)

QuestionsIn(section) == {q \in Questions : SectionOf[q] = section}

Answered(answers) == {q \in Questions : answers[q] # NoAnswer}

\* Mutant: one answer completes a section.
SectionProgress_AnyAnswer(section, answers) ==
    IF QuestionsIn(section) = {} \/ QuestionsIn(section) \intersect Answered(answers) # {}
    THEN "COMPLETED" ELSE "NOT_STARTED"

\* calculateSectionProgress.  A section whose only questions are optional is
\* still NOT_STARTED until one of them is answered.
SectionProgress(section, answers) ==
    LET asked == QuestionsIn(section) IN
    IF asked = {} THEN "COMPLETED"
    ELSE IF asked \intersect Answered(answers) = {} THEN "NOT_STARTED"
    ELSE IF asked \intersect Required \subseteq Answered(answers) THEN "COMPLETED"
    ELSE "DRAFT"

\* What Submit asks of response.Get: the workflow resolves, and every active
\* section is completed (all others are SKIPPED, which Submit accepts).
Complete(w, answers) ==
    LET path == ResolveSections(w, answers)
    IN  /\ path.ok
        /\ \A section \in path.sections \intersect Sections :
              SectionProgress(section, answers) = "COMPLETED"
=============================================================================
