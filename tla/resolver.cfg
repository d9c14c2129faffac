SPECIFICATION FormSpec
CONSTANTS
    Questions <- MCQuestions
    NoAnswer = NoAnswer
    NoNode = NoNode
    Sections = {"A", "B"}
    SectionOf <- MCSectionOf
    Required <- MCRequired
    NoQuestion = NoQuestion
    ChoiceQuestions = {"qa"}
    Workflows <- MCWorkflows
    Values = {"yes", "no"}
    OldValues = {"old"}
    Nil = Nil
    Icons = {"star"}
    FileTypes = {"pdf"}
    Asked = {"d", "r"}
    Patches = {"p1", "p2"}
    Sendable <- MCSendable
    Edits <- MCEdits
    MaxEdits = 1
INVARIANTS
    ResolvesTheReachablePath
    CompleteLeavesNothingOpen
    ValidatedWorkflowsLeadOn
    AnswersReadBack
PROPERTIES
    CertainSectionsStay
    RankedWereSelected
CHECK_DEADLOCK FALSE
