SPECIFICATION Spec
CONSTANTS
    Requests = {p1, p2}
    Versions = {v1, v2, v3}
    StartNode = start
    EndNode = end
    SectionNodes = {s1}
    ConditionNodes = {}
    NoNode = none
    Statuses = {"draft", "archived"}
    MaxStatements = 4
    Overlap = TRUE
    OneEditor = FALSE
SYMMETRY Interchangeable
INVARIANTS
    TypeOK
    ActivesAreValid
    PublishedHasActive
PROPERTIES
    ActiveVersionsStay
