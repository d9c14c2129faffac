SPECIFICATION Spec
CONSTANTS
    Requests = {p1, p2}
    Versions = {v1, v2, v3, v4}
    StartNode = start
    EndNode = end
    SectionNodes = {s1, s2}
    ConditionNodes = {c1}
    NoNode = none
    Statuses = {"draft", "archived"}
    MaxStatements = 4
    Overlap = FALSE
    OneEditor = TRUE
SYMMETRY Interchangeable
INVARIANTS
    AtMostOneActive
    SectionsHaveNodes
