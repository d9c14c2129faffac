SPECIFICATION Spec
CONSTANTS
    Requests = {p1, p2}
    Versions = {v1, v2, v3}
    StartNode = start
    EndNode = end
    SectionNodes = {s1}
    ConditionNodes = {}
    NoNode = none
    Statuses = {"draft"}
    MaxStatements = 3
    Overlap = TRUE
    OneEditor = FALSE
SYMMETRY Interchangeable
INVARIANTS
    AtMostOneActive
