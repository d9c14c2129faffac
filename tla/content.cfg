SPECIFICATION Spec
CONSTANTS
    q1 = q1
    q2 = q2
    q3 = q3
    q4 = q4
    v1 = v1
    v2 = v2
    v3 = v3
    v4 = v4
    r1 = r1
    f1 = f1
    f2 = f2
    f3 = f3
    p1 = p1
    p2 = p2
    NoRow = none
    NoSlot = none
    NoFile = none
    Questions = {q1, q2, q3, q4}
    Views = {v1, v2, v3, v4}
    Responses = {r1}
    Files = {f1, f2, f3}
    Requests = {p1, p2}
    OldQuestions <- MCOldQuestions
    OldViews <- MCOldViews
    OldTypes <- MCOldTypes
    OldFiles <- MCOldFiles
    Wanted <- MCWanted
    Names <- MCNames
    MaxRequests = 2
INVARIANTS
    TypeOK
    PlacesWithoutGaps
    AnswersListTheirFiles
PROPERTIES
    RequestsAnswered
CHECK_DEADLOCK FALSE
