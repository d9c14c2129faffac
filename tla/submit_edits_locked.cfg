SPECIFICATION Spec
CONSTANTS
    u1 = u1
    u2 = u2
    r1 = r1
    r2 = r2
    p1 = p1
    p2 = p2
    none = none
    NoAnswer = none
    NoNode = none
    NoUser = none
    NoResponse = none
    Users = {u1}
    Requests = {p1}
    Responses = {r1}
    Questions <- MCQuestions
    Sections <- MCSections
    SectionOf <- MCSectionOf
    Required <- MCQuestions
    Workflow <- MCWorkflow
    Accepts <- MCAccepts
    UploadQuestions = {"file"}
    OAuthQuestions = {"account"}
    Payloads <- TeamPayloads
    StatusMoves = {"archived"}
    InitialForms <- LockingForms
    FormPatches <- NoPatches
    Null = none
    SequentialClients = TRUE
PROPERTIES
    LockedResponsesStay
