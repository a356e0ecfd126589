SPECIFICATION Spec
CONSTANTS
    Sessions = {s1}
    Drafts = {d1}
    Contents = {v1, v2}
    Calls = {c1, c2}
    Lines = {"go", "delete"}
    MaxTurns = 2
    MaxLines = 1
    MaxEdits = 1
    s1 = s1
    d1 = d1
    v1 = v1
    v2 = v2
    c1 = c1
    c2 = c2
SYMMETRY Interchangeable
INVARIANTS TypeOK OneLineOneApproval SentReviewed
PROPERTIES CancelHolds ApprovalSpec
CHECK_DEADLOCK FALSE
