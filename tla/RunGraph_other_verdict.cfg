SPECIFICATION Spec
CONSTANTS
    RecursionLimit = 50
    ConfidenceThreshold = 60
    Confidences = {50, 90}
    Verdicts = {"approve", "revise", "escalate", "reject"}
    Suggestions = {"none", "eda"}
    MaxAnswers = 0
INVARIANTS
    ShipsOnlyIfApproved
CHECK_DEADLOCK FALSE
