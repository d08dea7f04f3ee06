SPECIFICATION Spec
CONSTANTS
    RecursionLimit = 13
    ConfidenceThreshold = 60
    Confidences = {50, 90}
    Verdicts = {"approve", "revise", "escalate"}
    Suggestions = {"none", "report"}
    MaxAnswers = 2
PROPERTIES
    ErrorsAreReported
    ImplementsLifecycle
CHECK_DEADLOCK FALSE
