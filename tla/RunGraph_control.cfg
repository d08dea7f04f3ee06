SPECIFICATION Spec
CONSTANTS
    RecursionLimit = 50
    ConfidenceThreshold = 60
    Confidences = {50, 90}
    Verdicts = {"approve", "revise", "escalate", "reject"}
    Suggestions = {"none", "cleaning", "features", "model_selection"}
    MaxAnswers = 1
INVARIANTS
    TypeOK
    ApprovalIsSound
    ShippedIsFresh
    RetriesAreBounded
    OnlyConfidentPlansRun
    PausesHaveAReason
    FiveRetriesFit
PROPERTIES
    FailureStopsWork
    KeepsLifecycle
CHECK_DEADLOCK FALSE
