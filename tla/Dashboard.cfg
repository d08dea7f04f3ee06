SPECIFICATION Spec
CONSTANTS
    Pages = {p1, p2}
    Patience = 1
    MaxPauses = 2
    MaxAnswers = 3
INVARIANTS
    EndsOnScreenAreFinal
    QuestionsOnScreenAreOpen
    AnswersMeetTheirQuestion
PROPERTIES
    LifecycleIsKept
    PagesCatchUp
CHECK_DEADLOCK FALSE
