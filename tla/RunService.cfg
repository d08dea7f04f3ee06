SPECIFICATION Spec
CONSTANTS
    Run = run
    Executor = executor
    Answerers = {a1, a2}
    None = None
    Regimes = {"careful", "hasty"}
SYMMETRY AnswerersAreAlike
INVARIANTS
    TypeOK
    AnswersFollowPauses
    AnswersHeard
    NothingLeftRunning
PROPERTIES
    FinishedForTheCareful
CHECK_DEADLOCK FALSE
