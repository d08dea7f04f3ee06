SPECIFICATION Spec
CONSTANTS
    Run = run
    Executor = executor
    Answerers = {a1, a2}
    None = None
    Regimes = {"hasty"}
PROPERTIES
    FinishedStaysFinished
CHECK_DEADLOCK FALSE
