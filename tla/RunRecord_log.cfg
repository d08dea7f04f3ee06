SPECIFICATION Spec
CONSTANTS
    Cap = 2
    Prices = {0}
    EdaFigures = {relationship}
    EvaluationFigures = {importance}
    RetryStages = {"eda", "evaluation"}
    MaxRounds = 2
    MaxRefused = 1
    None = None
PROPERTIES
    LogIsKept
CHECK_DEADLOCK FALSE
