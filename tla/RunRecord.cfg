SPECIFICATION Spec
CONSTANTS
    Cap = 2
    Prices = {0, 1, 2}
    EdaFigures = {relationship}
    EvaluationFigures = {importance}
    RetryStages = {"eda", "evaluation"}
    MaxRounds = 2
    MaxRefused = 1
    None = None
INVARIANTS
    TypeOK
    SpendIsBooked
    SpendIsBounded
    RestIsWhole
    DeckMatchesFiles
CHECK_DEADLOCK FALSE
