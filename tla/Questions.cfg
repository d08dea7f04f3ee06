SPECIFICATION AskingSpec
CONSTANTS
    MaxPasses = 1
    None = None
INVARIANTS
    AskingTypeOK
    EvidenceIsOfOneFit
    ExportMatchesMetrics
    DataIsCurrent
    OneDataset
    LeakageIsCaught
CHECK_DEADLOCK FALSE
