SPECIFICATION Spec
CONSTANTS
    Runs = {r1, r2}
    Writers = {w1, w2}
    Entries = {e1, e2}
    None = None
    MaxRows = 2
INVARIANTS
    TypeOK
    SeqsAreGapless
    SnapshotIsLastRow
PROPERTIES
    IsAuditLog
CHECK_DEADLOCK FALSE
