SPECIFICATION Spec
CONSTANTS
    MaxPasses = 2
    None = None
INVARIANTS
    LeakageRuleEnforced
CHECK_DEADLOCK FALSE
