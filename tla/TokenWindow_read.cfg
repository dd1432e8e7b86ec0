SPECIFICATION Spec
CONSTANTS
    Texts <- MCTexts
    Outermost <- Module
    Nesting = 6
INVARIANTS
    WindowIsSource
    LedgerIsSource
    ClaimsStand
    ContextIsNesting
    CapLosesNothing
    ComparedOnce
CHECK_DEADLOCK FALSE
