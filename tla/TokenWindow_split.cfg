SPECIFICATION Spec
CONSTANTS
    Texts <- MCTexts
    Outermost <- Module
    Nesting = 6
INVARIANT ArrowRefusedForBreak
CHECK_DEADLOCK FALSE
