SPECIFICATION Spec
CONSTANTS
    Calls = {c1, c2, c3}
    NSlots = 2
    None = none
    Faults <- MCFaults
INVARIANTS
    Accounted
    StartsFromFiles
PROPERTIES
    ImplementsOracleCalls
    EveryCallReturns
