SPECIFICATION Spec
CONSTANTS
    Operations <- MCOperations
    Plurals <- MCPlurals
    Participles <- MCParticiples
INVARIANTS
    ActionStaysGeneric
    MethodAgrees
    ArrayStaysList
\* an operation is classified once
CHECK_DEADLOCK FALSE
