SPECIFICATION Spec
CONSTANTS
    n1 = n1
    s1 = s1
    s2 = s2
    r1 = r1
    r2 = r2
    r3 = r3
    r4 = r4
    f1 = f1
    f2 = f2
    Requests <- MCRequests
    Namespaces <- MCNamespaces
    Scopes <- MCScopes
    Ids <- MCIds
    Capacity = 1
    Types <- MCTypes
    Fields <- MCFields
    Bodies <- MCBodies
    Generated = Generated
    Malformed = Malformed
    NotFound = NotFound
    None = None
SYMMETRY MCSymmetry
INVARIANTS
    SequentialFetch
    RevivedOnlyByRace
    NoLeak
\* every request is answered once, then the run is over
CHECK_DEADLOCK FALSE
