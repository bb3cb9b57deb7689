CONSTANTS
    n1 = n1
    s1 = s1
    s2 = s2
    d1 = d1
    d2 = d2
    n2 = n2
    NotFound = NotFound
    Namespaces <- MCNamespaces
    Scopes <- MCScopes
    Ids <- MCIds
    Data <- MCData
    Capacity = 2
SYMMETRY MCSymmetry
SPECIFICATION HSpec
INVARIANT TypeOK
INVARIANT MapsMatchList
INVARIANT NoEmptyMaps
INVARIANT WithinCapacity
PROPERTY ImplementsLRUStore
PROPERTY EvictedOnlyWhenStale
