SPECIFICATION Spec
CONSTANTS
    root = root
    other = other
    text = text
    entity = entity
    bare = bare
    nothing = nothing
    f = f
    g = g
    id = id
    k = k
    Nodes <- MCNodes
    Root = root
    Null = nothing
    Documents <- MCDocuments
    Depths = {0, 1, 2}
    DefaultMaxDepth = 3
    DefaultArrayLen = 1
    MaxRecursion = 24
    MapKeys = {k}
    DefaultIntMax = 8
    Untyped = Untyped
    None = None
INVARIANTS
    NestingLimited
\* an answer is generated once
CHECK_DEADLOCK FALSE
