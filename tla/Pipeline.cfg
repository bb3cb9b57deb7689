SPECIFICATION Spec
CONSTANTS
    None = None
    NotANumber = NotANumber
    TwoXX = TwoXX
    Documents <- MCDocuments
    LibraryErrors <- MCLibraryErrors
    Codes <- MCCodes
INVARIANTS
    WritesOnlyChecked
    SuccessFromOwnResponse
    ListedIsOffered
    DegradedNeverEmpty
\* one request, then the run is over
CHECK_DEADLOCK FALSE
