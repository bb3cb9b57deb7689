SPECIFICATION Spec
CONSTANTS
    Null = Null
    None = None
    Uuid <- MCUuid
    Schemas <- MCSchemas
    Families <- MCFamilies
    Fields <- MCFields
    ParentValues <- MCParentValues
    Generable <- MCGenerable
    URLParam <- MCURLParam
INVARIANTS
    AnswersConform
    RetrievableById
    ExampleNeverSetsId
    ParentsIsolated
\* one creation and one fetch, then the run is over
CHECK_DEADLOCK FALSE
