SPECIFICATION Spec
CONSTANTS
    Null = Null
    None = None
    Uuid <- MCUuid
    Schemas <- MCSchemas
    Families <- MCFamilies
    Fields <- MCFields
    ParentValues <- MCParentValues
    Generable <- MCGenerable
    URLParam <- MCURLParam
INVARIANT CreatedIsRetrievable
CHECK_DEADLOCK FALSE
