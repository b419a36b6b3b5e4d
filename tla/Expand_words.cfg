CONSTANTS
    Names = {"x", "y"}
    Values <- SomeValues
    Params <- SomeParams
    Words <- Arguments
    Sides <- RightSides
    Patterns <- CasePatterns
    IFS <- ColonSpace
    Blanks = {" "}
    MaxLen = 3
    TrimAtEnd = FALSE
    CaseAgain = FALSE
    InBracket <- OneOf
SPECIFICATION Spec
PROPERTIES FieldsAsStandard  CaseFresh
CHECK_DEADLOCK FALSE
