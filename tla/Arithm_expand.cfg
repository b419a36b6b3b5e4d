CONSTANTS
    Width = 5
    Literals <- LiteralValues
    Malformed <- Refused
    Names = {"x"}
    Exprs <- Supported
    Values <- SomeValues
    NoUnset = FALSE
SPECIFICATION Spec
INVARIANTS TypeOK
PROPERTIES ExpandsAsC
CHECK_DEADLOCK FALSE
