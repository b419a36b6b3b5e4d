CONSTANTS
    MaxDepth = 3
    MaxStages = 2
    MaxCmds = 1
    Syntax = {"applet", "in", "fault"}
    Nesting <- AllNestings
SPECIFICATION Spec
INVARIANTS TypeOK GlobalsMatch
