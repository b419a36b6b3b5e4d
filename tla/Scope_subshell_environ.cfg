CONSTANTS
    Names = {x}
    Values = {empty, one}
    Empty = empty
    Unset = unset
    Funs = {f}
    MaxBodies = 1
    MaxDepth = 1
    Ops = {"assign", "subshell"}
SPECIFICATION Spec
INVARIANTS EnvironAgrees
