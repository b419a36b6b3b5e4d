CONSTANTS
    Names = {x, y}
    Values = {empty, one}
    Empty = empty
    Unset = unset
    Funs = {f, g}
    MaxBodies = 3
    MaxDepth = 2
    Ops = {"assign", "export", "unset", "prefix", "func", "subshell"}
SYMMETRY Symmetry
SPECIFICATION Spec
INVARIANTS LiveBodies
PROPERTIES ReadonlyKept
