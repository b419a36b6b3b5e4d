CONSTANTS
    Names = {x, y}
    Values = {empty, one}
    Empty = empty
    Unset = unset
    Funs = {f, g}
    MaxBodies = 3
    MaxDepth = 0
    Ops = {"assign", "allexport", "export", "unset", "for", "default", "arithm", "cd", "getopts", "func"}
SYMMETRY Symmetry
SPECIFICATION Spec
INVARIANTS TypeOK EnvironAgrees
