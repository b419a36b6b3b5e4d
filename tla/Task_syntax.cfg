CONSTANTS
    MaxStack = 5
    MaxLen = 2
    MaxLoops = 2
    Statuses <- FewStatuses
    BreakArgs = {1, 2}
    ExitArgs = {1}
    Syntax = {"if", "until", "for", "sub", "and", "pipe", "bang", "bg", "word", "group", "error"}
SPECIFICATION Spec
INVARIANTS TypeOK NothingRunsBetween
