CONSTANTS
    MaxStack = 6
    MaxLen = 1
    MaxLoops = 3
    Statuses <- FewStatuses
    BreakArgs = {1}
    ExitArgs = {1}
    Syntax = {"while", "for", "if", "sub", "func", "or", "error"}
SPECIFICATION FairSpec
INVARIANTS FramesBalanced InterruptReachesTarget LoopsCounted
PROPERTIES BreakUnwinds ExitEndsScript
