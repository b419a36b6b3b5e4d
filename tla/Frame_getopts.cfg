CONSTANTS
    Words = {"-a", "-b", "-bv", "-z", "--"}
    Heap = {1, 2, 3, 4}
    MaxOperands = 3
    MaxDepth = 3
    ShiftNumbers <- Numbers
    ShiftMiddle = FALSE
    Letters <- LettersOf
    EndsOptions = {"--"}
    Takes <- TakesArgument
    Clusters = FALSE
    GoesOn = FALSE
SPECIFICATION GSpec
INVARIANTS GTypeOK LiveArgs
PROPERTIES PositionalParameters  LoopEnds
CHECK_DEADLOCK FALSE
