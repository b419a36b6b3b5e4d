CONSTANTS
    MaxDepth = 3
    MaxStages = 3
    MaxCmds = 1
    Syntax = {"applet", "builtin", "guest", "out"}
    Nesting <- NothingInStage
SPECIFICATION Spec
INVARIANTS OutputDelivered TerminalOnly StageInput NoTmpLeft GuestOutput
