----------------------------- MODULE Positional -----------------------------
(***************************************************************************)
(* What the positional parameters promise a script: each function call has *)
(* its own, they are the operands of the call until `set --` replaces them *)
(* or shift drops the first ones, and the caller finds its own again.      *)
(* WshFrame, the arrays of strings behind them, implements this module.    *)
(***************************************************************************)
EXTENDS Integers, Sequences

VARIABLES
    params,     \* params[k]: the parameters of the k-th call frame
    operands,   \* of the last command: words, for a call and for set
    number,     \* and a number, for shift
    exit        \* state->exit: -1 until the script is to end

vars == <<params, operands, number, exit>>
Last == Len(params)

Init == params = <<<<>>>> /\ operands = <<>> /\ number = 0 /\ exit = -1

Call == params' = Append(params, operands') /\ number' = 0 /\ exit' = exit

Return ==
    /\ Last > 1
    /\ params' = SubSeq(params, 1, Last - 1)
    /\ operands' = <<>> /\ number' = 0 /\ exit' = exit

Set == params' = [params EXCEPT ![Last] = operands'] /\ number' = 0 /\ exit' = exit

Shift ==
    /\ number' \in 0..Len(params[Last])
    /\ params' = [params EXCEPT ![Last] = SubSeq(@, number' + 1, Len(@))]
    /\ operands' = <<>> /\ exit' = exit

(* a number that is negative or larger than $# asks for the script's end *)
ShiftFails ==
    /\ number' \notin 0..Len(params[Last])
    /\ exit' = 1 /\ operands' = <<>> /\ params' = params

Next == Call \/ Return \/ Set \/ Shift \/ ShiftFails

Spec == Init /\ [][Next]_vars
=============================================================================
