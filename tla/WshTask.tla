------------------------------ MODULE WshTask ------------------------------
(***************************************************************************)
(* The control flow of the wsh script interpreter:                         *)
(* shell/mrsh/shell/task/task.c, the control part of pipeline.c, word.c    *)
(* and simple_command.c, and the builtins break, continue, return, exit,   *)
(* eval and "." .                                                          *)
(*                                                                         *)
(* The interpreter is a family of mutually recursive C functions.  Their   *)
(* activations are the records of `stack`; a value travels down it in      *)
(* `ret` as in C.  The script is not fixed: wherever a C function reads    *)
(* the syntax tree the model picks any node, so the behaviours are those   *)
(* of every script within the bounds.                                      *)
(***************************************************************************)
EXTENDS Integers, Sequences, FiniteSets

CONSTANTS
    MaxStack,   \* bound: nested activations
    MaxLen,     \* bound: commands in a list, words of a for, pipeline stages
    MaxLoops,   \* bound: |nloops| beyond which a script enters no loop
    Statuses,   \* what applets, guests and builtins return, unmasked
    BreakArgs,  \* the n of `break n` and `continue n`
    ExitArgs,   \* the n of `exit n` and `return n`
    Syntax      \* the constructs the scripts use

SyntaxKinds == {"if", "while", "until", "for", "sub", "func", "or", "and",
                "pipe", "bang", "bg", "word", "group", "error"}

ASSUME BoundsAssumption ==
    /\ MaxStack \in Nat /\ MaxLen \in Nat \ {0} /\ MaxLoops \in Nat
ASSUME StatusAssumption == Statuses \subseteq Int /\ {0, 1} \subseteq Statuses
ASSUME BreakAssumption == BreakArgs \subseteq Nat
ASSUME ExitAssumption == ExitArgs \subseteq 0..255
ASSUME SyntaxAssumption == Syntax \subseteq SyntaxKinds

(* TASK_STATUS_* of include/shell/task.h *)
TASK_STATUS_ERROR == -2
TASK_STATUS_INTERRUPTED == -4

VARIABLES
    stack,       \* activations of the C functions, the running one last
    ctl,         \* what the running activation is about to do
    ret,         \* the value being returned when ctl = "ret"
    frames,      \* state->frame and its prev chain, the current one last
    exit,        \* state->exit, -1 while the script is not exiting
    last_status, \* state->last_status, the script's $?
    intr,        \* history: the break/continue/return/exit being unwound
    absorbed     \* history: an interruption was dropped before its target

vars == <<stack, ctl, ret, frames, exit, last_status, intr, absorbed>>

(* "run": the activation goes on; "andor", "command", "simple": it calls   *)
(* run_and_or_list, run_command, or a simple command already expanded;     *)
(* "ret": its callee returned ret.                                         *)
Controls == {"run", "andor", "command", "simple", "ret"}
Functions == {"list", "if", "while", "until", "for", "sub", "func", "andor",
              "pipe", "word"}
Phases == {"cond", "tail", "words", "ready", "top", "body",
           "and", "or", "right", "plain", "bang", "none"}
Branches == {"break", "continue", "return", "exit"}
Loops == {"while", "until", "for"}
Interrupts == [kind : Branches \cup {"none"}, target : Nat]
NoInterrupt == [kind |-> "none", target |-> 0]

TopAct == stack[Len(stack)]
Callers == SubSeq(stack, 1, Len(stack) - 1)
Frame == frames[Len(frames)]

(* A fresh activation; frame is the frame_priv the C function captures.    *)
Act(fn, phase, frame, num, left, val) ==
    [fn |-> fn, phase |-> phase, frame |-> frame, num |-> num,
     left |-> left, val |-> val]

(* run_command_list_array at its first command; left counts the commands   *)
(* after the running one.                                                  *)
ListActs(frame) == {Act("list", "none", frame, 0, n, 0) : n \in 0..(MaxLen - 1)}

Room(n) == Len(stack) + n <= MaxStack

(* The running activation returns r to its caller. *)
Return(r) ==
    /\ stack' = Callers
    /\ ctl' = "ret"
    /\ ret' = r

(* The running activation becomes a and goes on with control c. *)
GoOn(a, c) ==
    /\ stack' = Append(Callers, a)
    /\ ctl' = c
    /\ ret' = 0

(* The running activation becomes a and calls run_command_list_array. *)
CallList(a) ==
    \E body \in ListActs(a.frame) :
        /\ stack' = Append(Append(Callers, a), body)
        /\ ctl' = "andor"
        /\ ret' = 0

(* A simple command, or a command with no activation of its own, ends with *)
(* r.                                                                      *)
Finish(r) ==
    /\ stack' = stack
    /\ ctl' = "ret"
    /\ ret' = r

(* History: an interruption r is dropped by something that is neither its  *)
(* loop nor its function.                                                  *)
Drop(r) ==
    /\ absorbed' = (absorbed \/ r = TASK_STATUS_INTERRUPTED)
    /\ intr' = NoInterrupt
Keep == UNCHANGED <<intr, absorbed>>

-----------------------------------------------------------------------------
(* run_command_list_array *)

Returned(fn) == stack # <<>> /\ TopAct.fn = fn /\ ctl = "ret"

(* $? after a command of a list returned r. *)
StatusAfter_any(r) == r    \* mutant
StatusAfter(r) == IF r >= 0 THEN r ELSE last_status

(* The status of one command of a list: a negative one ends the list,      *)
(* unless the command was started with & (which runs synchronously too and *)
(* differs in nothing else).                                               *)
ListItemDone ==
    /\ Returned("list")
    /\ last_status' = StatusAfter(ret)
    /\ \/ /\ TopAct.left = 0 \/ ret < 0
          /\ Return(ret)
          /\ Keep
       \/ /\ TopAct.left # 0
          /\ ret < 0 => "bg" \in Syntax
          /\ GoOn([TopAct EXCEPT !.left = @ - 1], "andor")
          /\ IF ret < 0 THEN Drop(ret) ELSE Keep
    /\ UNCHANGED <<frames, exit>>

-----------------------------------------------------------------------------
(* run_and_or_list and run_pipeline *)

AndOr ==
    /\ ctl = "andor"
    /\ Room(1)
    /\ \E op \in {"and", "or"} \cap Syntax :
          stack' = Append(stack, Act("andor", op, Len(frames), 0, 0, 0))
    /\ Keep
    /\ UNCHANGED <<ctl, ret, frames, exit, last_status>>

(* A negative status is not told apart from a failure: after || the right  *)
(* side runs and the left status is gone.                                  *)
AndOrDone ==
    /\ Returned("andor")
    /\ \/ /\ TopAct.phase = "right" \/ (TopAct.phase = "and" /\ ret # 0)
          /\ Return(ret)
          /\ Keep
       \/ /\ TopAct.phase = "or" /\ ret = 0
          /\ Return(0)
          /\ Keep
       \/ /\ TopAct.phase = "and" /\ ret = 0
          /\ GoOn([TopAct EXCEPT !.phase = "right"], "andor")
          /\ Keep
       \/ /\ TopAct.phase = "or" /\ ret # 0
          /\ GoOn([TopAct EXCEPT !.phase = "right"], "andor")
          /\ IF ret < 0 THEN Drop(ret) ELSE Keep
    /\ UNCHANGED <<frames, exit, last_status>>

(* A pipeline of several stages, or a single negated command; num is the   *)
(* number of stages and left counts those after the running one.           *)
Pipeline ==
    /\ ctl = "andor"
    /\ Room(1)
    /\ \E n \in 0..(MaxLen - 1), neg \in {"plain"} \cup ({"bang"} \cap Syntax) :
          /\ n = 0 => neg = "bang"
          /\ n > 0 => "pipe" \in Syntax
          /\ stack' = Append(stack, Act("pipe", neg, Len(frames), n + 1, n, 0))
    /\ ctl' = "command"
    /\ Keep
    /\ UNCHANGED <<ret, frames, exit, last_status>>

Negate_all(r) == IF r = 0 THEN 1 ELSE 0    \* mutant
Negate(r) == IF r >= 0 THEN (IF r = 0 THEN 1 ELSE 0) ELSE r

PipelineStageDone ==
    /\ Returned("pipe")
    /\ IF TopAct.left > 0
       THEN /\ GoOn([TopAct EXCEPT !.left = @ - 1], "command")
            /\ IF ret < 0 THEN Drop(ret) ELSE Keep
       ELSE /\ Return(IF TopAct.phase = "bang" THEN Negate(ret) ELSE ret)
            /\ Keep
    /\ UNCHANGED <<frames, exit, last_status>>

(* freopen of a stage's temporary file fails: the pipeline returns 1. *)
PipelineFails ==
    /\ stack # <<>> /\ TopAct.fn = "pipe" /\ ctl = "command"
    /\ TopAct.num > 1
    /\ Return(1)
    /\ Keep
    /\ UNCHANGED <<frames, exit, last_status>>

-----------------------------------------------------------------------------
(* run_command: simple commands *)

InCommand == ctl \in {"andor", "command"}
InSimple == InCommand \/ ctl = "simple"

(* An applet, a guest, a builtin without control effect, an assignment, a  *)
(* function definition, a case clause that selects nothing.  The int of an *)
(* applet or a guest is handed on as it is: a negative one is taken for a  *)
(* TASK_STATUS code.                                                       *)
RunProcess ==
    /\ InSimple
    /\ \E s \in Statuses : Finish(s)
    /\ Keep
    /\ UNCHANGED <<frames, exit, last_status>>

(* An expansion, a redirection or a readonly assignment fails. *)
SimpleFails ==
    /\ InSimple
    /\ "error" \in Syntax
    /\ Finish(TASK_STATUS_ERROR)
    /\ Keep
    /\ UNCHANGED <<frames, exit, last_status>>

(* Brace group, the selected case item, eval, "." : the list's status is   *)
(* the command's.                                                          *)
RunGroup ==
    /\ InSimple
    /\ "group" \in Syntax
    /\ Room(1)
    /\ \E body \in ListActs(Len(frames)) : stack' = Append(stack, body)
    /\ ctl' = "andor"
    /\ Keep
    /\ UNCHANGED <<ret, frames, exit, last_status>>

(* "." of a file that cannot be opened ends a script. *)
DotFails ==
    /\ InSimple
    /\ "error" \in Syntax
    /\ exit' = 1
    /\ Finish(1)
    /\ Keep
    /\ UNCHANGED <<frames, last_status>>

SetFrame(f) == frames' = [frames EXCEPT ![Len(frames)] = f]

(* History: the loops of the current call frame; t is the one that         *)
(* `break n` and `continue n` mean, the n-th from the inside or the        *)
(* outermost, 0 if there is none.                                          *)
FrameLoops ==
    {i \in 1..Len(stack) : stack[i].fn \in Loops /\ stack[i].frame = Len(frames)}
Min(a, b) == IF a < b THEN a ELSE b
IsLoopTarget(t, n) ==
    LET k == Min(n, Cardinality(FrameLoops))
    IN  IF k = 0 THEN t = 0
        ELSE /\ t \in FrameLoops
             /\ Cardinality({j \in FrameLoops : j > t}) = k - 1

(* nloops after `break n` or `continue n`. *)
LoopsLeft_offByOne(n) == Frame.nloops - Min(n, Frame.nloops)    \* mutant
LoopsLeft(n) == Frame.nloops - (Min(n, Frame.nloops) - 1)

builtin_break ==
    /\ InSimple
    /\ \E n \in BreakArgs, b \in {"break", "continue"} :
          /\ LoopsLeft(n) \in (-MaxLoops)..MaxLoops
          /\ SetFrame([nloops |-> LoopsLeft(n), branch |-> b])
          /\ \E t \in 0..Len(stack) :
                /\ IsLoopTarget(t, n)
                /\ intr' = [kind |-> b, target |-> t]
    /\ Finish(TASK_STATUS_INTERRUPTED)
    /\ UNCHANGED <<exit, last_status, absorbed>>

builtin_return ==
    /\ InSimple
    /\ \E n \in ExitArgs :
          /\ SetFrame([nloops |-> 0, branch |-> "return"])
          /\ last_status' = n
    /\ intr' = [kind |-> "return", target |-> 0]
    /\ Finish(TASK_STATUS_INTERRUPTED)
    /\ UNCHANGED <<exit, absorbed>>

builtin_exit ==
    /\ InSimple
    /\ \E n \in ExitArgs : exit' = n
    /\ SetFrame([Frame EXCEPT !.branch = "exit"])
    /\ intr' = [kind |-> "exit", target |-> 0]
    /\ Finish(TASK_STATUS_INTERRUPTED)
    /\ UNCHANGED <<last_status, absorbed>>

-----------------------------------------------------------------------------
(* Function calls (simple_command.c), subshells, command substitution *)

CallFunction ==
    /\ InSimple
    /\ "func" \in Syntax
    /\ Room(1)
    /\ stack' = Append(stack, Act("func", "none", Len(frames), 0, 0, 0))
    /\ frames' = Append(frames, [nloops |-> 0, branch |-> "break"])
    /\ ctl' = "command"
    /\ Keep
    /\ UNCHANGED <<ret, exit, last_status>>

pop_frame_onSuccess ==    \* mutant
    IF ret < 0 THEN UNCHANGED frames ELSE frames' = SubSeq(frames, 1, Len(frames) - 1)
pop_frame == frames' = SubSeq(frames, 1, Len(frames) - 1)

FunctionDone ==
    /\ Returned("func")
    /\ pop_frame
    /\ Return(ret)
    /\ intr' = IF intr.kind = "exit" THEN intr ELSE NoInterrupt
    /\ UNCHANGED <<exit, last_status, absorbed>>

run_subshell ==
    /\ InCommand
    /\ "sub" \in Syntax
    /\ Room(2)
    /\ \E body \in ListActs(Len(frames)) :
          stack' = Append(Append(stack, Act("sub", "none", Len(frames), 0, 0, last_status)), body)
    /\ ctl' = "andor"
    /\ Keep
    /\ UNCHANGED <<ret, frames, exit, last_status>>

SubshellDone ==
    /\ Returned("sub")
    /\ last_status' = TopAct.val
    /\ Return(ret)
    /\ Keep
    /\ UNCHANGED <<frames, exit>>

(* A command substitution in the words of a simple command, of a case or   *)
(* of a for; at most one per command.                                      *)
run_word_command ==
    /\ "word" \in Syntax
    /\ Room(2)
    /\ \E body \in ListActs(Len(frames)) :
          \/ /\ InCommand
             /\ stack' = Append(Append(stack, Act("word", "none", Len(frames), 0, 0, 0)), body)
          \/ /\ stack # <<>> /\ TopAct.fn = "for" /\ ctl = "run"
             /\ TopAct.phase = "words"
             /\ stack' = Append(Append(Append(Callers, [TopAct EXCEPT !.phase = "ready"]),
                                       Act("word", "words", Len(frames), 0, 0, 0)), body)
    /\ ctl' = "andor"
    /\ Keep
    /\ UNCHANGED <<ret, frames, exit, last_status>>

(* The program's result is ignored: the value is last_status, a negative   *)
(* one makes the expansion fail.                                           *)
WordCommandDone ==
    /\ Returned("word")
    /\ IF last_status < 0
       THEN Return(last_status)
       ELSE /\ stack' = Callers
            /\ ctl' = IF TopAct.phase = "words" THEN "run" ELSE "simple"
            /\ ret' = 0
    /\ IF ret < 0 THEN Drop(ret) ELSE Keep
    /\ UNCHANGED <<frames, exit, last_status>>

-----------------------------------------------------------------------------
(* run_if_clause *)

run_if_clause ==
    /\ InCommand
    /\ "if" \in Syntax
    /\ Room(2)
    /\ \E body \in ListActs(Len(frames)) :
          stack' = Append(Append(stack, Act("if", "cond", Len(frames), 0, 0, 0)), body)
    /\ ctl' = "andor"
    /\ Keep
    /\ UNCHANGED <<ret, frames, exit, last_status>>

IfDone ==
    /\ Returned("if")
    /\ \/ TopAct.phase = "tail" /\ Return(ret)
       \/ TopAct.phase = "cond" /\ ret < 0 /\ Return(ret)
       \/ TopAct.phase = "cond" /\ ret = 0
          /\ CallList([TopAct EXCEPT !.phase = "tail"])
       \/ TopAct.phase = "cond" /\ ret > 0 /\ Return(0)
       \/ TopAct.phase = "cond" /\ ret > 0
          /\ GoOn([TopAct EXCEPT !.phase = "tail"], "command")
    /\ Keep
    /\ UNCHANGED <<frames, exit, last_status>>

-----------------------------------------------------------------------------
(* run_loop_clause and run_for_clause *)

LoopNum_postIncrement == Frame.nloops    \* mutant
LoopNum == Frame.nloops + 1

EnterLoop ==
    /\ InCommand
    /\ Room(2)
    /\ Frame.nloops < MaxLoops
    /\ \E fn \in Loops \cap Syntax :
          stack' = Append(stack,
              Act(fn, IF fn = "for" THEN "words" ELSE "top",
                  Len(frames), LoopNum, 0, 0))
    /\ SetFrame([Frame EXCEPT !.nloops = @ + 1])
    /\ ctl' = "run"
    /\ Keep
    /\ UNCHANGED <<ret, exit, last_status>>

InLoop == stack # <<>> /\ TopAct.fn \in Loops

(* The way out of the while statement: --nloops and return r. *)
LeaveLoop(r) ==
    /\ SetFrame([Frame EXCEPT !.nloops = @ - 1])
    /\ Return(r)

(* The words of a for are expanded; a failure returns without --nloops.    *)
ForWords ==
    /\ InLoop /\ ctl = "run" /\ TopAct.phase \in {"words", "ready"}
    /\ \/ \E n \in 0..MaxLen :
             GoOn([TopAct EXCEPT !.left = n, !.phase = "top"], "run")
       \/ "error" \in Syntax /\ Return(TASK_STATUS_ERROR)
    /\ Keep
    /\ UNCHANGED <<frames, exit, last_status>>

Iterates_always == TRUE    \* mutant
Iterates == exit = -1

(* The head of the while statement. *)
LoopHead ==
    /\ InLoop /\ ctl = "run" /\ TopAct.phase = "top"
    /\ \/ /\ ~Iterates \/ (TopAct.fn = "for" /\ TopAct.left = 0)
          /\ LeaveLoop(TopAct.val)
       \/ /\ Iterates /\ TopAct.fn = "for" /\ TopAct.left > 0
          /\ CallList([TopAct EXCEPT !.left = @ - 1, !.phase = "body"])
          /\ UNCHANGED frames
       \/ /\ Iterates /\ TopAct.fn # "for"
          /\ CallList([TopAct EXCEPT !.phase = "cond"])
          /\ UNCHANGED frames
    /\ Keep
    /\ UNCHANGED <<exit, last_status>>

LoopCondition ==
    /\ InLoop /\ ctl = "ret" /\ TopAct.phase = "cond"
    /\ ret # TASK_STATUS_INTERRUPTED
    /\ \/ ret < 0 /\ Return(ret) /\ UNCHANGED frames
       \/ /\ ret >= 0
          /\ (TopAct.fn = "while") = (ret = 0)
          /\ CallList([TopAct EXCEPT !.phase = "body"])
          /\ UNCHANGED frames
       \/ /\ ret >= 0
          /\ (TopAct.fn = "while") # (ret = 0)
          /\ LeaveLoop(TopAct.val)
    /\ Keep
    /\ UNCHANGED <<exit, last_status>>

LoopBody ==
    /\ InLoop /\ ctl = "ret" /\ TopAct.phase = "body"
    /\ ret # TASK_STATUS_INTERRUPTED
    /\ IF ret < 0
       THEN Return(ret)
       ELSE GoOn([TopAct EXCEPT !.val = ret, !.phase = "top"], "run")
    /\ Keep
    /\ UNCHANGED <<frames, exit, last_status>>

Continues_never == FALSE    \* mutant
Continues == Frame.branch = "continue"

(* The label interrupt: .  loop_ret holds INTERRUPTED when the body was    *)
(* interrupted and keeps it on continue; when the condition was            *)
(* interrupted by continue, break_loop is read uninitialized.              *)
LoopInterrupt ==
    /\ InLoop /\ ctl = "ret" /\ TopAct.phase \in {"cond", "body"}
    /\ ret = TASK_STATUS_INTERRUPTED
    /\ LET loop_ret == IF TopAct.phase = "body" THEN ret ELSE TopAct.val
       IN \/ /\ Frame.nloops < TopAct.num
             /\ LeaveLoop(TASK_STATUS_INTERRUPTED)
             /\ Keep
          \/ /\ Frame.nloops >= TopAct.num
             /\ ~Continues
             /\ LeaveLoop(0)
             /\ intr' = NoInterrupt /\ UNCHANGED absorbed
          \/ /\ Frame.nloops >= TopAct.num
             /\ Continues
             /\ \/ /\ GoOn([TopAct EXCEPT !.val = loop_ret, !.phase = "top"], "run")
                   /\ UNCHANGED frames
                \/ TopAct.phase = "cond" /\ LeaveLoop(loop_ret)
             /\ intr' = NoInterrupt /\ UNCHANGED absorbed
    /\ UNCHANGED <<exit, last_status>>

-----------------------------------------------------------------------------
(* mrsh_state_create, then mrsh_run_program of the parsed script *)
Init ==
    /\ \E body \in ListActs(1) : stack = <<body>>
    /\ ctl = "andor"
    /\ ret = 0
    /\ frames = <<[nloops |-> 0, branch |-> "break"]>>
    /\ exit = -1
    /\ last_status = 0
    /\ intr = NoInterrupt
    /\ absorbed = FALSE

(* wsh_main has returned ret. *)
Terminated == stack = <<>> /\ UNCHANGED vars

Next ==
    \/ ListItemDone
    \/ AndOr \/ AndOrDone
    \/ Pipeline \/ PipelineStageDone \/ PipelineFails
    \/ RunProcess \/ SimpleFails \/ RunGroup \/ DotFails
    \/ builtin_break \/ builtin_return \/ builtin_exit
    \/ CallFunction \/ FunctionDone
    \/ run_subshell \/ SubshellDone
    \/ run_word_command \/ WordCommandDone
    \/ run_if_clause \/ IfDone
    \/ EnterLoop \/ ForWords \/ LoopHead \/ LoopCondition \/ LoopBody
    \/ LoopInterrupt
    \/ Terminated

Spec == Init /\ [][Next]_vars
FairSpec == Spec /\ WF_vars(Next)
-----------------------------------------------------------------------------
(* Properties *)

Results == Int
Activation ==
    {a \in [fn : Functions, phase : Phases, frame : Nat \ {0}, num : Int,
            left : Nat, val : Results] : a.fn = "sub" => a.val >= 0}
CallFrame == [nloops : Int, branch : Branches]

(* Every variable keeps its type; $? is never negative, whatever int a     *)
(* guest or an applet returns, and state->exit is -1 or an exit status.    *)
TypeOK ==
    /\ stack \in Seq(Activation)
    /\ ctl \in Controls
    /\ ret \in Results
    /\ frames \in Seq(CallFrame)
    /\ exit \in {-1} \cup 0..255
    /\ last_status \in Nat
    /\ intr \in Interrupts
    /\ absorbed \in BOOLEAN

(* The call frame an activation runs in: a function call runs its body in  *)
(* the frame it pushed.                                                    *)
BodyFrame(a) == IF a.fn = "func" THEN a.frame + 1 ELSE a.frame

(* run_loop_clause and run_for_clause keep the frame_priv they captured on *)
(* entry and write through it after their body ran: on every path of       *)
(* error, break, return and exit it must be the frame that is current      *)
(* again, and pop_frame (its assert) must never drop the script's own      *)
(* frame.                                                                  *)
Chained(s) ==
    /\ \A i \in 1..(Len(s) - 1) : s[i+1].frame = BodyFrame(s[i])
    /\ s # <<>> => s[1].frame = 1
Depth(s) == IF s = <<>> THEN 1 ELSE BodyFrame(s[Len(s)])
FramesBalanced == Chained(stack) /\ Len(frames) = Depth(stack)

(* An interruption raised by break or continue is taken by the loop it     *)
(* names and by no other: run_loop_clause compares nloops with its         *)
(* loop_num to know.                                                       *)
InterruptReachesTarget ==
    /\ ~absorbed
    /\ InLoop /\ ctl = "ret" /\ ret = TASK_STATUS_INTERRUPTED
    /\ intr.kind \in {"break", "continue"} /\ intr.target > 0
    => (Frame.nloops >= TopAct.num <=> Len(stack) = intr.target)

(* While nothing is being unwound, every open loop is counted: its         *)
(* loop_num is positive, larger than those of the loops around it, and at  *)
(* most the nloops of its call frame, whatever errors leaked before.       *)
LoopsCounted ==
    ~absorbed /\ ~(ctl = "ret" /\ ret = TASK_STATUS_INTERRUPTED)
    => \A i \in 1..Len(stack) : stack[i].fn \in Loops =>
         /\ stack[i].num \in 1..frames[stack[i].frame].nloops
         /\ \A j \in 1..(i - 1) :
              stack[j].fn \in Loops /\ stack[j].frame = stack[i].frame
              => stack[j].num < stack[i].num

(* Between break, continue, return or exit and the loop or the function    *)
(* that takes it no command is run: every list, if, subshell, && and !     *)
(* hands its negative status on.  What drops it on the way (the left side  *)
(* of ||, a stage that is not the last, &, a substitution) is left out.    *)
NothingRunsBetween ==
    ~absorbed /\ intr.kind # "none" => ctl = "ret" /\ ret = TASK_STATUS_INTERRUPTED

(* While no interruption is dropped on the way, break unwinds every        *)
(* activation down to its loop and continues right after it, and continue  *)
(* goes on with the next iteration of its loop, in which every inner loop, *)
(* list and clause is gone and the call frame is the one of the loop.  A   *)
(* continue in a loop's condition is left out: run_loop_clause then reads  *)
(* break_loop before it is set and may do either.                          *)
BreakUnwinds ==
    [][ /\ intr.kind \in {"break", "continue"} /\ intr.target > 0
        /\ intr' = NoInterrupt /\ ~absorbed'
        /\ intr.kind = "continue" => stack[intr.target].phase = "body"
        => /\ Len(frames') = stack[intr.target].frame
           /\ IF intr.kind = "break"
              THEN Len(stack') = intr.target - 1 /\ ret' = 0
              ELSE /\ Len(stack') = intr.target
                   /\ stack'[intr.target].phase = "top"
                   /\ stack'[intr.target].left = stack[intr.target].left
      ]_vars

(* Once state->exit is set no loop starts another iteration, so the        *)
(* script ends even if it was in a loop that would never end.              *)
ExitEndsScript == (exit # -1) ~> (stack = <<>>)
=============================================================================
