------------------------------ MODULE WshStdio ------------------------------
(***************************************************************************)
(* The standard streams of wsh.  WASI has neither pipe() nor dup(): a      *)
(* pipeline runs its stages one after the other through temporary files    *)
(* (shell/task/pipeline.c), a command substitution captures its output in  *)
(* one (word.c), and every other command writes to one that is copied to   *)
(* standard error when it ends (simple_command.c).  freopen() moves stdin  *)
(* and stdout and nothing moves them back; the code keeps track of where   *)
(* they are in the globals wsh_*.                                          *)
(*                                                                         *)
(* A pipeline, a command substitution and a function call in progress are  *)
(* the records of `stack`.  Output is abstracted to tags: the tag of a     *)
(* datum is the position in `stack` of the construct it is meant for, 0    *)
(* for the terminal.                                                       *)
(***************************************************************************)
EXTENDS Integers, Sequences, FiniteSets

CONSTANTS
    MaxDepth,   \* bound: open constructs
    MaxStages,  \* bound: stages of a pipeline
    MaxCmds,    \* bound: commands run in one stage, substitution or function
    Syntax,     \* what simple commands do: a subset of Features
    Nesting     \* the pairs <<outer, inner>> of constructs scripts nest, at
                \* any distance, <<outer, "guest">> where they run component
                \* guests; everything is inside "top"

Features == {"applet", "builtin", "guest", "out", "in", "fault"}
Constructs == {"top", "pipe", "word", "call"}

ASSUME BoundsAssumption ==
    MaxDepth \in Nat /\ MaxStages \in Nat \ {0, 1} /\ MaxCmds \in Nat \ {0}
ASSUME SyntaxAssumption == Syntax \subseteq Features
ASSUME NestingAssumption ==
    Nesting \subseteq Constructs \X ((Constructs \ {"top"}) \cup {"guest"})

VARIABLES
    stack,           \* constructs in progress, the innermost last
    redirected,      \* wsh_stdout_redirected
    capture,         \* wsh_capture_file
    stdout_file,     \* wsh_stdout_file
    stdin_file,      \* wsh_stdin_file
    fs,              \* /tmp, and where stdin and stdout are open
    term,            \* the tags written to STDERR_FILENO
    handover,        \* history: what the last reader wanted and what it got
    view             \* history: the streams the last simple command found

vars == <<stack, redirected, capture, stdout_file, stdin_file, fs, term,
          handover, view>>

-----------------------------------------------------------------------------
(* File names.  /tmp/_wsh_p_<pid>_<i> depends on the stage only.  The      *)
(* counters wsh_cmdsub_counter and wsh_out_counter make the other names    *)
(* unique; here the depth of the construct does, which is unique among     *)
(* those that exist at the same time.                                      *)
PipeTmp(i) == <<"p", i>>
WordTmp(d) == <<"w", d>>
CaptureTmp(d) == <<"c", d>>
UserFile == <<"u", 0>>
NULL == <<"null", 0>>
Dangling == <<"dangling", 0>>   \* the address of a buffer that is gone

Names == {PipeTmp(i) : i \in 0..(MaxStages - 1)}
         \cup {WordTmp(d) : d \in 1..MaxDepth}
         \cup {CaptureTmp(d) : d \in 1..(MaxDepth + 1)} \cup {UserFile}
TmpNames == Names \ {UserFile}

(* An unlinked file lives as long as a stream is open on it, so a name and *)
(* the file behind it differ; 0 is no file of these: the host's stream,    *)
(* /dev/null (where a pipeline leaves stdin) or a closed one.              *)
Inodes == 1..(Cardinality(Names) + 2)
UserTag == -1
Tags == UserTag..MaxDepth

Files == [dir : [Names -> Inodes \cup {0}], data : [Inodes -> SUBSET Tags],
          out : Inodes \cup {0}, in : Inodes \cup {0}]

InUse(f) == {f.dir[nm] : nm \in Names} \cup {f.out, f.in}
Fresh(f) == CHOOSE i \in Inodes \ InUse(f) : \A j \in Inodes \ InUse(f) : i <= j
Gc(f) == [f EXCEPT !.data = [i \in Inodes |-> IF i \in InUse(f) THEN @[i] ELSE {}]]

(* external: open(2) with O_CREAT, and with O_TRUNC unless append; unlink; *)
(* write; freopen of stdout and of stdin, which close the stream first.    *)
Create(f, nm, trunc) ==
    LET i == IF f.dir[nm] # 0 THEN f.dir[nm] ELSE Fresh(f)
    IN  [f EXCEPT !.dir[nm] = i,
                  !.data[i] = IF trunc \/ f.dir[nm] = 0 THEN {} ELSE @]
Unlink(f, nm) == Gc([f EXCEPT !.dir[nm] = 0])
Write(f, i, tags) == IF i = 0 THEN f ELSE [f EXCEPT !.data[i] = @ \cup tags]
Read(f, nm) == IF f.dir[nm] = 0 THEN {} ELSE f.data[f.dir[nm]]
ReopenOut(f, nm, trunc) ==
    LET g == Create([f EXCEPT !.out = 0], nm, trunc)
    IN  Gc([g EXCEPT !.out = g.dir[nm]])
ReopenIn(f, nm) == Gc([f EXCEPT !.in = f.dir[nm]])

-----------------------------------------------------------------------------
(* A record of stack: its construct k, the running stage i of n, the       *)
(* temporary file nm it owns, what it saved (pr, pc, so, si), whether a    *)
(* command inside wrote something for it (sent), the commands run (cmds).  *)
Open(k, n, nm) ==
    [k |-> k, n |-> n, i |-> 0, nm |-> nm, pr |-> redirected, pc |-> capture,
     so |-> stdout_file, si |-> stdin_file, sent |-> FALSE, cmds |-> 0]

Depth == Len(stack)
TopOf(s) == s[Len(s)]
Callers == SubSeq(stack, 1, Len(stack) - 1)
Kind(s) == IF s = <<>> THEN "top" ELSE TopOf(s).k

(* The construct that the output of a command run under s is meant for. *)
Receivers(s) == {d \in 1..Len(s) : s[d].k \in {"pipe", "word"}}
Dest(s) == IF Receivers(s) = {} THEN 0
           ELSE CHOOSE d \in Receivers(s) : \A e \in Receivers(s) : e <= d

(* The name that construct will read. *)
DestName(s) ==
    LET c == s[Dest(s)] IN IF c.k = "pipe" THEN PipeTmp(c.i) ELSE c.nm

Sent(s, yes) ==
    IF yes /\ Dest(s) # 0 THEN [s EXCEPT ![Dest(s)].sent = TRUE] ELSE s
Counted(s) == IF s = <<>> THEN s ELSE [s EXCEPT ![Len(s)].cmds = @ + 1]
MayRun == IF stack = <<>> THEN TRUE ELSE TopOf(stack).cmds < MaxCmds
Within(k) ==
    \A outer \in {"top"} \cup {stack[d].k : d \in 1..Depth} :
        <<outer, k>> \in Nesting
MayNest(k) == Depth < MaxDepth /\ MayRun /\ Within(k)

Wants(s) == IF TopOf(s).sent THEN {Len(s)} ELSE {}

-----------------------------------------------------------------------------
(* external: freopen of stdout that fails leaves it closed. *)
CloseOut(f) == Gc([f EXCEPT !.out = 0])
Opens == {TRUE} \cup (IF "fault" \in Syntax THEN {FALSE} ELSE {})

(* History: a command of a later stage, outside any substitution in it,    *)
(* finds stdin on the file the stage before wrote.                         *)
ReadsStage ==
    LET d == Dest(stack) IN
    IF d = 0 THEN TRUE
    ELSE IF stack[d].k = "word" \/ stack[d].i = 0 THEN TRUE
    ELSE fs.in # 0 /\ fs.in = fs.dir[PipeTmp(stack[d].i - 1)]

(* run_simple_command with run_builtin or run_process: an optional         *)
(* redirection, some output; opens: the capture file could be opened.  A   *)
(* redirection that cannot be opened is a command that says nothing.       *)
SimpleCommand(kind, redir, says, opens) ==
    LET cap == CaptureTmp(Depth + 1)
        need_capture == ~redirected /\ opens
        f1 == IF redirected THEN fs
              ELSE IF opens THEN ReopenOut(fs, cap, TRUE) ELSE CloseOut(fs)
        so1 == IF need_capture THEN cap ELSE stdout_file
        f2 == CASE redir = "out" -> ReopenOut(f1, UserFile, TRUE)
                [] redir = "in" -> ReopenIn(f1, UserFile)
                [] OTHER -> f1
        process == kind # "builtin"
        so2 == IF process /\ redir = "out" THEN UserFile ELSE so1
        si2 == IF process /\ redir = "in" THEN UserFile ELSE stdin_file
        inode(p) == IF p \in Names THEN f2.dir[p] ELSE 0
        target == IF kind = "guest" THEN inode(so2) ELSE f2.out
        tag == IF redir = "out" THEN UserTag ELSE Dest(stack)
        f3 == Write(f2, target, IF says THEN {tag} ELSE {})
        gone(p) == IF p \in {cap, UserFile} THEN Dangling ELSE p
    IN  /\ stack' = Sent(Counted(stack), says /\ redir # "out")
        /\ view' = [out |-> kind = "guest" => inode(so2) = f2.out,
                    stage |-> redir = "in" \/ ReadsStage]
        /\ fs' = IF need_capture THEN Unlink(f3, cap) ELSE f3
        /\ term' = IF need_capture THEN term \cup Read(f3, cap) ELSE term
        /\ handover' = IF ~redirected /\ redir # "out"
                       THEN [want |-> IF says THEN {0} ELSE {},
                             got |-> IF need_capture THEN Read(f3, cap) ELSE {}]
                       ELSE handover
        /\ stdout_file' = gone(so2)
        /\ stdin_file' = gone(si2)
        /\ UNCHANGED <<redirected, capture>>

RunSimpleCommand ==
    /\ MayRun
    /\ \E kind \in {"applet", "builtin", "guest"} \cap Syntax,
          redir \in {"none"} \cup ({"out", "in"} \cap Syntax),
          says \in BOOLEAN, opens \in Opens :
          /\ kind = "guest" => Within("guest")
          /\ ~opens => ~redirected
          /\ SimpleCommand(kind, redir, says, opens)

-----------------------------------------------------------------------------
(* run_simple_command when the name is a function.  When the capture file  *)
(* cannot be opened the function runs without one, stdout closed.          *)
CallFunction ==
    /\ MayNest("call")
    /\ LET cap == CaptureTmp(Depth + 1) IN
       \/ /\ ~redirected
          /\ stack' = Append(stack, Open("call", 0, cap))
          /\ stdout_file' = cap
          /\ fs' = ReopenOut(fs, cap, TRUE)
       \/ /\ \/ redirected /\ fs' = fs
             \/ ~redirected /\ "fault" \in Syntax /\ fs' = CloseOut(fs)
          /\ stack' = Append(stack, Open("call", 0, NULL))
          /\ UNCHANGED stdout_file
    /\ UNCHANGED <<redirected, capture, stdin_file, term, handover, view>>

FunctionReturns ==
    /\ Kind(stack) = "call"
    /\ LET cap == TopOf(stack).nm IN
       IF cap = NULL
       THEN UNCHANGED <<stdout_file, fs, term>>
       ELSE /\ term' = term \cup Read(fs, cap)
            /\ fs' = Unlink(fs, cap)
            /\ stdout_file' = IF stdout_file = cap THEN Dangling ELSE stdout_file
    /\ stack' = Counted(Callers)
    /\ UNCHANGED <<redirected, capture, stdin_file, handover, view>>

-----------------------------------------------------------------------------
(* While a pipeline or a substitution owns stdout, commands write to it    *)
(* directly.                                                               *)
TakeStdout_forgotten == UNCHANGED redirected    \* mutant
TakeStdout == redirected' = TRUE

(* run_pipeline with several stages *)
PipelineStart ==
    /\ MayNest("pipe")
    /\ \E n \in 2..MaxStages : stack' = Append(stack, Open("pipe", n, NULL))
    /\ TakeStdout
    /\ stdout_file' = PipeTmp(0)
    /\ stdin_file' = NULL
    /\ fs' = ReopenOut(fs, PipeTmp(0), TRUE)
    /\ UNCHANGED <<capture, term, handover, view>>

(* freopen of the first stage's file fails: the globals are put back, the  *)
(* pipeline returns 1.                                                     *)
PipelineStartFails ==
    /\ "fault" \in Syntax
    /\ MayNest("pipe")
    /\ stack' = Counted(stack)
    /\ fs' = CloseOut(fs)
    /\ UNCHANGED <<redirected, capture, stdout_file, stdin_file, term, handover,
                   view>>

RestoreGlobals_keepsRedirected ==    \* mutant
    /\ stdout_file' = TopOf(stack).so
    /\ stdin_file' = TopOf(stack).si
    /\ UNCHANGED redirected
(* The globals an early return and the normal end put back. *)
RestoreGlobals ==
    /\ redirected' = TopOf(stack).pr
    /\ stdout_file' = TopOf(stack).so
    /\ stdin_file' = TopOf(stack).si

(* The file a stage read is removed when the stage ends. *)
DropInput_never(f) == f    \* mutant
DropInput(f) ==
    LET i == TopOf(stack).i IN IF i > 0 THEN Unlink(f, PipeTmp(i - 1)) ELSE f

(* The streams of stage i + 1, and the names component guests are told.    *)
(* wsh_stdin_file is set to prev, a buffer of the block that ends before   *)
(* the stage runs: what a guest in it is told is whatever the memory holds *)
(* by then.                                                                *)
StageStreams_keepsStdin(f, i) == ReopenOut(f, PipeTmp(i + 1), TRUE)    \* mutant
StageStreams(f, i) == ReopenOut(ReopenIn(f, PipeTmp(i)), PipeTmp(i + 1), TRUE)
StageNames_keepsStdout(i) == stdin_file' = Dangling /\ UNCHANGED stdout_file    \* mutant
StageNames(i) == stdin_file' = Dangling /\ stdout_file' = PipeTmp(i + 1)

NextStage ==
    /\ Kind(stack) = "pipe"
    /\ LET c == TopOf(stack)
           f1 == DropInput(fs)
       IN  /\ c.i < c.n - 1
           /\ f1.dir[PipeTmp(c.i)] # 0
           /\ handover' = [want |-> Wants(stack), got |-> Read(f1, PipeTmp(c.i))]
           /\ fs' = StageStreams(f1, c.i)
           /\ StageNames(c.i)
           /\ stack' = [stack EXCEPT ![Depth].i = @ + 1, ![Depth].sent = FALSE,
                                     ![Depth].cmds = 0]
    /\ UNCHANGED <<redirected, capture, term, view>>

(* freopen of the input fails because the file is gone, or of the output   *)
(* because it cannot be opened: the pipeline returns 1 at once.            *)
StageOpenFails ==
    /\ Kind(stack) = "pipe"
    /\ LET c == TopOf(stack)
           f1 == DropInput(fs)
       IN  /\ c.i < c.n - 1
           /\ \/ /\ f1.dir[PipeTmp(c.i)] = 0
                 /\ fs' = Gc([f1 EXCEPT !.in = 0])
              \/ /\ f1.dir[PipeTmp(c.i)] # 0
                 /\ "fault" \in Syntax
                 /\ fs' = CloseOut(ReopenIn(f1, PipeTmp(c.i)))
           /\ handover' = [want |-> Wants(stack), got |-> Read(f1, PipeTmp(c.i))]
    /\ RestoreGlobals
    /\ stack' = Counted(Callers)
    /\ UNCHANGED <<capture, term, view>>

PipelineEnd ==
    /\ Kind(stack) = "pipe"
    /\ TopOf(stack).i = TopOf(stack).n - 1
    /\ LET final == PipeTmp(TopOf(stack).i)
           f1 == DropInput(fs)
           output == Read(f1, final)
           f2 == Unlink(f1, final)
           tags == IF output = {} THEN {} ELSE {Dest(Callers)}
           f3 == IF capture # NULL /\ output # {}
                 THEN LET g == Create(f2, capture, FALSE)
                      IN  Write(g, g.dir[capture], tags)
                 ELSE f2
       IN  /\ fs' = Gc([f3 EXCEPT !.in = 0])
           /\ term' = IF capture = NULL THEN term \cup tags ELSE term
           /\ handover' = [want |-> Wants(stack), got |-> output]
           /\ stack' = Counted(Sent(Callers, output # {}))
    /\ RestoreGlobals
    /\ UNCHANGED <<capture, view>>

-----------------------------------------------------------------------------
(* run_word_command *)
WordStart ==
    /\ MayNest("word")
    /\ LET tmpname == WordTmp(Depth + 1)
       IN  /\ stack' = Append(stack, Open("word", 0, tmpname))
           /\ fs' = ReopenOut(fs, tmpname, TRUE)
           /\ capture' = tmpname
    /\ TakeStdout
    /\ UNCHANGED <<stdout_file, stdin_file, term, handover, view>>

(* freopen of the temporary file fails: the expansion fails, and with it   *)
(* the command.                                                            *)
WordStartFails ==
    /\ "fault" \in Syntax
    /\ MayNest("word")
    /\ stack' = Counted(stack)
    /\ fs' = CloseOut(fs)
    /\ UNCHANGED <<redirected, capture, stdout_file, stdin_file, term, handover,
                   view>>

(* A nested substitution gives stdout back to the outer one, if its file   *)
(* can be opened; whether it could is not tested.                          *)
ReopenOuter_forgotten(f, pc, opens) == f    \* mutant
ReopenOuter(f, pc, opens) ==
    IF pc = NULL THEN f ELSE IF opens THEN ReopenOut(f, pc, FALSE) ELSE CloseOut(f)
RestoreCapture_wrongGlobal == capture' = TopOf(stack).so    \* mutant
RestoreCapture == capture' = TopOf(stack).pc

WordEnd ==
    /\ Kind(stack) = "word"
    /\ \E opens \in Opens :
       LET c == TopOf(stack)
           f1 == ReopenOuter(fs, c.pc, opens)
       IN  /\ redirected' = c.pr
           /\ RestoreCapture
           /\ handover' = [want |-> Wants(stack), got |-> Read(f1, c.nm)]
           /\ fs' = Unlink(f1, c.nm)
    /\ stack' = Callers
    /\ UNCHANGED <<stdout_file, stdin_file, term, view>>

-----------------------------------------------------------------------------
(* The user's file exists; nothing removes it. *)
Init ==
    /\ stack = <<>>
    /\ redirected = FALSE
    /\ capture = NULL
    /\ stdout_file = NULL
    /\ stdin_file = NULL
    /\ fs = [dir |-> [nm \in Names |-> IF nm = UserFile THEN 1 ELSE 0],
             data |-> [i \in Inodes |-> IF i = 1 THEN {UserTag} ELSE {}],
             out |-> 0, in |-> 0]
    /\ term = {}
    /\ handover = [want |-> {}, got |-> {}]
    /\ view = [out |-> TRUE, stage |-> TRUE]

Next ==
    \/ RunSimpleCommand
    \/ CallFunction \/ FunctionReturns
    \/ PipelineStart \/ PipelineStartFails \/ NextStage \/ StageOpenFails
    \/ PipelineEnd
    \/ WordStart \/ WordStartFails \/ WordEnd

Spec == Init /\ [][Next]_vars

-----------------------------------------------------------------------------
(* Properties *)

Pointers == Names \cup {NULL, Dangling}
Construct ==
    [k : Constructs \ {"top"}, n : 0..MaxStages, i : 0..(MaxStages - 1),
     nm : Names \cup {NULL}, pr : BOOLEAN, pc : Names \cup {NULL},
     so : Pointers, si : Pointers, sent : BOOLEAN, cmds : 0..MaxCmds]

(* Every variable keeps its type; wsh_capture_file, unlike wsh_stdout_file *)
(* and wsh_stdin_file, never points to a buffer that is gone.              *)
TypeOK ==
    /\ stack \in Seq(Construct)
    /\ redirected \in BOOLEAN
    /\ capture \in Names \cup {NULL}
    /\ stdout_file \in Pointers /\ stdin_file \in Pointers
    /\ fs \in Files
    /\ term \subseteq Tags
    /\ handover \in [want : SUBSET Tags, got : SUBSET Tags]
    /\ view \in [out : BOOLEAN, stage : BOOLEAN]

(* wsh_stdout_redirected is set exactly while a pipeline or a command      *)
(* substitution is in progress, and wsh_capture_file names the temporary   *)
(* file of the innermost substitution: the saves and restores of           *)
(* run_pipeline and run_word_command match on every path, early returns    *)
(* included.                                                               *)
GlobalsMatch ==
    /\ redirected <=> \E d \in 1..Depth : stack[d].k \in {"pipe", "word"}
    /\ \/ capture = NULL /\ \A d \in 1..Depth : stack[d].k # "word"
       \/ \E d \in 1..Depth :
            /\ stack[d].k = "word" /\ stack[d].nm = capture
            /\ \A e \in (d + 1)..Depth : stack[e].k # "word"

(* Every reader gets what was written for it and nothing else: the next    *)
(* stage of a pipeline, the end of a pipeline, a command substitution, the *)
(* copy of a command's output to the terminal.                             *)
OutputDelivered == handover.got = handover.want

(* Only what no pipeline stage and no command substitution is waiting for  *)
(* is written to the terminal.                                             *)
TerminalOnly == term \subseteq {0}

(* A command in a later stage of a pipeline reads what the stage before    *)
(* wrote.                                                                  *)
StageInput == view.stage

(* wsh_stdout_file tells a component guest the file that stdout is open    *)
(* on.  wsh_stdin_file does not keep that promise: it dangles in every     *)
(* stage but the first, and is NULL again after a pipeline that leaves     *)
(* stdin on /dev/null.                                                     *)
GuestOutput == view.out

(* When no construct is in progress no temporary file is left in /tmp. *)
NoTmpLeft == stack = <<>> => \A nm \in TmpNames : fs.dir[nm] = 0
=============================================================================
