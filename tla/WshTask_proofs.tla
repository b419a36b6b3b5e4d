--------------------------- MODULE WshTask_proofs ---------------------------
(***************************************************************************)
(* Type correctness of WshTask, the balance of its call frames, the count  *)
(* of its open loops, and the way of break and continue to their loop, for *)
(* every value of the bounds and every syntax.                             *)
(***************************************************************************)
EXTENDS WshTask, WshSequences, FiniteSetTheorems

(* The values the functions of task.c return. *)
LEMMA ResultType ==
    /\ 0 \in Results /\ 1 \in Results
    /\ TASK_STATUS_ERROR \in Results /\ TASK_STATUS_INTERRUPTED \in Results
    /\ \A r \in Results : r >= 0 => r \in Nat
    /\ \A r \in Nat : r \in Results
    /\ \A r \in Results : Negate(r) \in Results
<1>1. 0 \in Results /\ 1 \in Results
  BY DEF Results
<1>2. TASK_STATUS_ERROR \in Results /\ TASK_STATUS_INTERRUPTED \in Results
  BY DEF Results, TASK_STATUS_ERROR, TASK_STATUS_INTERRUPTED
<1>3. \A r \in Results : r >= 0 => r \in Nat
  BY DEF Results
<1>4. \A r \in Nat : r \in Results
  BY DEF Results
<1>5. \A r \in Results : Negate(r) \in Results
  BY <1>1 DEF Negate
<1> QED
  BY <1>1, <1>2, <1>3, <1>4, <1>5, Zenon

(* The names the actions use. *)
LEMMA Named ==
    /\ "andor" \in Functions \ {"sub"} /\ "pipe" \in Functions \ {"sub"}
    /\ "func" \in Functions \ {"sub"} /\ "word" \in Functions \ {"sub"}
    /\ "if" \in Functions \ {"sub"} /\ "list" \in Functions \ {"sub"}
    /\ "sub" \in Functions
    /\ "cond" \in Phases /\ "tail" \in Phases /\ "ready" \in Phases
    /\ "top" \in Phases /\ "body" \in Phases /\ "right" \in Phases
    /\ "and" \in Phases /\ "or" \in Phases /\ "none" \in Phases
    /\ "words" \in Phases /\ "andor" \in Controls /\ "run" \in Controls
    /\ "command" \in Controls
BY Zenon DEF Functions, Phases, Controls

(* The fields of an activation, and the updates the actions make. *)
LEMMA Fields ==
    ASSUME NEW a \in Activation
    PROVE  /\ a.left \in Nat /\ a.val \in Results
           /\ a.frame \in Nat \ {0} /\ (a.fn = "sub" => a.val \in Nat)
<1>1. a.left \in Nat
  BY DEF Activation
<1>2. a.val \in Results
  BY DEF Activation
<1>3. a.frame \in Nat \ {0}
  BY DEF Activation
<1>4. a.fn = "sub" => a.val >= 0
  BY DEF Activation
<1> QED
  BY <1>1, <1>2, <1>3, <1>4, ResultType, Zenon

(* An activation enters another phase. *)
LEMMA SetPhase ==
    ASSUME NEW a \in Activation, NEW phase \in Phases
    PROVE  LET b == [a EXCEPT !.phase = phase]
           IN  b \in Activation /\ b.fn = a.fn /\ b.frame = a.frame /\ b.num = a.num
BY Zenon DEF Activation

(* An activation has another number of items left. *)
LEMMA SetLeft ==
    ASSUME NEW a \in Activation, NEW left \in Nat
    PROVE  LET b == [a EXCEPT !.left = left]
           IN  b \in Activation /\ b.fn = a.fn /\ b.frame = a.frame /\ b.num = a.num
BY Zenon DEF Activation

(* Both of them change. *)
LEMMA SetLeftPhase ==
    ASSUME NEW a \in Activation, NEW left \in Nat, NEW phase \in Phases
    PROVE  LET b == [a EXCEPT !.left = left, !.phase = phase]
           IN  b \in Activation /\ b.fn = a.fn /\ b.frame = a.frame /\ b.num = a.num
BY Zenon DEF Activation

(* The status it will return and the phase change. *)
LEMMA SetValPhase ==
    ASSUME NEW a \in Activation, a.fn # "sub", NEW val \in Results,
           NEW phase \in Phases
    PROVE  LET b == [a EXCEPT !.val = val, !.phase = phase]
           IN  b \in Activation /\ b.fn = a.fn /\ b.frame = a.frame /\ b.num = a.num
BY Zenon DEF Activation

(* A fresh activation of any kind but a subshell is well typed. *)
LEMMA ActType ==
    ASSUME NEW fn \in Functions \ {"sub"}, NEW phase \in Phases,
           NEW frame \in Nat \ {0}, NEW num \in Int, NEW left \in Nat
    PROVE  /\ Act(fn, phase, frame, num, left, 0) \in Activation
           /\ Act(fn, phase, frame, num, left, 0).fn = fn
           /\ Act(fn, phase, frame, num, left, 0).frame = frame
BY SMT DEF Act, Activation, Results, TASK_STATUS_ERROR, TASK_STATUS_INTERRUPTED

(* run_subshell keeps the parent's $? in its activation. *)
LEMMA SubType ==
    ASSUME NEW frame \in Nat \ {0}, NEW val \in Results, val >= 0
    PROVE  /\ Act("sub", "none", frame, 0, 0, val) \in Activation
           /\ Act("sub", "none", frame, 0, 0, val).fn = "sub"
           /\ Act("sub", "none", frame, 0, 0, val).frame = frame
<1>1. "sub" \in Functions /\ "none" \in Phases /\ 0 \in Int /\ 0 \in Nat
  BY Named
<1> QED
  BY <1>1 DEF Act, Activation

(* A list just called. *)
LEMMA ListType ==
    ASSUME NEW frame \in Nat \ {0}, NEW body \in ListActs(frame)
    PROVE  body \in Activation /\ body.fn = "list" /\ body.frame = frame
<1>1. PICK n \in 0..(MaxLen - 1) : body = Act("list", "none", frame, 0, n, 0)
  BY DEF ListActs
<1>2. "none" \in Phases
  BY DEF Phases
<1>3. n \in Nat /\ 0 \in Int /\ "list" \in Functions \ {"sub"}
  BY BoundsAssumption DEF Functions
<1> QED
  BY <1>1, <1>2, <1>3, ActType

(* Pushing an activation that runs in the current frame keeps the chain. *)
LEMMA Push ==
    ASSUME NEW s \in Seq(Activation), Chained(s), NEW a \in Activation,
           a.frame = Depth(s)
    PROVE  /\ Append(s, a) \in Seq(Activation)
           /\ Chained(Append(s, a))
           /\ Depth(Append(s, a)) = BodyFrame(a)
<1>1. Append(s, a) \in Seq(Activation) /\ Append(s, a) # <<>>
      /\ Len(Append(s, a)) = Len(s) + 1
      /\ Append(s, a)[Len(s) + 1] = a
      /\ \A i \in 1..Len(s) : Append(s, a)[i] = s[i]
  OBVIOUS
<1>2. Len(s) \in Nat /\ (s = <<>> <=> Len(s) = 0)
  OBVIOUS
<1>3. Depth(Append(s, a)) = BodyFrame(a)
  BY <1>1, <1>2 DEF Depth
<1>4. ASSUME NEW i \in 1..Len(s)
      PROVE  Append(s, a)[i+1].frame = BodyFrame(Append(s, a)[i])
  <2>1. CASE i < Len(s)
    BY <1>1, <1>2, <2>1 DEF Chained
  <2>2. CASE i = Len(s)
    BY <1>1, <1>2, <2>2 DEF Depth
  <2> QED
    BY <1>2, <2>1, <2>2
<1>5. Append(s, a)[1].frame = 1
  BY <1>1, <1>2 DEF Chained, Depth
<1> QED
  BY <1>1, <1>2, <1>3, <1>4, <1>5 DEF Chained

(* Popping an activation gives back the frame it was entered with. *)
LEMMA Pop ==
    ASSUME NEW s \in Seq(Activation), s # <<>>, Chained(s),
           NEW t \in Seq(Activation), Len(t) = Len(s) - 1,
           \A i \in 1..(Len(s) - 1) : t[i] = s[i]
    PROVE  /\ Chained(t)
           /\ Depth(t) = s[Len(s)].frame
<1>1. Len(s) \in Nat \ {0}
  OBVIOUS
<1>3. t = <<>> <=> Len(s) = 1
  BY <1>1
<1>4. Chained(t)
  BY <1>1, <1>3 DEF Chained
<1>5. Depth(t) = s[Len(s)].frame
  <2>1. CASE Len(s) = 1
    BY <1>3, <2>1 DEF Depth, Chained
  <2>2. CASE Len(s) # 1
    BY <1>1, <1>3, <2>2 DEF Depth, Chained
  <2> QED
    BY <2>1, <2>2
<1> QED
  BY <1>4, <1>5

-----------------------------------------------------------------------------
(* The inductive invariant.  TypeOK alone is not: a frame is written only  *)
(* because the chain says there is one.                                    *)
IInv == TypeOK /\ FramesBalanced

(* What the running activation and its callers look like. *)
LEMMA Top ==
    ASSUME IInv, stack # <<>>
    PROVE  /\ TopAct \in Activation
           /\ Callers \in Seq(Activation)
           /\ Chained(Callers)
           /\ Depth(Callers) = TopAct.frame
           /\ Len(frames) = BodyFrame(TopAct)
           /\ TopAct.frame \in Nat \ {0}
<1>1. stack \in Seq(Activation) /\ Chained(stack) /\ Len(frames) = Depth(stack)
  BY DEF IInv, TypeOK, FramesBalanced
<1>2. TopAct \in Activation /\ Len(frames) = BodyFrame(TopAct)
  BY <1>1 DEF TopAct, Depth
<1>3. TopAct.frame \in Nat \ {0}
  BY <1>2 DEF Activation
<1>4. /\ Callers \in Seq(Activation) /\ Len(Callers) = Len(stack) - 1
      /\ \A i \in 1..(Len(stack) - 1) : Callers[i] = stack[i]
  BY <1>1, FrontIs, Zenon DEF Callers
<1>5. Chained(Callers) /\ Depth(Callers) = TopAct.frame
  BY <1>1, <1>4, Pop DEF TopAct
<1> QED
  BY <1>2, <1>3, <1>4, <1>5

(* There is always a current call frame. *)
LEMMA FrameExists ==
    ASSUME IInv
    PROVE  /\ Len(frames) \in Nat \ {0}
           /\ Frame \in CallFrame
           /\ Len(frames) = Depth(stack)
           /\ \A f \in CallFrame :
                /\ [frames EXCEPT ![Len(frames)] = f] \in Seq(CallFrame)
                /\ Len([frames EXCEPT ![Len(frames)] = f]) = Len(frames)
<1>1. frames \in Seq(CallFrame) /\ Len(frames) = Depth(stack)
  BY DEF IInv, TypeOK, FramesBalanced
<1>2. Depth(stack) \in Nat \ {0}
  <2>1. CASE stack = <<>>
    BY <2>1 DEF Depth
  <2>2. CASE stack # <<>>
    BY <2>2, Top, <1>1 DEF BodyFrame
  <2> QED
    BY <2>1, <2>2
<1> QED
  BY <1>1, <1>2 DEF Frame

(* The running activation returns. *)
LEMMA ReturnStep ==
    ASSUME IInv, stack # <<>>, NEW r \in Results, Return(r), TopAct.fn # "func",
           Len(frames') = Len(frames)
    PROVE  /\ stack' \in Seq(Activation) /\ ctl' \in Controls /\ ret' \in Results
           /\ FramesBalanced'
BY Top DEF Return, FramesBalanced, BodyFrame, Controls

(* The running activation goes on as a. *)
LEMMA GoOnStep ==
    ASSUME IInv, stack # <<>>, NEW a \in Activation, NEW c \in Controls, GoOn(a, c),
           a.frame = TopAct.frame, a.fn = TopAct.fn, Len(frames') = Len(frames)
    PROVE  /\ stack' \in Seq(Activation) /\ ctl' \in Controls /\ ret' \in Results
           /\ FramesBalanced'
<1>1. /\ stack' \in Seq(Activation) /\ Chained(stack')
      /\ Depth(stack') = BodyFrame(a)
  BY Top, Push DEF GoOn
<1> QED
  BY <1>1, Top DEF GoOn, FramesBalanced, BodyFrame, Results

(* The running activation becomes a and calls a list. *)
LEMMA CallListStep ==
    ASSUME IInv, stack # <<>>, NEW a \in Activation, CallList(a),
           a.frame = TopAct.frame, a.fn = TopAct.fn, a.fn # "func",
           Len(frames') = Len(frames)
    PROVE  /\ stack' \in Seq(Activation) /\ ctl' \in Controls /\ ret' \in Results
           /\ FramesBalanced'
<1>1. PICK body \in ListActs(a.frame) :
        /\ stack' = Append(Append(Callers, a), body)
        /\ ctl' = "andor" /\ ret' = 0
  BY DEF CallList
<1>2. /\ Append(Callers, a) \in Seq(Activation) /\ Chained(Append(Callers, a))
      /\ Depth(Append(Callers, a)) = a.frame
  BY Top, Push DEF BodyFrame
<1>3. body \in Activation /\ body.fn = "list" /\ body.frame = a.frame
  BY Top, ListType
<1>4. /\ stack' \in Seq(Activation) /\ Chained(stack')
      /\ Depth(stack') = a.frame
  BY <1>1, <1>2, <1>3, Push DEF BodyFrame
<1> QED
  BY <1>1, <1>4, Top DEF FramesBalanced, BodyFrame, Results, Controls

(* An activation and, in it, a list are pushed on the running activation. *)
LEMMA PushListStep ==
    ASSUME IInv, NEW a \in Activation, a.frame = Len(frames), a.fn # "func",
           NEW body \in ListActs(Len(frames)),
           stack' = Append(Append(stack, a), body), Len(frames') = Len(frames)
    PROVE  stack' \in Seq(Activation) /\ FramesBalanced'
<1>1. /\ Append(stack, a) \in Seq(Activation) /\ Chained(Append(stack, a))
      /\ Depth(Append(stack, a)) = a.frame
  BY FrameExists, Push DEF IInv, TypeOK, FramesBalanced, BodyFrame
<1>2. body \in Activation /\ body.fn = "list" /\ body.frame = Len(frames)
  BY FrameExists, ListType
<1>3. /\ stack' \in Seq(Activation) /\ Chained(stack')
      /\ Depth(stack') = BodyFrame(body)
  BY <1>1, <1>2, Push
<1> QED
  BY <1>2, <1>3 DEF FramesBalanced, BodyFrame

(* An activation is pushed on the running activation. *)
LEMMA PushStep ==
    ASSUME IInv, NEW a \in Activation, a.frame = Len(frames),
           stack' = Append(stack, a), Len(frames') = BodyFrame(a)
    PROVE  stack' \in Seq(Activation) /\ FramesBalanced'
BY Push DEF IInv, TypeOK, FramesBalanced

-----------------------------------------------------------------------------
(* The initial state: a list runs in the script's own frame. *)
LEMMA InitIInv == Init => IInv
<1> SUFFICES ASSUME Init PROVE IInv
  OBVIOUS
<1>1. PICK body \in ListActs(1) : stack = <<body>>
  BY DEF Init
<1>2. body \in Activation /\ body.fn = "list" /\ body.frame = 1
  BY <1>1, ListType
<1>3. stack \in Seq(Activation) /\ Len(stack) = 1 /\ stack[1] = body
      /\ stack # <<>>
  BY <1>1, <1>2
<1>4. Chained(stack) /\ Depth(stack) = 1
  BY <1>2, <1>3 DEF Chained, Depth, BodyFrame
<1>5. frames \in Seq(CallFrame) /\ Len(frames) = 1
  BY DEF Init, CallFrame, Branches
<1>6. FramesBalanced
  BY <1>4, <1>5 DEF FramesBalanced
<1>7. ctl \in Controls /\ ret \in Results
  BY Named, ResultType DEF Init
<1>8. exit \in {-1} \cup 0..255 /\ last_status \in Nat
  BY DEF Init
<1>9. intr \in Interrupts /\ absorbed \in BOOLEAN
  BY DEF Init, Interrupts, NoInterrupt
<1> QED
  BY <1>3, <1>5, <1>6, <1>7, <1>8, <1>9, Zenon DEF IInv, TypeOK

(* The history variables keep their types. *)
LEMMA DropType ==
    ASSUME IInv, NEW r, Drop(r)
    PROVE  intr' \in Interrupts /\ absorbed' \in BOOLEAN
BY DEF Drop, NoInterrupt, Interrupts, Branches

(* The history variables are left alone. *)
LEMMA KeepType ==
    ASSUME IInv, Keep
    PROVE  intr' \in Interrupts /\ absorbed' \in BOOLEAN
BY DEF Keep, IInv, TypeOK

(* run_command_list_array *)
LEMMA ListItemDoneStep == IInv /\ ListItemDone => IInv'
<1> SUFFICES ASSUME IInv, ListItemDone PROVE IInv'
  OBVIOUS
<1>1. /\ stack # <<>> /\ TopAct.fn = "list" /\ TopAct \in Activation
      /\ ret \in Results /\ Len(frames') = Len(frames)
  BY Top DEF ListItemDone, Returned, IInv, TypeOK
<1>2. last_status' \in Nat
  <2>1. last_status \in Nat
    BY DEF IInv, TypeOK
  <2>2. last_status' = IF ret >= 0 THEN ret ELSE last_status
    BY DEF ListItemDone, StatusAfter
  <2> QED
    BY <1>1, <2>1, <2>2, ResultType
<1>3. intr' \in Interrupts /\ absorbed' \in BOOLEAN
  BY DropType, KeepType DEF ListItemDone
<1>4. /\ stack' \in Seq(Activation) /\ ctl' \in Controls /\ ret' \in Results
      /\ FramesBalanced'
  <2>1. CASE Return(ret)
    BY <1>1, <2>1, ReturnStep DEF ListItemDone
  <2>2. CASE TopAct.left # 0 /\ GoOn([TopAct EXCEPT !.left = @ - 1], "andor")
    <3> DEFINE a == [TopAct EXCEPT !.left = @ - 1]
    <3>1. TopAct.left - 1 \in Nat
      BY <1>1, <2>2, Fields
    <3>2. a \in Activation /\ a.fn = TopAct.fn /\ a.frame = TopAct.frame
      BY <1>1, <3>1, SetLeft, Zenon
    <3>3. GoOn(a, "andor")
      BY <2>2
    <3> HIDE DEF a
    <3> QED
      BY <1>1, <3>2, <3>3, Named, GoOnStep
  <2> QED
    BY <2>1, <2>2 DEF ListItemDone
<1> QED
  BY <1>2, <1>3, <1>4 DEF ListItemDone, IInv, TypeOK

(* run_and_or_list *)
LEMMA AndOrStep == IInv /\ (AndOr \/ AndOrDone) => IInv'
<1>1. ASSUME IInv, AndOr PROVE IInv'
  <2>1. PICK op \in {"and", "or"} \cap Syntax :
          stack' = Append(stack, Act("andor", op, Len(frames), 0, 0, 0))
    BY <1>1 DEF AndOr
  <2> DEFINE a == Act("andor", op, Len(frames), 0, 0, 0)
  <2>2. a \in Activation /\ a.fn = "andor" /\ a.frame = Len(frames)
    BY <1>1, FrameExists, ActType, Named
  <2>3. Len(frames') = BodyFrame(a)
    BY <1>1, <2>2 DEF AndOr, BodyFrame
  <2>4. stack' \in Seq(Activation) /\ FramesBalanced'
    <3> HIDE DEF a
    <3> QED BY <1>1, <2>1, <2>2, <2>3, PushStep DEF a
  <2> QED
    BY <1>1, <2>4, KeepType DEF AndOr, IInv, TypeOK
<1>2. ASSUME IInv, AndOrDone PROVE IInv'
  <2>1. /\ stack # <<>> /\ TopAct.fn = "andor" /\ TopAct \in Activation
        /\ ret \in Results /\ 0 \in Results /\ Len(frames') = Len(frames)
    BY <1>2, Top, ResultType DEF AndOrDone, Returned, IInv, TypeOK
  <2> DEFINE a == [TopAct EXCEPT !.phase = "right"]
  <2>2. a \in Activation /\ a.fn = TopAct.fn /\ a.frame = TopAct.frame
    BY <2>1, Named, SetPhase, Zenon
  <2>3. "andor" \in Controls
    BY DEF Controls
  <2>4. Return(ret) \/ Return(0) \/ GoOn(a, "andor")
    BY <1>2 DEF AndOrDone
  <2>5. /\ stack' \in Seq(Activation) /\ ctl' \in Controls /\ ret' \in Results
        /\ FramesBalanced'
    <3> HIDE DEF a
    <3> QED BY <1>2, <2>1, <2>2, <2>3, <2>4, ReturnStep, GoOnStep
  <2>6. intr' \in Interrupts /\ absorbed' \in BOOLEAN
    BY <1>2, DropType, KeepType DEF AndOrDone
  <2> QED
    BY <1>2, <2>5, <2>6 DEF AndOrDone, IInv, TypeOK
<1> QED
  BY <1>1, <1>2

(* run_pipeline *)
LEMMA PipelineStep ==
    IInv /\ (Pipeline \/ PipelineStageDone \/ PipelineFails) => IInv'
<1>1. ASSUME IInv, Pipeline PROVE IInv'
  <2>1. PICK n \in 0..(MaxLen - 1), neg \in {"plain"} \cup ({"bang"} \cap Syntax) :
          stack' = Append(stack, Act("pipe", neg, Len(frames), n + 1, n, 0))
    BY <1>1 DEF Pipeline
  <2> DEFINE a == Act("pipe", neg, Len(frames), n + 1, n, 0)
  <2>2. a \in Activation /\ a.fn = "pipe" /\ a.frame = Len(frames)
    <3>1. n \in Nat /\ n + 1 \in Int
      BY BoundsAssumption
    <3>2. neg \in Phases
      BY DEF Phases
    <3> QED
      BY <1>1, <3>1, <3>2, FrameExists, ActType, Named
  <2>3. Len(frames') = BodyFrame(a)
    BY <1>1, <2>2 DEF Pipeline, BodyFrame
  <2>4. stack' \in Seq(Activation) /\ FramesBalanced'
    <3> HIDE DEF a
    <3> QED BY <1>1, <2>1, <2>2, <2>3, PushStep DEF a
  <2> QED
    BY <1>1, <2>4, KeepType DEF Pipeline, IInv, TypeOK, Controls
<1>2. ASSUME IInv, PipelineStageDone PROVE IInv'
  <2>1. /\ stack # <<>> /\ TopAct.fn = "pipe" /\ TopAct \in Activation
        /\ ret \in Results /\ Negate(ret) \in Results /\ Len(frames') = Len(frames)
    BY <1>2, Top, ResultType DEF PipelineStageDone, Returned, IInv, TypeOK
  <2>2. /\ stack' \in Seq(Activation) /\ ctl' \in Controls /\ ret' \in Results
        /\ FramesBalanced'
    <3>1. CASE TopAct.left > 0
      <4> DEFINE a == [TopAct EXCEPT !.left = @ - 1]
      <4>1. a \in Activation /\ a.fn = TopAct.fn /\ a.frame = TopAct.frame
        <5>1. TopAct.left - 1 \in Nat
          BY <2>1, <3>1, Fields
        <5> QED
          BY <2>1, <5>1, SetLeft, Zenon
      <4>2. GoOn(a, "command") /\ "command" \in Controls
        BY <1>2, <3>1 DEF PipelineStageDone, Controls
      <4> HIDE DEF a
      <4> QED
        BY <1>2, <2>1, <4>1, <4>2, GoOnStep
    <3>2. CASE ~(TopAct.left > 0)
      <4>1. Return(ret) \/ Return(Negate(ret))
        BY <1>2, <3>2 DEF PipelineStageDone
      <4> QED
        BY <1>2, <2>1, <4>1, ReturnStep
    <3> QED
      BY <3>1, <3>2
  <2>3. intr' \in Interrupts /\ absorbed' \in BOOLEAN
    BY <1>2, DropType, KeepType DEF PipelineStageDone
  <2> QED
    BY <1>2, <2>2, <2>3 DEF PipelineStageDone, IInv, TypeOK
<1>3. ASSUME IInv, PipelineFails PROVE IInv'
  <2>1. 1 \in Results
    BY DEF Results
  <2>2. /\ stack' \in Seq(Activation) /\ ctl' \in Controls /\ ret' \in Results
        /\ FramesBalanced'
    BY <1>3, <2>1, ReturnStep DEF PipelineFails
  <2> QED
    BY <1>3, <2>2, KeepType DEF PipelineFails, IInv, TypeOK
<1> QED
  BY <1>1, <1>2, <1>3

(* Commands that end without an activation of their own, and the builtins  *)
(* that write the current call frame.                                      *)
LEMMA FinishStep ==
    ASSUME IInv, NEW r \in Results, Finish(r), frames' \in Seq(CallFrame),
           Len(frames') = Len(frames), exit' \in {-1} \cup 0..255,
           last_status' \in Nat, intr' \in Interrupts, absorbed' \in BOOLEAN
    PROVE  IInv'
BY DEF IInv, TypeOK, FramesBalanced, Finish, Controls

(* Simple commands and brace groups *)
LEMMA SimpleStep ==
    IInv /\ (RunProcess \/ SimpleFails \/ DotFails \/ RunGroup) => IInv'
<1> SUFFICES ASSUME IInv PROVE RunProcess \/ SimpleFails \/ DotFails \/ RunGroup => IInv'
  OBVIOUS
<1>0. /\ frames \in Seq(CallFrame) /\ exit \in {-1} \cup 0..255
      /\ last_status \in Nat
  BY DEF IInv, TypeOK
<1>1. ASSUME RunProcess PROVE IInv'
  <2>1. PICK s \in Statuses : Finish(s)
    BY <1>1 DEF RunProcess
  <2>2. s \in Results
    BY StatusAssumption DEF Results
  <2> QED
    BY <1>0, <1>1, <2>1, <2>2, FinishStep, KeepType DEF RunProcess
<1>2. ASSUME SimpleFails PROVE IInv'
  <2>1. TASK_STATUS_ERROR \in Results
    BY ResultType
  <2> QED
    BY <1>0, <1>2, <2>1, FinishStep, KeepType DEF SimpleFails
<1>3. ASSUME DotFails PROVE IInv'
  <2>1. 1 \in Results /\ 1 \in 0..255
    BY DEF Results
  <2> QED
    BY <1>0, <1>3, <2>1, FinishStep, KeepType DEF DotFails
<1>4. ASSUME RunGroup PROVE IInv'
  <2>1. PICK body \in ListActs(Len(frames)) : stack' = Append(stack, body)
    BY <1>4 DEF RunGroup
  <2>2. body \in Activation /\ body.fn = "list" /\ body.frame = Len(frames)
    BY FrameExists, ListType
  <2>3. Len(frames') = BodyFrame(body)
    BY <1>4, <2>2 DEF RunGroup, BodyFrame
  <2>4. stack' \in Seq(Activation) /\ FramesBalanced'
    BY <2>1, <2>2, <2>3, PushStep
  <2> QED
    BY <1>4, <2>4, KeepType DEF RunGroup, IInv, TypeOK, Controls
<1> QED
  BY <1>1, <1>2, <1>3, <1>4

(* break, continue, return and exit *)
LEMMA InterruptingBuiltinStep ==
    IInv /\ (builtin_break \/ builtin_return \/ builtin_exit) => IInv'
<1> SUFFICES ASSUME IInv
             PROVE  builtin_break \/ builtin_return \/ builtin_exit => IInv'
  OBVIOUS
<1>0. /\ exit \in {-1} \cup 0..255 /\ last_status \in Nat
      /\ absorbed \in BOOLEAN /\ Frame \in CallFrame /\ Len(stack) \in Nat
      /\ TASK_STATUS_INTERRUPTED \in Results
  BY FrameExists, ResultType DEF IInv, TypeOK, Results
<1>1. ASSUME builtin_break PROVE IInv'
  <2>1. PICK n \in BreakArgs, b \in {"break", "continue"}, t \in 0..Len(stack) :
          /\ SetFrame([nloops |-> Frame.nloops - (Min(n, Frame.nloops) - 1),
                       branch |-> b])
          /\ intr' = [kind |-> b, target |-> t]
    BY <1>1 DEF builtin_break, LoopsLeft
  <2>2. Frame.nloops \in Int /\ n \in Int
    BY <1>0, BreakAssumption DEF CallFrame
  <2>3. [nloops |-> Frame.nloops - (Min(n, Frame.nloops) - 1), branch |-> b]
          \in CallFrame
    BY <2>2 DEF CallFrame, Branches, Min
  <2>4. frames' \in Seq(CallFrame) /\ Len(frames') = Len(frames)
    BY <2>1, <2>3, FrameExists DEF SetFrame
  <2>5. intr' \in Interrupts
    BY <1>0, <2>1 DEF Interrupts, Branches
  <2> QED
    BY <1>0, <1>1, <2>4, <2>5, FinishStep DEF builtin_break
<1>2. ASSUME builtin_return PROVE IInv'
  <2>1. [nloops |-> 0, branch |-> "return"] \in CallFrame
    BY DEF CallFrame, Branches
  <2>2. frames' \in Seq(CallFrame) /\ Len(frames') = Len(frames)
    BY <1>2, <2>1, FrameExists DEF builtin_return, SetFrame
  <2>3. last_status' \in Nat
    BY <1>2, ExitAssumption DEF builtin_return
  <2>4. intr' \in Interrupts
    BY <1>2 DEF builtin_return, Interrupts, Branches
  <2> QED
    BY <1>0, <1>2, <2>2, <2>3, <2>4, FinishStep DEF builtin_return
<1>3. ASSUME builtin_exit PROVE IInv'
  <2>1. [Frame EXCEPT !.branch = "exit"] \in CallFrame
    BY <1>0 DEF CallFrame, Branches
  <2>2. frames' \in Seq(CallFrame) /\ Len(frames') = Len(frames)
    BY <1>3, <2>1, FrameExists DEF builtin_exit, SetFrame
  <2>3. exit' \in {-1} \cup 0..255
    BY <1>3, ExitAssumption DEF builtin_exit
  <2>4. intr' \in Interrupts
    BY <1>3 DEF builtin_exit, Interrupts, Branches
  <2> QED
    BY <1>0, <1>3, <2>2, <2>3, <2>4, FinishStep DEF builtin_exit
<1> QED
  BY <1>1, <1>2, <1>3

(* Function calls: push_frame and pop_frame are balanced whatever the body *)
(* returned.                                                               *)
LEMMA FunctionStep == IInv /\ (CallFunction \/ FunctionDone) => IInv'
<1>1. ASSUME IInv, CallFunction PROVE IInv'
  <2> DEFINE a == Act("func", "none", Len(frames), 0, 0, 0)
  <2>1. a \in Activation /\ a.fn = "func" /\ a.frame = Len(frames)
    BY <1>1, FrameExists, ActType, Named
  <2>2. frames' \in Seq(CallFrame) /\ Len(frames') = Len(frames) + 1
    BY <1>1 DEF CallFunction, IInv, TypeOK, CallFrame, Branches
  <2>3. Len(frames') = BodyFrame(a)
    BY <2>1, <2>2 DEF BodyFrame
  <2>4. stack' = Append(stack, a)
    BY <1>1 DEF CallFunction
  <2>5. stack' \in Seq(Activation) /\ FramesBalanced'
    <3> HIDE DEF a
    <3> QED BY <1>1, <2>1, <2>3, <2>4, PushStep
  <2> QED
    BY <1>1, <2>2, <2>5, KeepType DEF CallFunction, IInv, TypeOK, Controls
<1>2. ASSUME IInv, FunctionDone PROVE IInv'
  <2>1. /\ stack # <<>> /\ TopAct.fn = "func" /\ TopAct \in Activation
        /\ ret \in Results /\ frames \in Seq(CallFrame)
    BY <1>2, Top DEF FunctionDone, Returned, IInv, TypeOK
  <2>2. /\ stack' \in Seq(Activation) /\ Chained(stack')
        /\ Depth(stack') = TopAct.frame
    BY <1>2, <2>1, Top DEF FunctionDone, Return
  <2>3. Len(frames) = TopAct.frame + 1 /\ TopAct.frame \in Nat \ {0}
    BY <1>2, <2>1, Top DEF BodyFrame
  <2>4. frames # <<>> /\ frames' = SubSeq(frames, 1, Len(frames) - 1)
    BY <1>2, <2>1, <2>3 DEF FunctionDone, pop_frame
  <2>5. frames' \in Seq(CallFrame) /\ Len(frames') = Len(frames) - 1
    BY <2>1, <2>4, FrontIs, Zenon
  <2>6. Len(frames') = Depth(stack')
    BY <2>2, <2>3, <2>5
  <2>7. intr' \in Interrupts
    BY <1>2 DEF FunctionDone, IInv, TypeOK, NoInterrupt, Interrupts
  <2> QED
    BY <1>2, <2>1, <2>2, <2>5, <2>6, <2>7
    DEF FunctionDone, Return, IInv, TypeOK, FramesBalanced, Controls
<1> QED
  BY <1>1, <1>2

(* run_subshell *)
LEMMA SubshellStep == IInv /\ (run_subshell \/ SubshellDone) => IInv'
<1>1. ASSUME IInv, run_subshell PROVE IInv'
  <2> DEFINE a == Act("sub", "none", Len(frames), 0, 0, last_status)
  <2>1. PICK body \in ListActs(Len(frames)) : stack' = Append(Append(stack, a), body)
    BY <1>1 DEF run_subshell
  <2>2. a \in Activation /\ a.fn = "sub" /\ a.frame = Len(frames)
    <3>0. last_status \in Nat
      BY <1>1 DEF IInv, TypeOK
    <3>1. last_status \in Results
      BY <3>0, ResultType, Zenon
    <3>3. last_status >= 0
      BY <3>0
    <3>2. Len(frames) \in Nat \ {0}
      BY <1>1, FrameExists
    <3> QED
      BY <3>1, <3>2, <3>3, SubType
  <2>3. stack' \in Seq(Activation) /\ FramesBalanced'
    <3>1. Len(frames') = Len(frames)
      BY <1>1 DEF run_subshell
    <3> HIDE DEF a
    <3> QED
      BY <1>1, <2>1, <2>2, <3>1, PushListStep
  <2> QED
    BY <1>1, <2>3, KeepType DEF run_subshell, IInv, TypeOK, Controls
<1>2. ASSUME IInv, SubshellDone PROVE IInv'
  <2>1. /\ stack # <<>> /\ TopAct.fn = "sub" /\ TopAct \in Activation
        /\ ret \in Results /\ Len(frames') = Len(frames)
    BY <1>2, Top DEF SubshellDone, Returned, IInv, TypeOK
  <2>2. TopAct.val \in Nat
    BY <2>1, Fields
  <2>3. /\ stack' \in Seq(Activation) /\ ctl' \in Controls /\ ret' \in Results
        /\ FramesBalanced'
    BY <1>2, <2>1, ReturnStep DEF SubshellDone
  <2> QED
    BY <1>2, <2>2, <2>3, KeepType DEF SubshellDone, IInv, TypeOK
<1> QED
  BY <1>1, <1>2

(* run_word_command *)
LEMMA WordStep == IInv /\ (run_word_command \/ WordCommandDone) => IInv'
<1>1. ASSUME IInv, run_word_command PROVE IInv'
  <2>0. Len(frames') = Len(frames) /\ Len(frames) \in Nat \ {0}
    BY <1>1, FrameExists DEF run_word_command
  <2>1. PICK body \in ListActs(Len(frames)) :
          \/ stack' = Append(Append(stack, Act("word", "none", Len(frames), 0, 0, 0)), body)
          \/ /\ stack # <<>> /\ TopAct.fn = "for"
             /\ stack' = Append(Append(Append(Callers, [TopAct EXCEPT !.phase = "ready"]),
                               Act("word", "words", Len(frames), 0, 0, 0)), body)
    BY <1>1 DEF run_word_command
  <2>2. \A p \in {"none", "words"} :
          LET w == Act("word", p, Len(frames), 0, 0, 0)
          IN  w \in Activation /\ w.fn = "word" /\ w.frame = Len(frames)
    <3> SUFFICES ASSUME NEW p \in {"none", "words"}
                 PROVE  LET w == Act("word", p, Len(frames), 0, 0, 0)
                        IN  w \in Activation /\ w.fn = "word" /\ w.frame = Len(frames)
      OBVIOUS
    <3>1. p \in Phases
      BY Named
    <3> QED
      BY <2>0, <3>1, ActType, Named
  <2>3. stack' \in Seq(Activation) /\ FramesBalanced'
    <3>1. CASE stack' = Append(Append(stack, Act("word", "none", Len(frames), 0, 0, 0)), body)
      <4> DEFINE w == Act("word", "none", Len(frames), 0, 0, 0)
      <4>1. w \in Activation /\ w.fn # "func" /\ w.frame = Len(frames)
        BY <2>2
      <4> HIDE DEF w
      <4> QED
        BY <1>1, <2>0, <3>1, <4>1, PushListStep DEF w
    <3>2. CASE /\ stack # <<>> /\ TopAct.fn = "for"
               /\ stack' = Append(Append(Append(Callers, [TopAct EXCEPT !.phase = "ready"]),
                                 Act("word", "words", Len(frames), 0, 0, 0)), body)
      <4> DEFINE w == Act("word", "words", Len(frames), 0, 0, 0)
                 a == [TopAct EXCEPT !.phase = "ready"]
      <4>1. w \in Activation /\ w.fn = "word" /\ w.frame = Len(frames)
        BY <2>2
      <4>2. a \in Activation /\ a.fn = "for" /\ a.frame = Len(frames)
        <5>1. /\ TopAct \in Activation /\ TopAct.fn = "for"
              /\ TopAct.frame = Len(frames)
          BY <1>1, <3>2, Top DEF BodyFrame
        <5>2. a \in Activation /\ a.fn = TopAct.fn /\ a.frame = TopAct.frame
          BY <5>1, Named, SetPhase, Zenon
        <5> QED
          BY <5>1, <5>2, Zenon
      <4>3. stack' = Append(Append(Append(Callers, a), w), body)
        BY <3>2
      <4>4. body \in Activation /\ body.fn = "list" /\ body.frame = Len(frames)
        BY <2>0, ListType
      <4> HIDE DEF w, a
      <4>5. /\ Callers \in Seq(Activation) /\ Chained(Callers)
            /\ Depth(Callers) = Len(frames)
        BY <1>1, <3>2, Top DEF BodyFrame
      <4>6. /\ Append(Callers, a) \in Seq(Activation) /\ Chained(Append(Callers, a))
            /\ Depth(Append(Callers, a)) = Len(frames)
        BY <4>2, <4>5, Push DEF BodyFrame
      <4>7. /\ Append(Append(Callers, a), w) \in Seq(Activation)
            /\ Chained(Append(Append(Callers, a), w))
            /\ Depth(Append(Append(Callers, a), w)) = Len(frames)
        BY <4>1, <4>6, Push DEF BodyFrame
      <4>8. /\ stack' \in Seq(Activation) /\ Chained(stack')
            /\ Depth(stack') = BodyFrame(body)
        BY <4>3, <4>4, <4>7, Push
      <4> QED
        BY <2>0, <4>4, <4>8 DEF FramesBalanced, BodyFrame
    <3> QED
      BY <2>1, <3>1, <3>2
  <2> QED
    BY <1>1, <2>3, KeepType DEF run_word_command, IInv, TypeOK, Controls
<1>2. ASSUME IInv, WordCommandDone PROVE IInv'
  <2>1. /\ stack # <<>> /\ TopAct.fn = "word" /\ last_status \in Nat
        /\ Len(frames') = Len(frames)
    BY <1>2 DEF WordCommandDone, Returned, IInv, TypeOK
  <2>2. stack' = Callers /\ ctl' \in Controls /\ ret' = 0
    BY <1>2, <2>1 DEF WordCommandDone, Controls
  <2>3. stack' \in Seq(Activation) /\ FramesBalanced'
    BY <1>2, <2>1, <2>2, Top DEF FramesBalanced, BodyFrame
  <2>4. intr' \in Interrupts /\ absorbed' \in BOOLEAN
    BY <1>2, DropType, KeepType DEF WordCommandDone
  <2> QED
    BY <1>2, <2>2, <2>3, <2>4 DEF WordCommandDone, IInv, TypeOK, Results
<1> QED
  BY <1>1, <1>2

(* run_if_clause *)
LEMMA IfStep == IInv /\ (run_if_clause \/ IfDone) => IInv'
<1>1. ASSUME IInv, run_if_clause PROVE IInv'
  <2> DEFINE a == Act("if", "cond", Len(frames), 0, 0, 0)
  <2>1. PICK body \in ListActs(Len(frames)) : stack' = Append(Append(stack, a), body)
    BY <1>1 DEF run_if_clause
  <2>2. a \in Activation /\ a.fn = "if" /\ a.frame = Len(frames)
    BY <1>1, FrameExists, ActType, Named
  <2>3. stack' \in Seq(Activation) /\ FramesBalanced'
    <3>1. Len(frames') = Len(frames)
      BY <1>1 DEF run_if_clause
    <3> HIDE DEF a
    <3> QED
      BY <1>1, <2>1, <2>2, <3>1, PushListStep
  <2> QED
    BY <1>1, <2>3, KeepType DEF run_if_clause, IInv, TypeOK, Controls
<1>2. ASSUME IInv, IfDone PROVE IInv'
  <2>1. /\ stack # <<>> /\ TopAct.fn = "if" /\ TopAct \in Activation
        /\ ret \in Results /\ 0 \in Results /\ Len(frames') = Len(frames)
    BY <1>2, Top, ResultType DEF IfDone, Returned, IInv, TypeOK
  <2> DEFINE a == [TopAct EXCEPT !.phase = "tail"]
  <2>2. a \in Activation /\ a.fn = TopAct.fn /\ a.frame = TopAct.frame
    BY <2>1, Named, SetPhase, Zenon
  <2>3. Return(ret) \/ Return(0) \/ CallList(a) \/ GoOn(a, "command")
    BY <1>2 DEF IfDone
  <2>4. "command" \in Controls /\ TopAct.fn # "func"
    BY <2>1 DEF Controls
  <2>5. /\ stack' \in Seq(Activation) /\ ctl' \in Controls /\ ret' \in Results
        /\ FramesBalanced'
    <3> HIDE DEF a
    <3> QED BY <1>2, <2>1, <2>2, <2>3, <2>4, ReturnStep, GoOnStep, CallListStep
  <2> QED
    BY <1>2, <2>5, KeepType DEF IfDone, IInv, TypeOK
<1> QED
  BY <1>1, <1>2

(* What the loop actions share: the running activation is a loop. *)
LEMMA LoopTop ==
    ASSUME IInv, InLoop
    PROVE  /\ stack # <<>> /\ TopAct \in Activation /\ TopAct.fn # "func"
           /\ TopAct.fn # "sub" /\ TopAct.val \in Results /\ TopAct.left \in Nat
           /\ ret \in Results /\ TASK_STATUS_INTERRUPTED \in Results /\ 0 \in Results
           /\ TASK_STATUS_ERROR \in Results
<1>1. stack # <<>> /\ TopAct.fn \in {"while", "until", "for"}
  BY DEF InLoop, Loops
<1>2. TopAct \in Activation /\ TopAct.val \in Results /\ TopAct.left \in Nat
  BY <1>1, Top, Fields
<1>3. ret \in Results
  BY DEF IInv, TypeOK
<1> QED
  BY <1>1, <1>2, <1>3, ResultType

(* --nloops and return. *)
LEMMA LeaveLoopStep ==
    ASSUME IInv, InLoop, NEW r \in Results, LeaveLoop(r)
    PROVE  /\ stack' \in Seq(Activation) /\ ctl' \in Controls /\ ret' \in Results
           /\ frames' \in Seq(CallFrame) /\ FramesBalanced'
<1>1. [Frame EXCEPT !.nloops = @ - 1] \in CallFrame
  BY FrameExists DEF CallFrame
<1>2. frames' \in Seq(CallFrame) /\ Len(frames') = Len(frames)
  BY <1>1, FrameExists DEF LeaveLoop, SetFrame
<1> QED
  BY <1>2, LoopTop, ReturnStep DEF LeaveLoop

(* A loop is entered *)
LEMMA EnterLoopStep == IInv /\ EnterLoop => IInv'
<1> SUFFICES ASSUME IInv, EnterLoop PROVE IInv'
  OBVIOUS
<1>1. PICK fn \in Loops \cap Syntax :
        stack' = Append(stack, Act(fn, IF fn = "for" THEN "words" ELSE "top",
                                   Len(frames), Frame.nloops + 1, 0, 0))
  BY DEF EnterLoop, LoopNum
<1> DEFINE phase == IF fn = "for" THEN "words" ELSE "top"
           a == Act(fn, phase, Len(frames), Frame.nloops + 1, 0, 0)
<1>2. fn \in Functions \ {"sub"} /\ fn # "func" /\ phase \in Phases
  BY DEF Loops, Functions, Phases
<1>3. Frame \in CallFrame /\ Frame.nloops + 1 \in Int
  BY FrameExists DEF CallFrame
<1>4. a \in Activation /\ a.fn = fn /\ a.frame = Len(frames)
  <2> HIDE DEF phase
  <2> QED BY <1>2, <1>3, FrameExists, ActType
<1>5. [Frame EXCEPT !.nloops = @ + 1] \in CallFrame
  BY <1>3 DEF CallFrame
<1>6. frames' \in Seq(CallFrame) /\ Len(frames') = Len(frames)
  BY <1>5, FrameExists DEF EnterLoop, SetFrame
<1>7. stack' \in Seq(Activation) /\ FramesBalanced'
  <2>1. Len(frames') = BodyFrame(a) /\ stack' = Append(stack, a)
    BY <1>1, <1>2, <1>4, <1>6 DEF BodyFrame
  <2> HIDE DEF a
  <2> QED BY <1>4, <2>1, PushStep
<1> QED
  BY <1>6, <1>7, KeepType DEF EnterLoop, IInv, TypeOK, Controls

(* A loop runs, iterates and ends *)
LEMMA LoopRunStep ==
    IInv /\ (ForWords \/ LoopHead \/ LoopCondition \/ LoopBody) => IInv'
<1> SUFFICES ASSUME IInv
             PROVE  ForWords \/ LoopHead \/ LoopCondition \/ LoopBody => IInv'
  OBVIOUS
<1>0. "run" \in Controls /\ {"top", "body", "cond"} \subseteq Phases
  BY DEF Controls, Phases
<1>1. ASSUME ForWords PROVE IInv'
  <2>1. InLoop /\ Len(frames') = Len(frames)
    BY <1>1 DEF ForWords
  <2>2. ASSUME NEW n \in 0..MaxLen
        PROVE  LET a == [TopAct EXCEPT !.left = n, !.phase = "top"]
               IN  a \in Activation /\ a.fn = TopAct.fn /\ a.frame = TopAct.frame
    <3>1. n \in Nat
      BY BoundsAssumption
    <3> QED
      BY <2>1, <3>1, LoopTop, Named, SetLeftPhase, ZenonT(40)
  <2>3. /\ stack' \in Seq(Activation) /\ ctl' \in Controls /\ ret' \in Results
        /\ FramesBalanced'
    <3>1. ASSUME NEW n \in 0..MaxLen,
                 GoOn([TopAct EXCEPT !.left = n, !.phase = "top"], "run")
          PROVE  /\ stack' \in Seq(Activation) /\ ctl' \in Controls
                 /\ ret' \in Results /\ FramesBalanced'
      <4> DEFINE a == [TopAct EXCEPT !.left = n, !.phase = "top"]
      <4>1. a \in Activation /\ a.fn = TopAct.fn /\ a.frame = TopAct.frame
        BY <2>2
      <4>2. GoOn(a, "run")
        BY <3>1
      <4> HIDE DEF a
      <4> QED
        BY <1>0, <2>1, <4>1, <4>2, LoopTop, GoOnStep
    <3>2. ASSUME Return(TASK_STATUS_ERROR)
          PROVE  /\ stack' \in Seq(Activation) /\ ctl' \in Controls
                 /\ ret' \in Results /\ FramesBalanced'
      BY <2>1, <3>2, LoopTop, ReturnStep
    <3> QED
      BY <1>1, <3>1, <3>2 DEF ForWords
  <2> QED
    BY <1>1, <2>3, KeepType DEF ForWords, IInv, TypeOK
<1>2. ASSUME LoopHead PROVE IInv'
  <2>1. InLoop
    BY <1>2 DEF LoopHead
  <2> DEFINE b == [TopAct EXCEPT !.left = @ - 1, !.phase = "body"]
             c == [TopAct EXCEPT !.phase = "cond"]
  <2>2. TopAct.left > 0 => b \in Activation /\ b.fn = TopAct.fn /\ b.frame = TopAct.frame
    <3> SUFFICES ASSUME TopAct.left > 0
                 PROVE  b \in Activation /\ b.fn = TopAct.fn /\ b.frame = TopAct.frame
      OBVIOUS
    <3>1. TopAct.left - 1 \in Nat
      BY <2>1, LoopTop
    <3> QED
      BY <2>1, <3>1, LoopTop, Named, SetLeftPhase, ZenonT(40)
  <2>3. c \in Activation /\ c.fn = TopAct.fn /\ c.frame = TopAct.frame
    BY <2>1, LoopTop, Named, SetPhase, Zenon
  <2>4. \/ LeaveLoop(TopAct.val)
        \/ CallList(b) /\ TopAct.left > 0 /\ UNCHANGED frames
        \/ CallList(c) /\ UNCHANGED frames
    BY <1>2 DEF LoopHead
  <2>5. /\ stack' \in Seq(Activation) /\ ctl' \in Controls /\ ret' \in Results
        /\ frames' \in Seq(CallFrame) /\ FramesBalanced'
    <3> HIDE DEF b, c
    <3>1. CASE LeaveLoop(TopAct.val)
      BY <2>1, <3>1, LoopTop, LeaveLoopStep
    <3>2. CASE CallList(b) /\ TopAct.left > 0 /\ UNCHANGED frames
      BY <2>1, <2>2, <3>2, LoopTop, CallListStep DEF IInv, TypeOK
    <3>3. CASE CallList(c) /\ UNCHANGED frames
      BY <2>1, <2>3, <3>3, LoopTop, CallListStep DEF IInv, TypeOK
    <3> QED
      BY <2>4, <3>1, <3>2, <3>3
  <2> QED
    BY <1>2, <2>5, KeepType DEF LoopHead, IInv, TypeOK
<1>3. ASSUME LoopCondition PROVE IInv'
  <2>1. InLoop
    BY <1>3 DEF LoopCondition
  <2> DEFINE b == [TopAct EXCEPT !.phase = "body"]
  <2>2. b \in Activation /\ b.fn = TopAct.fn /\ b.frame = TopAct.frame
    BY <2>1, LoopTop, Named, SetPhase, Zenon
  <2>3. \/ LeaveLoop(TopAct.val)
        \/ CallList(b) /\ UNCHANGED frames
        \/ Return(ret) /\ UNCHANGED frames
    BY <1>3 DEF LoopCondition
  <2>4. /\ stack' \in Seq(Activation) /\ ctl' \in Controls /\ ret' \in Results
        /\ frames' \in Seq(CallFrame) /\ FramesBalanced'
    <3> HIDE DEF b
    <3>1. CASE LeaveLoop(TopAct.val)
      BY <2>1, <3>1, LoopTop, LeaveLoopStep
    <3>2. CASE CallList(b) /\ UNCHANGED frames
      BY <2>1, <2>2, <3>2, LoopTop, CallListStep DEF IInv, TypeOK
    <3>3. CASE Return(ret) /\ UNCHANGED frames
      BY <2>1, <3>3, LoopTop, ReturnStep DEF IInv, TypeOK
    <3> QED
      BY <2>3, <3>1, <3>2, <3>3
  <2> QED
    BY <1>3, <2>4, KeepType DEF LoopCondition, IInv, TypeOK
<1>4. ASSUME LoopBody PROVE IInv'
  <2>1. InLoop /\ Len(frames') = Len(frames)
    BY <1>4 DEF LoopBody
  <2> DEFINE a == [TopAct EXCEPT !.val = ret, !.phase = "top"]
  <2>2. a \in Activation /\ a.fn = TopAct.fn /\ a.frame = TopAct.frame
    BY <2>1, LoopTop, Named, SetValPhase, ZenonT(40)
  <2>3. Return(ret) \/ GoOn(a, "run")
    BY <1>4 DEF LoopBody
  <2>4. /\ stack' \in Seq(Activation) /\ ctl' \in Controls /\ ret' \in Results
        /\ FramesBalanced'
    <3> HIDE DEF a
    <3> QED BY <1>0, <2>1, <2>2, <2>3, LoopTop, ReturnStep, GoOnStep
  <2> QED
    BY <1>4, <2>4, KeepType DEF LoopBody, IInv, TypeOK
<1> QED
  BY <1>1, <1>2, <1>3, <1>4

(* The label interrupt: of both loops. *)
LEMMA LoopInterruptStep == IInv /\ LoopInterrupt => IInv'
<1> SUFFICES ASSUME IInv, LoopInterrupt PROVE IInv'
  OBVIOUS
<1> DEFINE loop_ret == IF TopAct.phase = "body" THEN ret ELSE TopAct.val
           a == [TopAct EXCEPT !.val = loop_ret, !.phase = "top"]
<1>1. InLoop
  BY DEF LoopInterrupt
<1>2. loop_ret \in Results
  BY <1>1, LoopTop
<1>3. a \in Activation /\ a.fn = TopAct.fn /\ a.frame = TopAct.frame
  <2> HIDE DEF loop_ret
  <2>1. TopAct \in Activation /\ TopAct.fn # "sub" /\ "top" \in Phases
    BY <1>1, LoopTop, Named
  <2> QED BY <1>2, <2>1, SetValPhase, Zenon
<1>4. \/ LeaveLoop(TASK_STATUS_INTERRUPTED)
      \/ LeaveLoop(0)
      \/ GoOn(a, "run") /\ UNCHANGED frames
      \/ LeaveLoop(loop_ret)
  BY DEF LoopInterrupt
<1>5. "run" \in Controls
  BY DEF Controls
<1>6. /\ stack' \in Seq(Activation) /\ ctl' \in Controls /\ ret' \in Results
      /\ frames' \in Seq(CallFrame) /\ FramesBalanced'
  <2> HIDE DEF a, loop_ret
  <2>1. CASE GoOn(a, "run") /\ UNCHANGED frames
    BY <1>1, <1>3, <1>5, <2>1, LoopTop, GoOnStep DEF IInv, TypeOK
  <2> QED
    BY <1>1, <1>2, <1>4, <2>1, LoopTop, LeaveLoopStep
<1>7. intr' \in Interrupts /\ absorbed' \in BOOLEAN
  BY KeepType DEF LoopInterrupt, NoInterrupt, Interrupts, IInv, TypeOK
<1> QED
  BY <1>6, <1>7 DEF LoopInterrupt, IInv, TypeOK

-----------------------------------------------------------------------------
(* Every step keeps the types and the chain of frames. *)
LEMMA NextIInv == IInv /\ [Next]_vars => IInv'
<1>1. IInv /\ UNCHANGED vars => IInv'
  BY DEF vars, IInv, TypeOK, FramesBalanced
<1>2. IInv /\ Terminated => IInv'
  BY <1>1 DEF Terminated
<1> QED
  BY <1>1, <1>2, ListItemDoneStep, AndOrStep, PipelineStep, SimpleStep,
     InterruptingBuiltinStep, FunctionStep, SubshellStep, WordStep, IfStep,
     EnterLoopStep, LoopRunStep, LoopInterruptStep
  DEF Next

(* Whatever script runs, $? stays an exit status (the TASK_STATUS codes    *)
(* that run_* return never reach it), state->exit stays -1 or an exit      *)
(* status, and every activation is well formed.                            *)
THEOREM TypeCorrect == Spec => []TypeOK
<1>1. IInv => TypeOK
  BY DEF IInv
<1> QED
  BY <1>1, InitIInv, NextIInv, PTL DEF Spec

(* push_frame and pop_frame are balanced on every path of error, break,    *)
(* continue, return and exit: the frame_priv that run_loop_clause and      *)
(* run_for_clause captured is the current frame when they use it again,    *)
(* and the assertion of pop_frame holds.                                   *)
THEOREM CallFramesBalanced == Spec => []FramesBalanced
<1>1. IInv => FramesBalanced
  BY DEF IInv
<1> QED
  BY <1>1, InitIInv, NextIInv, PTL DEF Spec

-----------------------------------------------------------------------------
(* The loops.  While an interruption is unwound the nloops of the current  *)
(* call frame is not yet what it should be; it is again when a loop takes  *)
(* the interruption or the frame is gone.                                  *)

Unwinding == ctl = "ret" /\ ret = TASK_STATUS_INTERRUPTED

(* The call frames of the activations never decrease. *)
Nested(s) ==
    \A i \in 1..Len(s) : \A j \in 1..(i - 1) : BodyFrame(s[j]) <= s[i].frame

(* The loop_num of the loops of a call frame increase. *)
Ordered(s) ==
    \A i \in 1..Len(s) : s[i].fn \in Loops =>
        /\ s[i].num >= 1
        /\ \A j \in 1..(i - 1) : s[j].fn \in Loops /\ s[j].frame = s[i].frame
              => s[j].num < s[i].num

(* nloops counts the loops, in the current call frame only when nothing is *)
(* unwound.                                                                *)
Counted(s, fr, u) ==
    /\ \A i \in 1..Len(s) : s[i].fn \in Loops /\ ~(u /\ s[i].frame = Len(fr))
          => s[i].num <= fr[s[i].frame].nloops
    /\ \A f \in 1..Len(fr) : ~(u /\ f = Len(fr)) => fr[f].nloops >= 0

(* The invariant of the loops, in general and of the interpreter's state. *)
LoopsOK(s, fr, u) == Nested(s) /\ Ordered(s) /\ Counted(s, fr, u)
LInv == ~absorbed => LoopsOK(stack, frames, Unwinding)

(* What the running activation may become without being another. *)
Same(a, b) == b.fn = a.fn /\ b.frame = a.frame /\ b.num = a.num

(* The order and the counts speak of fn, frame and num only. *)
LEMMA SameLoops ==
    ASSUME NEW s \in Seq(Activation), NEW t \in Seq(Activation), NEW fr, NEW u,
           LoopsOK(s, fr, u), Len(t) = Len(s), \A i \in 1..Len(s) : Same(s[i], t[i])
    PROVE  LoopsOK(t, fr, u)
<1>1. Len(s) \in Nat
  OBVIOUS
<1>2. \A i \in 1..Len(s) : /\ t[i].fn = s[i].fn /\ t[i].frame = s[i].frame /\ t[i].num = s[i].num
                           /\ BodyFrame(t[i]) = BodyFrame(s[i])
  BY DEF Same, BodyFrame
<1>3. \A i \in 1..Len(s) : \A j \in 1..(i - 1) : j \in 1..Len(s)
  BY <1>1
<1>4. Nested(t)
  BY <1>2, <1>3 DEF LoopsOK, Nested
<1>5. Ordered(t)
  BY <1>2, <1>3 DEF LoopsOK, Ordered
<1>6. Counted(t, fr, u)
  BY <1>2 DEF LoopsOK, Counted
<1> QED
  BY <1>4, <1>5, <1>6 DEF LoopsOK

(* They hold of the callers. *)
LEMMA FrontLoops ==
    ASSUME NEW s \in Seq(Activation), NEW t \in Seq(Activation), NEW fr, NEW u,
           LoopsOK(s, fr, u), s # <<>>, Len(t) = Len(s) - 1,
           \A i \in 1..(Len(s) - 1) : t[i] = s[i]
    PROVE  LoopsOK(t, fr, u)
<1>1. Len(s) \in Nat
  OBVIOUS
<1>2. \A i \in 1..Len(t) : i \in 1..Len(s) /\ t[i] = s[i]
  BY <1>1
<1>3. \A i \in 1..Len(t) : \A j \in 1..(i - 1) : j \in 1..Len(t)
  BY <1>1
<1>4. Nested(t)
  BY <1>2, <1>3 DEF LoopsOK, Nested
<1>5. Ordered(t)
  BY <1>2, <1>3 DEF LoopsOK, Ordered
<1>6. Counted(t, fr, u)
  BY <1>2 DEF LoopsOK, Counted
<1> QED
  BY <1>4, <1>5, <1>6 DEF LoopsOK

(* Every activation runs in a call frame up to the current one. *)
LEMMA WithinDepth ==
    ASSUME NEW s \in Seq(Activation), Nested(s), NEW i \in 1..Len(s)
    PROVE  /\ BodyFrame(s[i]) <= Depth(s) /\ s[i].frame \in 1..Depth(s)
           /\ BodyFrame(s[i]) \in Nat /\ Depth(s) \in Nat
<1> DEFINE n == Len(s)
<1>1. n \in Nat /\ s # <<>> /\ n \in 1..n /\ s[i] \in Activation /\ s[n] \in Activation
  OBVIOUS
<1>2. s[i].frame \in Nat \ {0} /\ s[n].frame \in Nat \ {0}
  BY <1>1, Fields
<1>3. Depth(s) = BodyFrame(s[n])
  BY <1>1 DEF Depth
<1>4. /\ BodyFrame(s[i]) \in Nat /\ s[i].frame <= BodyFrame(s[i])
      /\ BodyFrame(s[n]) \in Nat /\ s[n].frame <= BodyFrame(s[n])
  BY <1>2 DEF BodyFrame
<1>5. CASE i = n
  BY <1>2, <1>3, <1>4, <1>5
<1>6. CASE i # n
  <2>1. i \in 1..(n - 1)
    BY <1>1, <1>6
  <2>2. BodyFrame(s[i]) <= s[n].frame
    BY <1>1, <2>1 DEF Nested
  <2> HIDE DEF n
  <2> QED
    BY <1>2, <1>3, <1>4, <2>2
<1> QED
  BY <1>5, <1>6

(* An activation that is no loop is called. *)
LEMMA PushLoops ==
    ASSUME NEW s \in Seq(Activation), NEW a \in Activation, NEW fr, NEW u,
           LoopsOK(s, fr, u), a.fn \notin Loops, a.frame = Depth(s)
    PROVE  LoopsOK(Append(s, a), fr, u)
<1> DEFINE t == Append(s, a)
           n == Len(s)
<1>1. /\ n \in Nat /\ Len(t) = n + 1 /\ t[n + 1] = a
      /\ \A i \in 1..n : t[i] = s[i]
  OBVIOUS
<1> HIDE DEF t
<1>2. \A i \in 1..(n + 1) : i = n + 1 \/ i \in 1..n
  BY <1>1
<1>3. \A i \in 1..(n + 1) : \A j \in 1..(i - 1) : j \in 1..n
  BY <1>1
<1>4. Nested(t)
  <2> SUFFICES ASSUME NEW i \in 1..(n + 1), NEW j \in 1..(i - 1)
               PROVE  BodyFrame(t[j]) <= t[i].frame
    BY <1>1 DEF Nested
  <2>1. j \in 1..n /\ t[j] = s[j]
    BY <1>1, <1>3
  <2>2. CASE i = n + 1
    BY <1>1, <2>1, <2>2, WithinDepth DEF LoopsOK
  <2>3. CASE i \in 1..n
    BY <1>1, <2>1, <2>3 DEF LoopsOK, Nested
  <2> QED
    BY <1>2, <2>2, <2>3
<1>5. Ordered(t)
  BY <1>1, <1>2, <1>3 DEF LoopsOK, Ordered
<1>6. Counted(t, fr, u)
  BY <1>1, <1>2 DEF LoopsOK, Counted
<1> QED
  BY <1>4, <1>5, <1>6 DEF LoopsOK, t

(* A loop is called: ++nloops is its loop_num. *)
LEMMA PushLoop ==
    ASSUME NEW s \in Seq(Activation), NEW a \in Activation, NEW fr \in Seq(CallFrame),
           NEW gr \in Seq(CallFrame), LoopsOK(s, fr, FALSE), Len(fr) = Depth(s),
           a.fn \in Loops, a.frame = Len(fr), a.num = fr[Len(fr)].nloops + 1,
           Len(gr) = Len(fr), gr[Len(fr)].nloops = a.num,
           \A f \in 1..(Len(fr) - 1) : gr[f] = fr[f], Len(fr) \in Nat \ {0}
    PROVE  LoopsOK(Append(s, a), gr, FALSE)
<1> DEFINE t == Append(s, a)
           n == Len(s)
           l == Len(fr)
           k == fr[l].nloops
<1>1. /\ n \in Nat /\ Len(t) = n + 1 /\ t[n + 1] = a
      /\ \A i \in 1..n : t[i] = s[i]
  OBVIOUS
<1>0. \A f \in 1..l : fr[f].nloops \in Int /\ gr[f].nloops \in Int
  <2>1. \A f \in 1..l : fr[f] \in CallFrame /\ gr[f] \in CallFrame
    OBVIOUS
  <2>2. \A c \in CallFrame : c.nloops \in Int
    BY DEF CallFrame
  <2> QED
    BY <2>1, <2>2
<1>2. k \in Int /\ a.num = k + 1 /\ gr[l].nloops = k + 1 /\ l \in Nat \ {0}
  <2>1. l \in 1..l
    OBVIOUS
  <2> QED
    BY <1>0, <2>1
<1>3. k >= 0
  BY <1>2 DEF LoopsOK, Counted
<1>4. \A i \in 1..n : s[i].frame \in 1..l /\ s[i].num \in Int
  <2>1. \A i \in 1..n : s[i] \in Activation
    OBVIOUS
  <2>2. \A i \in 1..n : s[i].num \in Int
    BY <2>1 DEF Activation
  <2> QED
    BY <2>2, WithinDepth DEF LoopsOK
<1>5. \A i \in 1..n : s[i].fn \in Loops => s[i].num <= fr[s[i].frame].nloops
  BY DEF LoopsOK, Counted
<1> HIDE DEF t, k
<1>6. \A i \in 1..(n + 1) : i = n + 1 \/ i \in 1..n
  BY <1>1
<1>7. \A i \in 1..(n + 1) : \A j \in 1..(i - 1) : j \in 1..n
  BY <1>1
<1>8. Nested(t)
  <2> SUFFICES ASSUME NEW i \in 1..(n + 1), NEW j \in 1..(i - 1)
               PROVE  BodyFrame(t[j]) <= t[i].frame
    BY <1>1 DEF Nested
  <2>1. j \in 1..n /\ t[j] = s[j]
    BY <1>1, <1>7
  <2>2. CASE i = n + 1
    BY <1>1, <2>1, <2>2, WithinDepth DEF LoopsOK
  <2>3. CASE i \in 1..n
    BY <1>1, <2>1, <2>3 DEF LoopsOK, Nested
  <2> QED
    BY <1>6, <2>2, <2>3
<1>9. Ordered(t)
  <2> SUFFICES ASSUME NEW i \in 1..(n + 1), t[i].fn \in Loops
               PROVE  /\ t[i].num >= 1
                      /\ \A j \in 1..(i - 1) : t[j].fn \in Loops /\ t[j].frame = t[i].frame
                            => t[j].num < t[i].num
    BY <1>1 DEF Ordered
  <2>1. CASE i = n + 1
    <3>1. t[i].num = k + 1 /\ t[i].frame = l
      BY <1>1, <1>2, <2>1
    <3>2. ASSUME NEW j \in 1..(i - 1), t[j].fn \in Loops, t[j].frame = t[i].frame
          PROVE  t[j].num < t[i].num
      <4>1. j \in 1..n /\ t[j] = s[j]
        BY <1>1, <1>7
      <4>2. s[j].num <= k /\ s[j].num \in Int
        BY <1>4, <1>5, <3>1, <3>2, <4>1 DEF k
      <4> QED
        BY <1>2, <3>1, <4>1, <4>2
    <3> QED
      BY <1>2, <1>3, <3>1, <3>2
  <2>2. CASE i \in 1..n
    BY <1>1, <1>7, <2>2 DEF LoopsOK, Ordered
  <2> QED
    BY <1>6, <2>1, <2>2
<1>10. Counted(t, gr, FALSE)
  <2>1. \A f \in 1..l : f = l \/ f \in 1..(l - 1)
    BY <1>2
  <2>2. \A f \in 1..l : gr[f].nloops >= 0 /\ fr[f].nloops <= gr[f].nloops
    <3>1. \A f \in 1..l : fr[f].nloops \in Int /\ fr[f].nloops >= 0
      BY <1>0 DEF LoopsOK, Counted
    <3> QED
      BY <1>2, <1>3, <2>1, <3>1 DEF k
  <2>3. ASSUME NEW i \in 1..(n + 1), t[i].fn \in Loops
        PROVE  t[i].num <= gr[t[i].frame].nloops
    <3>1. CASE i = n + 1
      BY <1>1, <1>2, <3>1
    <3>2. CASE i \in 1..n
      <4>1. t[i] = s[i] /\ s[i].frame \in 1..l /\ s[i].num \in Int
            /\ s[i].num <= fr[s[i].frame].nloops
        BY <1>1, <1>4, <1>5, <2>3, <3>2
      <4>2. fr[s[i].frame].nloops \in Int /\ gr[s[i].frame].nloops \in Int
            /\ fr[s[i].frame].nloops <= gr[s[i].frame].nloops
        BY <1>0, <2>2, <4>1
      <4> QED
        BY <4>1, <4>2
    <3> QED
      BY <1>6, <3>1, <3>2
  <2> QED
    BY <1>1, <2>2, <2>3 DEF Counted
<1> QED
  BY <1>8, <1>9, <1>10 DEF LoopsOK, t

(* nloops of the current call frame is changed. *)
LEMMA SetLoops ==
    ASSUME NEW s \in Seq(Activation), NEW fr \in Seq(CallFrame), NEW gr \in Seq(CallFrame),
           NEW u \in BOOLEAN, NEW v \in BOOLEAN, LoopsOK(s, fr, u), Len(fr) = Depth(s),
           Len(fr) \in Nat \ {0}, Len(gr) = Len(fr),
           \A f \in 1..(Len(fr) - 1) : gr[f] = fr[f],
           ~v => /\ gr[Len(fr)].nloops >= 0
                 /\ \A i \in 1..Len(s) : s[i].fn \in Loops /\ s[i].frame = Len(fr)
                       => s[i].num <= gr[Len(fr)].nloops
    PROVE  LoopsOK(s, gr, v)
<1> DEFINE l == Len(fr)
<1>1. l \in Nat \ {0} /\ \A f \in 1..l : f = l \/ (f \in 1..(l - 1) /\ f # l)
  OBVIOUS
<1>2. \A i \in 1..Len(s) : s[i].frame \in 1..l
  BY WithinDepth DEF LoopsOK
<1>3. ASSUME NEW i \in 1..Len(s), s[i].fn \in Loops, ~(v /\ s[i].frame = l)
      PROVE  s[i].num <= gr[s[i].frame].nloops
  <2>1. CASE s[i].frame = l
    BY <1>3, <2>1
  <2>2. CASE s[i].frame # l
    <3>1. s[i].frame \in 1..(l - 1)
      BY <1>1, <1>2, <2>2
    <3>2. s[i].num <= fr[s[i].frame].nloops
      BY <1>3, <2>2 DEF LoopsOK, Counted
    <3> QED
      BY <3>1, <3>2
  <2> QED
    BY <2>1, <2>2
<1>4. ASSUME NEW f \in 1..l, ~(v /\ f = l)
      PROVE  gr[f].nloops >= 0
  <2>1. CASE f = l
    BY <1>4, <2>1
  <2>2. CASE f # l
    BY <1>1, <2>2 DEF LoopsOK, Counted
  <2> QED
    BY <2>1, <2>2
<1> QED
  BY <1>3, <1>4 DEF LoopsOK, Counted

(* push_frame. *)
LEMMA PushFrameLoops ==
    ASSUME NEW s \in Seq(Activation), NEW fr \in Seq(CallFrame), NEW f \in CallFrame,
           LoopsOK(s, fr, FALSE), Len(fr) = Depth(s), f.nloops = 0
    PROVE  LoopsOK(s, Append(fr, f), FALSE)
<1> DEFINE gr == Append(fr, f)
           l == Len(fr)
<1>1. l \in Nat /\ Len(gr) = l + 1 /\ gr[l + 1] = f /\ \A g \in 1..l : gr[g] = fr[g]
  OBVIOUS
<1>2. \A g \in 1..(l + 1) : g = l + 1 \/ g \in 1..l
  BY <1>1
<1>3. \A i \in 1..Len(s) : s[i].frame \in 1..l
  BY WithinDepth DEF LoopsOK
<1> HIDE DEF gr
<1>4. Counted(s, gr, FALSE)
  BY <1>1, <1>2, <1>3 DEF LoopsOK, Counted
<1> QED
  BY <1>4 DEF LoopsOK, gr

(* pop_frame: the loops of the caller's frame are all counted. *)
LEMMA PopFrameLoops ==
    ASSUME NEW s \in Seq(Activation), NEW fr \in Seq(CallFrame), NEW u \in BOOLEAN,
           LoopsOK(s, fr, u), Len(fr) = Depth(s) + 1, NEW gr \in Seq(CallFrame),
           Len(gr) = Len(fr) - 1, \A f \in 1..(Len(fr) - 1) : gr[f] = fr[f]
    PROVE  LoopsOK(s, gr, FALSE)
<1> DEFINE l == Len(fr)
<1>1. l \in Nat /\ \A f \in 1..(l - 1) : f \in 1..l /\ f # l
  OBVIOUS
<1>2. \A i \in 1..Len(s) : s[i].frame \in 1..(l - 1)
  <2> SUFFICES ASSUME NEW i \in 1..Len(s) PROVE s[i].frame \in 1..(l - 1)
    OBVIOUS
  <2>1. s[i].frame \in 1..Depth(s) /\ Depth(s) \in Nat
    BY WithinDepth DEF LoopsOK
  <2> QED
    BY <2>1
<1>3. Counted(s, gr, FALSE)
  BY <1>1, <1>2 DEF LoopsOK, Counted
<1> QED
  BY <1>3 DEF LoopsOK

(* Less is said of the frame that is unwound. *)
LEMMA WeakLoops ==
    ASSUME NEW s, NEW fr, NEW u, NEW v, LoopsOK(s, fr, u), u => v
    PROVE  LoopsOK(s, fr, v)
BY DEF LoopsOK, Counted

(* What the running activation and its callers look like. *)
LEMMA CallersAre ==
    ASSUME IInv, stack # <<>>
    PROVE  /\ stack \in Seq(Activation) /\ Callers \in Seq(Activation)
           /\ Len(stack) \in Nat \ {0} /\ Len(Callers) = Len(stack) - 1
           /\ \A i \in 1..(Len(stack) - 1) : Callers[i] = stack[i]
<1>1. stack \in Seq(Activation)
  BY DEF IInv, TypeOK
<1>2. /\ Callers \in Seq(Activation) /\ Len(Callers) = Len(stack) - 1
      /\ \A i \in 1..(Len(stack) - 1) : Callers[i] = stack[i]
  BY <1>1, FrontIs, Zenon DEF Callers
<1>3. Len(stack) \in Nat \ {0}
  BY <1>1
<1> QED
  BY <1>1, <1>2, <1>3

(* The running activation goes. *)
LEMMA CallersLoops ==
    ASSUME IInv, stack # <<>>, NEW u, LoopsOK(stack, frames, u)
    PROVE  LoopsOK(Callers, frames, u)
BY CallersAre, FrontLoops

(* The running activation goes on as another of the same. *)
LEMMA TopLoops ==
    ASSUME IInv, stack # <<>>, LoopsOK(stack, frames, FALSE), NEW a \in Activation,
           Same(TopAct, a)
    PROVE  LoopsOK(Append(Callers, a), frames, FALSE) /\ Append(Callers, a) \in Seq(Activation)
<1> DEFINE t == Append(Callers, a)
           n == Len(stack)
<1>1. /\ stack \in Seq(Activation) /\ Callers \in Seq(Activation)
      /\ n \in Nat \ {0} /\ Len(Callers) = n - 1
      /\ \A i \in 1..(n - 1) : Callers[i] = stack[i]
  BY CallersAre
<1>2. t \in Seq(Activation) /\ Len(t) = n /\ t[n] = a /\ \A i \in 1..(n - 1) : t[i] = Callers[i]
  BY <1>1
<1>3. stack[n] = TopAct
  BY DEF TopAct
<1> HIDE DEF t, n
<1>4. \A i \in 1..n : i = n \/ i \in 1..(n - 1)
  BY <1>1
<1>5. \A i \in 1..n : Same(stack[i], t[i])
  BY <1>1, <1>2, <1>3, <1>4 DEF Same
<1>6. LoopsOK(t, frames, FALSE)
  BY <1>1, <1>2, <1>5, SameLoops DEF n
<1> QED
  BY <1>2, <1>6 DEF t

(* It returns; an interruption stays one. *)
LEMMA ReturnLoops ==
    ASSUME IInv, stack # <<>>, LoopsOK(stack, frames, Unwinding), NEW r, Return(r),
           UNCHANGED frames, Unwinding => r = TASK_STATUS_INTERRUPTED
    PROVE  LoopsOK(stack', frames', Unwinding')
<1>1. stack' = Callers /\ frames' = frames /\ (Unwinding => Unwinding')
  BY DEF Return, Unwinding
<1>2. LoopsOK(Callers, frames, Unwinding)
  BY CallersLoops
<1> QED
  BY <1>1, <1>2, WeakLoops

(* It goes on as another of the same. *)
LEMMA GoOnLoops ==
    ASSUME IInv, stack # <<>>, LoopsOK(stack, frames, FALSE), NEW a \in Activation,
           Same(TopAct, a), NEW c, GoOn(a, c), UNCHANGED frames
    PROVE  LoopsOK(stack', frames', Unwinding')
<1>1. stack' = Append(Callers, a) /\ frames' = frames
  BY DEF GoOn
<1> QED
  BY <1>1, TopLoops, WeakLoops

(* It goes on and calls a list. *)
LEMMA CallListLoops ==
    ASSUME IInv, stack # <<>>, LoopsOK(stack, frames, FALSE), NEW a \in Activation,
           Same(TopAct, a), a.fn # "func", CallList(a), UNCHANGED frames
    PROVE  LoopsOK(stack', frames', Unwinding')
<1> DEFINE t == Append(Callers, a)
<1>1. PICK body \in ListActs(a.frame) : stack' = Append(t, body)
  BY DEF CallList
<1>2. LoopsOK(t, frames, FALSE) /\ t \in Seq(Activation)
  BY TopLoops
<1>3. a.frame \in Nat \ {0} /\ Callers \in Seq(Activation)
  BY Fields, CallersAre
<1>4. body \in Activation /\ body.fn = "list" /\ body.frame = a.frame
  BY <1>3, ListType
<1>5. Depth(t) = BodyFrame(a) /\ BodyFrame(a) = a.frame
  <2>1. t # <<>> /\ t[Len(t)] = a
    BY <1>3
  <2> QED
    BY <2>1 DEF Depth, BodyFrame
<1> HIDE DEF t
<1>6. body.fn \notin Loops
  BY <1>4 DEF Loops
<1>7. LoopsOK(Append(t, body), frames, FALSE)
  BY <1>2, <1>4, <1>5, <1>6, PushLoops
<1> QED
  BY <1>1, <1>7, WeakLoops

(* A call of an activation that is no loop, and perhaps of a list in it. *)
LEMMA CallLoops ==
    ASSUME IInv, LoopsOK(stack, frames, FALSE), NEW a \in Activation, a.fn \notin Loops,
           a.frame = Len(frames)
    PROVE  /\ LoopsOK(Append(stack, a), frames, FALSE)
           /\ a.fn # "func" => \A body \in ListActs(Len(frames)) :
                LoopsOK(Append(Append(stack, a), body), frames, FALSE)
<1> DEFINE t == Append(stack, a)
<1>1. stack \in Seq(Activation) /\ Len(frames) = Depth(stack) /\ Len(frames) \in Nat \ {0}
  BY FrameExists DEF IInv, TypeOK
<1>2. LoopsOK(t, frames, FALSE)
  BY <1>1, PushLoops
<1>3. t \in Seq(Activation) /\ Depth(t) = BodyFrame(a)
  <2>1. t \in Seq(Activation) /\ t # <<>> /\ t[Len(t)] = a
    BY <1>1
  <2> QED
    BY <2>1 DEF Depth
<1> HIDE DEF t
<1>4. ASSUME a.fn # "func", NEW body \in ListActs(Len(frames))
      PROVE  LoopsOK(Append(t, body), frames, FALSE)
  <2>1. body \in Activation /\ body.fn = "list" /\ body.frame = Len(frames)
    BY <1>1, ListType
  <2>2. body.fn \notin Loops /\ body.frame = Depth(t)
    BY <1>3, <1>4, <2>1 DEF Loops, BodyFrame
  <2> QED
    BY <1>2, <1>3, <2>1, <2>2, PushLoops
<1> QED
  BY <1>2, <1>4 DEF t

(* What is left of an interruption that is dropped, or kept. *)
LEMMA DropLoops ==
    ASSUME LInv, ~absorbed', IF ret < 0 THEN Drop(ret) ELSE Keep, ret \in Results
    PROVE  LoopsOK(stack, frames, FALSE)
<1>1. ~absorbed /\ ret # TASK_STATUS_INTERRUPTED
  <2>1. CASE ret < 0
    <3>1. absorbed' = (absorbed \/ ret = TASK_STATUS_INTERRUPTED)
      BY <2>1 DEF Drop
    <3> QED
      BY <3>1, Zenon
  <2>2. CASE ~(ret < 0)
    <3>1. ret # TASK_STATUS_INTERRUPTED
      BY <2>2 DEF TASK_STATUS_INTERRUPTED
    <3>2. absorbed' = absorbed
      BY <2>2 DEF Keep
    <3> QED
      BY <3>1, <3>2, Zenon
  <2> QED
    BY <2>1, <2>2
<1> QED
  BY <1>1, WeakLoops DEF LInv, Unwinding

(* An interruption is kept. *)
LEMMA KeepLoops ==
    ASSUME LInv, ~absorbed', Keep
    PROVE  /\ LoopsOK(stack, frames, Unwinding)
           /\ ~Unwinding => LoopsOK(stack, frames, FALSE)
<1>1. LoopsOK(stack, frames, Unwinding)
  BY DEF LInv, Keep
<1>2. ASSUME ~Unwinding PROVE LoopsOK(stack, frames, FALSE)
  BY <1>1, <1>2 DEF LoopsOK, Counted
<1> QED
  BY <1>1, <1>2

-----------------------------------------------------------------------------
(* The actions that enter or leave no loop *)

(* run_command_list_array *)
LEMMA ListLoops == ASSUME IInv, LInv, ListItemDone PROVE LInv'
<1> SUFFICES ASSUME ~absorbed' PROVE LoopsOK(stack', frames', Unwinding')
  BY DEF LInv
<1>1. /\ stack # <<>> /\ TopAct \in Activation /\ ret \in Results /\ UNCHANGED frames
  BY Top DEF ListItemDone, Returned, IInv, TypeOK
<1>2. CASE Return(ret) /\ Keep
  <2>1. Unwinding => ret = TASK_STATUS_INTERRUPTED
    BY DEF Unwinding
  <2> QED
    BY <1>1, <1>2, <2>1, KeepLoops, ReturnLoops
<1>3. ASSUME TopAct.left # 0,
             GoOn([TopAct EXCEPT !.left = @ - 1], "andor"),
             IF ret < 0 THEN Drop(ret) ELSE Keep
      PROVE  LoopsOK(stack', frames', Unwinding')
  <2> DEFINE a == [TopAct EXCEPT !.left = @ - 1]
  <2>2. TopAct.left - 1 \in Nat
    BY <1>1, <1>3, Fields
  <2>3. a \in Activation /\ Same(TopAct, a)
    BY <1>1, <2>2, SetLeft, Zenon DEF Same
  <2>4. GoOn(a, "andor")
    BY <1>3
  <2> HIDE DEF a
  <2>5. LoopsOK(stack, frames, FALSE)
    BY <1>1, <1>3, DropLoops
  <2> QED
    BY <1>1, <2>3, <2>4, <2>5, GoOnLoops
<1> QED
  BY <1>2, <1>3 DEF ListItemDone

(* run_and_or_list *)
LEMMA AndOrLoops == ASSUME IInv, LInv, AndOr \/ AndOrDone PROVE LInv'
<1> SUFFICES ASSUME ~absorbed' PROVE LoopsOK(stack', frames', Unwinding')
  BY DEF LInv
<1>1. CASE AndOr
  <2>1. PICK op \in {"and", "or"} \cap Syntax :
          stack' = Append(stack, Act("andor", op, Len(frames), 0, 0, 0))
    BY <1>1 DEF AndOr
  <2> DEFINE a == Act("andor", op, Len(frames), 0, 0, 0)
  <2>2. a \in Activation /\ a.fn = "andor" /\ a.frame = Len(frames)
    BY FrameExists, ActType, Named
  <2>3. stack' = Append(stack, a) /\ frames' = frames /\ ~Unwinding
    BY <1>1, <2>1 DEF AndOr, Unwinding
  <2> HIDE DEF a
  <2>4. a.fn \notin Loops /\ LoopsOK(stack, frames, FALSE)
    BY <1>1, <2>2, <2>3, KeepLoops DEF Loops, AndOr
  <2> QED
    BY <2>2, <2>3, <2>4, CallLoops, WeakLoops
<1>2. CASE AndOrDone
  <2>1. /\ stack # <<>> /\ TopAct \in Activation /\ ret \in Results /\ UNCHANGED frames
    BY <1>2, Top DEF AndOrDone, Returned, IInv, TypeOK
  <2> DEFINE a == [TopAct EXCEPT !.phase = "right"]
  <2>2. \/ Return(ret) /\ Keep
        \/ Return(0) /\ ret = 0 /\ Keep
        \/ GoOn(a, "andor") /\ ret = 0 /\ Keep
        \/ GoOn(a, "andor") /\ IF ret < 0 THEN Drop(ret) ELSE Keep
    BY <1>2 DEF AndOrDone
  <2>3. a \in Activation /\ Same(TopAct, a)
    BY <2>1, Named, SetPhase, Zenon DEF Same
  <2> HIDE DEF a
  <2>4. CASE Return(ret) /\ Keep
    <3>1. Unwinding => ret = TASK_STATUS_INTERRUPTED
      BY DEF Unwinding
    <3> QED
      BY <2>1, <2>4, <3>1, KeepLoops, ReturnLoops
  <2>5. CASE Return(0) /\ ret = 0 /\ Keep
    <3>1. ~Unwinding
      BY <2>5 DEF Unwinding, TASK_STATUS_INTERRUPTED
    <3> QED
      BY <2>1, <2>5, <3>1, KeepLoops, ReturnLoops
  <2>6. CASE GoOn(a, "andor") /\ ret = 0 /\ Keep
    <3>1. ~Unwinding
      BY <2>6 DEF Unwinding, TASK_STATUS_INTERRUPTED
    <3> QED
      BY <2>1, <2>3, <2>6, <3>1, KeepLoops, GoOnLoops
  <2>7. CASE GoOn(a, "andor") /\ IF ret < 0 THEN Drop(ret) ELSE Keep
    <3>1. LoopsOK(stack, frames, FALSE)
      BY <2>1, <2>7, DropLoops
    <3> QED
      BY <2>1, <2>3, <2>7, <3>1, GoOnLoops
  <2> QED
    BY <2>2, <2>4, <2>5, <2>6, <2>7
<1> QED
  BY <1>1, <1>2

(* run_pipeline *)
LEMMA PipelineLoops ==
    ASSUME IInv, LInv, Pipeline \/ PipelineStageDone \/ PipelineFails PROVE LInv'
<1> SUFFICES ASSUME ~absorbed' PROVE LoopsOK(stack', frames', Unwinding')
  BY DEF LInv
<1>1. CASE Pipeline
  <2>1. PICK n \in 0..(MaxLen - 1), neg \in {"plain"} \cup ({"bang"} \cap Syntax) :
          stack' = Append(stack, Act("pipe", neg, Len(frames), n + 1, n, 0))
    BY <1>1 DEF Pipeline
  <2> DEFINE a == Act("pipe", neg, Len(frames), n + 1, n, 0)
  <2>2. a \in Activation /\ a.fn = "pipe" /\ a.frame = Len(frames)
    <3>1. neg \in Phases /\ n \in Nat /\ n + 1 \in Int
      BY BoundsAssumption DEF Phases
    <3> QED
      BY <3>1, FrameExists, ActType, Named
  <2>3. stack' = Append(stack, a) /\ frames' = frames /\ ~Unwinding
    BY <1>1, <2>1 DEF Pipeline, Unwinding
  <2> HIDE DEF a
  <2>4. a.fn \notin Loops /\ LoopsOK(stack, frames, FALSE)
    BY <1>1, <2>2, <2>3, KeepLoops DEF Loops, Pipeline
  <2> QED
    BY <2>2, <2>3, <2>4, CallLoops, WeakLoops
<1>2. CASE PipelineStageDone
  <2>1. /\ stack # <<>> /\ TopAct \in Activation /\ ret \in Results /\ UNCHANGED frames
    BY <1>2, Top DEF PipelineStageDone, Returned, IInv, TypeOK
  <2> DEFINE a == [TopAct EXCEPT !.left = @ - 1]
             r == IF TopAct.phase = "bang" THEN Negate(ret) ELSE ret
  <2>2. CASE TopAct.left > 0
    <3>1. TopAct.left - 1 \in Nat
      BY <2>1, <2>2, Fields
    <3>2. a \in Activation /\ Same(TopAct, a)
      BY <2>1, <3>1, SetLeft, Zenon DEF Same
    <3>3. GoOn(a, "command") /\ IF ret < 0 THEN Drop(ret) ELSE Keep
      BY <1>2, <2>2 DEF PipelineStageDone
    <3> HIDE DEF a
    <3>4. LoopsOK(stack, frames, FALSE)
      BY <2>1, <3>3, DropLoops
    <3> QED
      BY <2>1, <3>2, <3>3, <3>4, GoOnLoops
  <2>3. CASE ~(TopAct.left > 0)
    <3>1. Return(r) /\ Keep
      BY <1>2, <2>3 DEF PipelineStageDone
    <3>2. Unwinding => r = TASK_STATUS_INTERRUPTED
      BY DEF Unwinding, Negate, TASK_STATUS_INTERRUPTED
    <3> HIDE DEF r
    <3> QED
      BY <2>1, <3>1, <3>2, KeepLoops, ReturnLoops
  <2> QED
    BY <2>2, <2>3
<1>3. CASE PipelineFails
  <2>1. stack # <<>> /\ Return(1) /\ Keep /\ UNCHANGED frames /\ ~Unwinding
    BY <1>3 DEF PipelineFails, Unwinding
  <2> QED
    BY <2>1, KeepLoops, ReturnLoops
<1> QED
  BY <1>1, <1>2, <1>3

(* Simple commands and brace groups *)
LEMMA SimpleLoops ==
    ASSUME IInv, LInv, RunProcess \/ SimpleFails \/ RunGroup \/ DotFails PROVE LInv'
<1> SUFFICES ASSUME ~absorbed' PROVE LoopsOK(stack', frames', Unwinding')
  BY DEF LInv
<1>1. Keep /\ UNCHANGED frames /\ ~Unwinding
  BY DEF RunProcess, SimpleFails, RunGroup, DotFails, InSimple, InCommand, Unwinding
<1>2. LoopsOK(stack, frames, FALSE)
  BY <1>1, KeepLoops
<1>3. CASE stack' = stack
  BY <1>1, <1>2, <1>3, WeakLoops
<1>4. CASE RunGroup
  <2>1. PICK body \in ListActs(Len(frames)) : stack' = Append(stack, body)
    BY <1>4 DEF RunGroup
  <2>2. body \in Activation /\ body.fn = "list" /\ body.frame = Len(frames)
    BY FrameExists, ListType
  <2>3. body.fn \notin Loops
    BY <2>2 DEF Loops
  <2>4. LoopsOK(stack', frames, FALSE)
    BY <1>2, <2>1, <2>2, <2>3, CallLoops
  <2> QED
    BY <1>1, <2>4, WeakLoops
<1> QED
  BY <1>3, <1>4 DEF RunProcess, SimpleFails, DotFails, Finish

(* run_subshell *)
LEMMA SubshellLoops == ASSUME IInv, LInv, run_subshell \/ SubshellDone PROVE LInv'
<1> SUFFICES ASSUME ~absorbed' PROVE LoopsOK(stack', frames', Unwinding')
  BY DEF LInv
<1>1. CASE run_subshell
  <2> DEFINE a == Act("sub", "none", Len(frames), 0, 0, last_status)
  <2>1. PICK body \in ListActs(Len(frames)) : stack' = Append(Append(stack, a), body)
    BY <1>1 DEF run_subshell
  <2>2. a \in Activation /\ a.fn = "sub" /\ a.frame = Len(frames)
    <3>1. last_status \in Nat
      BY DEF IInv, TypeOK
    <3>2. last_status \in Results
      BY <3>1, ResultType, Zenon
    <3>3. last_status >= 0
      BY <3>1
    <3> QED
      BY <3>2, <3>3, FrameExists, SubType
  <2> HIDE DEF a
  <2>3. frames' = frames /\ ~Unwinding /\ Keep
    BY <1>1 DEF run_subshell, InCommand, Unwinding
  <2>4. a.fn \notin Loops /\ a.fn # "func" /\ LoopsOK(stack, frames, FALSE)
    BY <2>2, <2>3, KeepLoops DEF Loops
  <2>5. LoopsOK(stack', frames, FALSE)
    BY <2>1, <2>2, <2>4, CallLoops
  <2> QED
    BY <2>3, <2>5, WeakLoops
<1>2. CASE SubshellDone
  <2>1. stack # <<>> /\ Return(ret) /\ Keep /\ UNCHANGED frames
        /\ (Unwinding => ret = TASK_STATUS_INTERRUPTED)
    BY <1>2 DEF SubshellDone, Returned, Unwinding
  <2> QED
    BY <2>1, KeepLoops, ReturnLoops
<1> QED
  BY <1>1, <1>2

(* run_if_clause *)
LEMMA IfLoops == ASSUME IInv, LInv, run_if_clause \/ IfDone PROVE LInv'
<1> SUFFICES ASSUME ~absorbed' PROVE LoopsOK(stack', frames', Unwinding')
  BY DEF LInv
<1>1. CASE run_if_clause
  <2> DEFINE a == Act("if", "cond", Len(frames), 0, 0, 0)
  <2>1. PICK body \in ListActs(Len(frames)) : stack' = Append(Append(stack, a), body)
    BY <1>1 DEF run_if_clause
  <2>2. a \in Activation /\ a.fn = "if" /\ a.frame = Len(frames)
    BY FrameExists, ActType, Named
  <2> HIDE DEF a
  <2>3. frames' = frames /\ ~Unwinding /\ Keep
    BY <1>1 DEF run_if_clause, InCommand, Unwinding
  <2>4. a.fn \notin Loops /\ a.fn # "func" /\ LoopsOK(stack, frames, FALSE)
    BY <2>2, <2>3, KeepLoops DEF Loops
  <2>5. LoopsOK(stack', frames, FALSE)
    BY <2>1, <2>2, <2>4, CallLoops
  <2> QED
    BY <2>3, <2>5, WeakLoops
<1>2. CASE IfDone
  <2>1. /\ stack # <<>> /\ TopAct.fn = "if" /\ TopAct \in Activation /\ Keep /\ UNCHANGED frames
    BY <1>2, Top DEF IfDone, Returned
  <2> DEFINE a == [TopAct EXCEPT !.phase = "tail"]
  <2>2. a \in Activation /\ Same(TopAct, a)
    BY <2>1, Named, SetPhase, Zenon DEF Same
  <2>3. a.fn # "func"
    BY <2>1, <2>2 DEF Same
  <2>4. \/ Return(ret)
        \/ ret >= 0 /\ (Return(0) \/ CallList(a) \/ GoOn(a, "command"))
    <3>1. ret \in Int
      BY DEF IInv, TypeOK, Results, TASK_STATUS_ERROR, TASK_STATUS_INTERRUPTED
    <3>2. ret = 0 \/ ret > 0 => ret >= 0
      BY <3>1
    <3> QED
      BY <1>2, <3>2 DEF IfDone
  <2> HIDE DEF a
  <2>5. CASE Return(ret)
    <3>1. Unwinding => ret = TASK_STATUS_INTERRUPTED
      BY DEF Unwinding
    <3> QED
      BY <2>1, <2>5, <3>1, KeepLoops, ReturnLoops
  <2>6. CASE ret >= 0 /\ (Return(0) \/ CallList(a) \/ GoOn(a, "command"))
    <3>1. ~Unwinding
      BY <2>6 DEF Unwinding, TASK_STATUS_INTERRUPTED
    <3>2. LoopsOK(stack, frames, FALSE) /\ LoopsOK(stack, frames, Unwinding)
      BY <2>1, <3>1, KeepLoops
    <3> QED
      BY <2>1, <2>2, <2>3, <2>6, <3>1, <3>2, ReturnLoops, CallListLoops, GoOnLoops
  <2> QED
    BY <2>4, <2>5, <2>6
<1> QED
  BY <1>1, <1>2

-----------------------------------------------------------------------------
(* Call frames, interruptions and loops *)

(* The current call frame is written and no other. *)
LEMMA FrameSet ==
    ASSUME IInv, NEW f \in CallFrame, SetFrame(f)
    PROVE  /\ frames' \in Seq(CallFrame) /\ Len(frames') = Len(frames)
           /\ frames'[Len(frames)] = f /\ Len(frames) \in Nat \ {0}
           /\ \A g \in 1..(Len(frames) - 1) : frames'[g] = frames[g]
<1>1. frames \in Seq(CallFrame) /\ Len(frames) \in Nat \ {0}
  BY FrameExists DEF IInv, TypeOK
<1> QED
  BY <1>1 DEF SetFrame

(* A function starts with no loop; what its frame counted goes with it. *)
LEMMA FunctionLoops == ASSUME IInv, LInv, CallFunction \/ FunctionDone PROVE LInv'
<1> SUFFICES ASSUME ~absorbed' PROVE LoopsOK(stack', frames', Unwinding')
  BY DEF LInv
<1>1. /\ stack \in Seq(Activation) /\ frames \in Seq(CallFrame)
      /\ Len(frames) = Depth(stack) /\ Len(frames) \in Nat \ {0}
  BY FrameExists DEF IInv, TypeOK
<1>2. CASE CallFunction
  <2> DEFINE a == Act("func", "none", Len(frames), 0, 0, 0)
             f == [nloops |-> 0, branch |-> "break"]
  <2>1. stack' = Append(stack, a) /\ frames' = Append(frames, f) /\ ~Unwinding /\ Keep
    BY <1>2 DEF CallFunction, InSimple, InCommand, Unwinding
  <2>2. a \in Activation /\ a.fn = "func" /\ a.frame = Len(frames)
    BY <1>1, ActType, Named
  <2>3. f \in CallFrame /\ f.nloops = 0
    BY DEF CallFrame, Branches
  <2> HIDE DEF a, f
  <2>4. LoopsOK(stack, frames, FALSE) /\ a.fn \notin Loops
    BY <2>1, <2>2, KeepLoops DEF Loops
  <2>5. LoopsOK(stack, frames', FALSE)
    BY <1>1, <2>1, <2>3, <2>4, PushFrameLoops
  <2>6. LoopsOK(stack', frames', FALSE)
    BY <1>1, <2>1, <2>2, <2>4, <2>5, PushLoops
  <2> QED
    BY <2>6, WeakLoops
<1>3. CASE FunctionDone
  <2>1. /\ stack # <<>> /\ TopAct.fn = "func" /\ stack' = Callers
        /\ frames' = SubSeq(frames, 1, Len(frames) - 1) /\ absorbed' = absorbed
    BY <1>3 DEF FunctionDone, Returned, pop_frame, Return
  <2>2. LoopsOK(Callers, frames, Unwinding)
    BY <2>1, CallersLoops DEF LInv
  <2>3. /\ Callers \in Seq(Activation) /\ Depth(Callers) = TopAct.frame
        /\ Len(frames) = TopAct.frame + 1
    BY <2>1, Top DEF BodyFrame
  <2>4. /\ frames' \in Seq(CallFrame) /\ Len(frames') = Len(frames) - 1
        /\ \A g \in 1..(Len(frames) - 1) : frames'[g] = frames[g]
    <3>1. frames # <<>>
      BY <1>1
    <3> QED
      BY <1>1, <2>1, <3>1, FrontIs, Zenon
  <2>5. Unwinding \in BOOLEAN
    BY Zenon DEF Unwinding
  <2>6. LoopsOK(Callers, frames', FALSE)
    BY <1>1, <2>2, <2>3, <2>4, <2>5, PopFrameLoops
  <2> QED
    BY <2>1, <2>6, WeakLoops
<1> QED
  BY <1>2, <1>3

(* break, continue, return and exit spoil the count of the current frame only. *)
LEMMA InterruptLoops ==
    ASSUME IInv, LInv, builtin_break \/ builtin_return \/ builtin_exit PROVE LInv'
<1> SUFFICES ASSUME ~absorbed' PROVE LoopsOK(stack', frames', Unwinding')
  BY DEF LInv
<1>1. /\ stack \in Seq(Activation) /\ frames \in Seq(CallFrame)
      /\ Len(frames) = Depth(stack) /\ Len(frames) \in Nat \ {0} /\ Frame \in CallFrame
  BY FrameExists DEF IInv, TypeOK
<1>2. stack' = stack /\ Unwinding' /\ absorbed' = absorbed
  BY DEF builtin_break, builtin_return, builtin_exit, Finish, Unwinding
<1>3. \E f \in CallFrame : SetFrame(f)
  <2>1. CASE builtin_break
    <3>1. PICK n \in BreakArgs, b \in {"break", "continue"} :
            SetFrame([nloops |-> LoopsLeft(n), branch |-> b])
      BY <2>1 DEF builtin_break
    <3>2. LoopsLeft(n) \in Int
      BY <1>1, BreakAssumption DEF LoopsLeft, Min, CallFrame
    <3>3. b \in Branches
      BY DEF Branches
    <3>4. [nloops |-> LoopsLeft(n), branch |-> b] \in CallFrame
      BY <3>2, <3>3 DEF CallFrame
    <3> QED
      BY <3>1, <3>4
  <2>2. CASE builtin_return
    <3>1. SetFrame([nloops |-> 0, branch |-> "return"])
      BY <2>2 DEF builtin_return
    <3>2. [nloops |-> 0, branch |-> "return"] \in CallFrame
      BY DEF CallFrame, Branches
    <3> QED
      BY <3>1, <3>2
  <2>3. CASE builtin_exit
    <3>1. SetFrame([Frame EXCEPT !.branch = "exit"])
      BY <2>3 DEF builtin_exit
    <3>2. [Frame EXCEPT !.branch = "exit"] \in CallFrame
      BY <1>1 DEF CallFrame, Branches
    <3> QED
      BY <3>1, <3>2
  <2> QED
    BY <2>1, <2>2, <2>3
<1>4. /\ frames' \in Seq(CallFrame) /\ Len(frames') = Len(frames)
      /\ \A g \in 1..(Len(frames) - 1) : frames'[g] = frames[g]
  BY <1>3, FrameSet
<1>5. Unwinding \in BOOLEAN /\ TRUE \in BOOLEAN
  BY Zenon DEF Unwinding
<1>6. LoopsOK(stack, frames, Unwinding)
  BY <1>2 DEF LInv
<1>7. LoopsOK(stack, frames', TRUE)
  BY <1>1, <1>4, <1>5, <1>6, SetLoops
<1> QED
  BY <1>2, <1>7, WeakLoops

(* run_word_command *)
LEMMA WordLoops == ASSUME IInv, LInv, run_word_command \/ WordCommandDone PROVE LInv'
<1> SUFFICES ASSUME ~absorbed' PROVE LoopsOK(stack', frames', Unwinding')
  BY DEF LInv
<1>1. CASE run_word_command
  <2>0. Len(frames) \in Nat \ {0}
    BY FrameExists
  <2>1. PICK body \in ListActs(Len(frames)) :
        \/ stack' = Append(Append(stack, Act("word", "none", Len(frames), 0, 0, 0)), body)
        \/ /\ stack # <<>> /\ TopAct.fn = "for"
           /\ stack' = Append(Append(Append(Callers, [TopAct EXCEPT !.phase = "ready"]),
                                     Act("word", "words", Len(frames), 0, 0, 0)), body)
    BY <1>1 DEF run_word_command
  <2>2. ASSUME NEW p \in {"none", "words"}
        PROVE  LET w == Act("word", p, Len(frames), 0, 0, 0)
               IN  w \in Activation /\ w.fn = "word" /\ w.frame = Len(frames)
    <3>1. p \in Phases
      BY Named
    <3> QED
      BY <2>0, <3>1, ActType, Named
  <2>3. frames' = frames /\ ~Unwinding /\ Keep
    BY <1>1 DEF run_word_command, InCommand, Unwinding
  <2>4. LoopsOK(stack, frames, FALSE)
    BY <2>3, KeepLoops
  <2>5. CASE stack' = Append(Append(stack, Act("word", "none", Len(frames), 0, 0, 0)), body)
    <3> DEFINE w == Act("word", "none", Len(frames), 0, 0, 0)
    <3>1. w \in Activation /\ w.fn = "word" /\ w.frame = Len(frames)
      BY <2>2
    <3>2. stack' = Append(Append(stack, w), body)
      BY <2>5
    <3> HIDE DEF w
    <3>3. w.fn \notin Loops /\ w.fn # "func"
      BY <3>1 DEF Loops
    <3>4. LoopsOK(stack', frames, FALSE)
      BY <2>4, <3>1, <3>2, <3>3, CallLoops
    <3> QED
      BY <2>3, <3>4, WeakLoops
  <2>6. CASE /\ stack # <<>> /\ TopAct.fn = "for"
             /\ stack' = Append(Append(Append(Callers, [TopAct EXCEPT !.phase = "ready"]),
                                       Act("word", "words", Len(frames), 0, 0, 0)), body)
    <3> DEFINE w == Act("word", "words", Len(frames), 0, 0, 0)
               a == [TopAct EXCEPT !.phase = "ready"]
               t == Append(Callers, a)
               q == Append(t, w)
    <3>1. w \in Activation /\ w.fn = "word" /\ w.frame = Len(frames)
      BY <2>2
    <3>2. TopAct \in Activation /\ TopAct.frame = Len(frames) /\ Callers \in Seq(Activation)
      BY <2>6, Top DEF BodyFrame
    <3>3. a \in Activation /\ Same(TopAct, a)
      BY <3>2, Named, SetPhase, Zenon DEF Same
    <3>4. stack' = Append(q, body)
      BY <2>6
    <3>5. body \in Activation /\ body.fn = "list" /\ body.frame = Len(frames)
      BY <2>0, ListType
    <3> HIDE DEF w, a
    <3>6. LoopsOK(t, frames, FALSE) /\ t \in Seq(Activation)
      BY <2>4, <2>6, <3>3, TopLoops
    <3>7. Depth(t) = Len(frames)
      <4>1. t # <<>> /\ t[Len(t)] = a
        BY <3>2, <3>3
      <4> QED
        BY <2>6, <3>2, <3>3, <4>1 DEF Depth, BodyFrame, Same
    <3> HIDE DEF t
    <3>8. w.fn \notin Loops /\ body.fn \notin Loops
      BY <3>1, <3>5 DEF Loops
    <3>9. LoopsOK(q, frames, FALSE)
      BY <3>1, <3>6, <3>7, <3>8, PushLoops
    <3>10. q \in Seq(Activation) /\ Depth(q) = Len(frames)
      <4>1. q \in Seq(Activation) /\ q # <<>> /\ q[Len(q)] = w
        BY <3>1, <3>6
      <4> QED
        BY <3>1, <4>1 DEF Depth, BodyFrame
    <3> HIDE DEF q
    <3>11. LoopsOK(stack', frames, FALSE)
      BY <3>4, <3>5, <3>8, <3>9, <3>10, PushLoops
    <3> QED
      BY <2>3, <3>11, WeakLoops
  <2> QED
    BY <2>1, <2>5, <2>6
<1>2. CASE WordCommandDone
  <2>1. /\ stack # <<>> /\ UNCHANGED frames /\ IF ret < 0 THEN Drop(ret) ELSE Keep
    BY <1>2 DEF WordCommandDone, Returned
  <2>2. stack' = Callers /\ ret \in Results
    BY <1>2 DEF WordCommandDone, Return, IInv, TypeOK
  <2>3. LoopsOK(stack, frames, FALSE)
    BY <2>1, <2>2, DropLoops
  <2>4. LoopsOK(Callers, frames, FALSE)
    BY <2>1, <2>3, CallersLoops
  <2> QED
    BY <2>1, <2>2, <2>4, WeakLoops
<1> QED
  BY <1>1, <1>2

(* The running loop: its call frame is the current one. *)
LEMMA LoopFrame ==
    ASSUME IInv, InLoop
    PROVE  /\ stack # <<>> /\ TopAct \in Activation /\ TopAct.fn \in Loops
           /\ TopAct.num \in Int /\ Frame \in CallFrame /\ Frame.nloops \in Int
           /\ TopAct.frame = Len(frames) /\ Depth(Callers) = Len(frames)
           /\ frames \in Seq(CallFrame) /\ Len(frames) \in Nat \ {0} /\ Frame = frames[Len(frames)]
           /\ stack[Len(stack)] = TopAct
<1>1. stack # <<>> /\ TopAct.fn \in Loops /\ TopAct.fn # "func"
  BY DEF InLoop, Loops
<1>2. TopAct \in Activation /\ TopAct.frame = Len(frames) /\ Depth(Callers) = Len(frames)
  BY <1>1, Top DEF BodyFrame
<1>3. TopAct.num \in Int
  BY <1>2 DEF Activation
<1>4. Frame \in CallFrame /\ frames \in Seq(CallFrame) /\ Len(frames) \in Nat \ {0}
  BY FrameExists DEF IInv, TypeOK
<1>5. Frame.nloops \in Int
  BY <1>4 DEF CallFrame
<1> QED
  BY <1>1, <1>2, <1>3, <1>4, <1>5 DEF Frame, TopAct

(* A loop that is counted. *)
LEMMA TopCounted ==
    ASSUME IInv, InLoop, LoopsOK(stack, frames, FALSE)
    PROVE  TopAct.num <= Frame.nloops
<1>1. Len(stack) \in 1..Len(stack)
  BY LoopFrame, CallersAre
<1> QED
  BY <1>1, LoopFrame DEF LoopsOK, Counted

(* --nloops of a loop that is counted leaves those around it counted. *)
LEMMA LeaveLoops ==
    ASSUME IInv, InLoop, NEW u \in BOOLEAN, LoopsOK(stack, frames, u), NEW r, LeaveLoop(r),
           TopAct.num <= Frame.nloops \/ r = TASK_STATUS_INTERRUPTED
    PROVE  LoopsOK(stack', frames', Unwinding')
<1> DEFINE n == Len(stack)
           l == Len(frames)
           k == Frame.nloops - 1
<1>1. stack' = Callers /\ ctl' = "ret" /\ ret' = r
  BY DEF LeaveLoop, Return
<1>2. [Frame EXCEPT !.nloops = @ - 1] \in CallFrame
      /\ [Frame EXCEPT !.nloops = @ - 1].nloops = k
  BY LoopFrame DEF CallFrame
<1>3. /\ frames' \in Seq(CallFrame) /\ Len(frames') = l /\ frames'[l].nloops = k
      /\ \A g \in 1..(l - 1) : frames'[g] = frames[g]
  BY <1>2, FrameSet DEF LeaveLoop
<1>4. /\ Callers \in Seq(Activation) /\ Len(Callers) = n - 1 /\ n \in Nat \ {0}
      /\ \A i \in 1..(n - 1) : Callers[i] = stack[i]
  BY LoopFrame, CallersAre
<1>5. LoopsOK(Callers, frames, u)
  BY LoopFrame, CallersLoops
<1>6. /\ frames \in Seq(CallFrame) /\ l \in Nat \ {0} /\ Depth(Callers) = l
      /\ TopAct.num \in Int /\ Frame.nloops \in Int /\ TopAct.frame = l /\ TopAct = stack[n]
      /\ TopAct.fn \in Loops
  BY LoopFrame
<1>7. CASE r = TASK_STATUS_INTERRUPTED
  <2>1. TRUE \in BOOLEAN
    BY Zenon
  <2>2. LoopsOK(Callers, frames', TRUE)
    BY <1>3, <1>4, <1>5, <1>6, <2>1, SetLoops
  <2>3. Unwinding'
    BY <1>1, <1>7 DEF Unwinding
  <2> QED
    BY <1>1, <2>2, <2>3, WeakLoops
<1>8. CASE TopAct.num <= Frame.nloops
  <2>1. n \in 1..n
    BY <1>4
  <2>2. TopAct.num >= 1 /\ \A j \in 1..(n - 1) : stack[j].fn \in Loops /\ stack[j].frame = l
                                => stack[j].num < TopAct.num
    BY <1>6, <2>1 DEF LoopsOK, Ordered
  <2>3. k >= 0 /\ k \in Int
    BY <1>6, <1>8, <2>2
  <2>4. ASSUME NEW i \in 1..Len(Callers), Callers[i].fn \in Loops, Callers[i].frame = l
        PROVE  Callers[i].num <= k
    <3>1. i \in 1..(n - 1) /\ Callers[i] = stack[i] /\ Callers[i] \in Activation
      BY <1>4
    <3>2. Callers[i].num \in Int
      BY <3>1 DEF Activation
    <3>3. Callers[i].num < TopAct.num
      BY <2>2, <2>4, <3>1
    <3> QED
      BY <1>6, <1>8, <3>2, <3>3
  <2>5. FALSE \in BOOLEAN
    BY Zenon
  <2>6. frames'[l].nloops >= 0 /\ \A i \in 1..Len(Callers) :
           Callers[i].fn \in Loops /\ Callers[i].frame = l => Callers[i].num <= frames'[l].nloops
    BY <1>3, <2>3, <2>4
  <2>7. LoopsOK(Callers, frames', FALSE)
    BY <1>3, <1>4, <1>5, <1>6, <2>5, <2>6, SetLoops
  <2> QED
    BY <1>1, <2>7, WeakLoops
<1> QED
  BY <1>7, <1>8

(* ++nloops; the new loop_num is the largest. *)
LEMMA EnterLoops == ASSUME IInv, LInv, EnterLoop PROVE LInv'
<1> SUFFICES ASSUME ~absorbed' PROVE LoopsOK(stack', frames', Unwinding')
  BY DEF LInv
<1>1. PICK fn \in Loops \cap Syntax :
        stack' = Append(stack, Act(fn, IF fn = "for" THEN "words" ELSE "top",
                                   Len(frames), Frame.nloops + 1, 0, 0))
  BY DEF EnterLoop, LoopNum
<1> DEFINE phase == IF fn = "for" THEN "words" ELSE "top"
           k == Frame.nloops + 1
           a == Act(fn, phase, Len(frames), k, 0, 0)
<1>2. fn \in Functions \ {"sub"} /\ phase \in Phases
  BY DEF Loops, Functions, Phases
<1>3. /\ stack \in Seq(Activation) /\ frames \in Seq(CallFrame) /\ Frame \in CallFrame
      /\ Len(frames) = Depth(stack) /\ Len(frames) \in Nat \ {0} /\ Frame = frames[Len(frames)]
  BY FrameExists DEF IInv, TypeOK, Frame
<1>4. k \in Int
  BY <1>3 DEF CallFrame
<1>5. a \in Activation /\ a.fn = fn /\ a.frame = Len(frames)
  <2> HIDE DEF phase, k
  <2> QED BY <1>2, <1>3, <1>4, ActType
<1>6. a.num = k
  BY DEF Act
<1>7. [Frame EXCEPT !.nloops = @ + 1] \in CallFrame
      /\ [Frame EXCEPT !.nloops = @ + 1].nloops = k
  BY <1>3 DEF CallFrame
<1>8. /\ frames' \in Seq(CallFrame) /\ Len(frames') = Len(frames)
      /\ frames'[Len(frames)].nloops = k
      /\ \A g \in 1..(Len(frames) - 1) : frames'[g] = frames[g]
  BY <1>7, FrameSet DEF EnterLoop
<1>9. LoopsOK(stack, frames, FALSE)
  <2>1. Keep /\ ~Unwinding
    BY DEF EnterLoop, InCommand, Unwinding
  <2> QED
    BY <2>1, KeepLoops
<1>10. stack' = Append(stack, a) /\ a.num = frames[Len(frames)].nloops + 1
       /\ frames'[Len(frames)].nloops = a.num /\ a.fn \in Loops
  BY <1>1, <1>3, <1>5, <1>6, <1>8
<1> HIDE DEF a, k
<1>11. LoopsOK(Append(stack, a), frames', FALSE)
  BY <1>3, <1>5, <1>8, <1>9, <1>10, PushLoop
<1> QED
  BY <1>10, <1>11, WeakLoops

(* A loop that is counted iterates or leaves. *)
LEMMA LoopRunLoops ==
    ASSUME IInv, LInv, ForWords \/ LoopHead \/ LoopCondition \/ LoopBody PROVE LInv'
<1> SUFFICES ASSUME ~absorbed' PROVE LoopsOK(stack', frames', Unwinding')
  BY DEF LInv
<1>1. InLoop /\ Keep /\ ~Unwinding
  BY DEF ForWords, LoopHead, LoopCondition, LoopBody, Unwinding
<1>2. LoopsOK(stack, frames, FALSE) /\ LoopsOK(stack, frames, Unwinding)
  BY <1>1, KeepLoops
<1>3. /\ stack # <<>> /\ TopAct \in Activation /\ TopAct.fn # "func" /\ TopAct.fn # "sub"
      /\ TopAct.left \in Nat /\ ret \in Results
  BY <1>1, LoopTop
<1>4. FALSE \in BOOLEAN /\ TopAct.num <= Frame.nloops
  <2>1. FALSE \in BOOLEAN
    BY Zenon
  <2> QED
    BY <1>1, <1>2, <2>1, TopCounted
<1>5. \A r : LeaveLoop(r) => LoopsOK(stack', frames', Unwinding')
  BY <1>1, <1>2, <1>4, LeaveLoops
<1>6. \A r : Return(r) /\ UNCHANGED frames => LoopsOK(stack', frames', Unwinding')
  BY <1>1, <1>2, <1>3, ReturnLoops
<1>7. \A a \in Activation : Same(TopAct, a) /\ UNCHANGED frames /\ (GoOn(a, "run") \/ CallList(a))
         => LoopsOK(stack', frames', Unwinding')
  <2> SUFFICES ASSUME NEW a \in Activation, Same(TopAct, a), UNCHANGED frames,
                      GoOn(a, "run") \/ CallList(a)
               PROVE  LoopsOK(stack', frames', Unwinding')
    OBVIOUS
  <2>1. a.fn # "func"
    BY <1>3 DEF Same
  <2> QED
    BY <1>2, <1>3, <2>1, GoOnLoops, CallListLoops
<1>8. CASE ForWords
  <2>1. UNCHANGED frames
    BY <1>8 DEF ForWords
  <2>2. ASSUME NEW n \in 0..MaxLen, GoOn([TopAct EXCEPT !.left = n, !.phase = "top"], "run")
        PROVE  LoopsOK(stack', frames', Unwinding')
    <3> DEFINE a == [TopAct EXCEPT !.left = n, !.phase = "top"]
    <3>1. n \in Nat /\ "top" \in Phases
      BY BoundsAssumption, Named
    <3>2. a \in Activation /\ Same(TopAct, a)
      BY <1>3, <3>1, SetLeftPhase, Zenon DEF Same
    <3>3. GoOn(a, "run")
      BY <2>2
    <3> HIDE DEF a
    <3> QED
      BY <1>7, <2>1, <3>2, <3>3
  <2>3. ASSUME Return(TASK_STATUS_ERROR) PROVE LoopsOK(stack', frames', Unwinding')
    BY <1>6, <2>1, <2>3
  <2> QED
    BY <1>8, <2>2, <2>3 DEF ForWords
<1>9. CASE LoopHead
  <2> DEFINE b == [TopAct EXCEPT !.left = @ - 1, !.phase = "body"]
             c == [TopAct EXCEPT !.phase = "cond"]
  <2>1. TopAct.left > 0 => b \in Activation /\ Same(TopAct, b)
    <3> SUFFICES ASSUME TopAct.left > 0 PROVE b \in Activation /\ Same(TopAct, b)
      OBVIOUS
    <3>1. TopAct.left - 1 \in Nat /\ "body" \in Phases
      BY <1>3, Named
    <3> QED
      BY <1>3, <3>1, SetLeftPhase, Zenon DEF Same
  <2>2. c \in Activation /\ Same(TopAct, c)
    BY <1>3, Named, SetPhase, Zenon DEF Same
  <2>3. \/ LeaveLoop(TopAct.val)
        \/ CallList(b) /\ TopAct.left > 0 /\ UNCHANGED frames
        \/ CallList(c) /\ UNCHANGED frames
    BY <1>9 DEF LoopHead
  <2> HIDE DEF b, c
  <2> QED
    BY <1>5, <1>7, <2>1, <2>2, <2>3
<1>10. CASE LoopCondition
  <2> DEFINE b == [TopAct EXCEPT !.phase = "body"]
  <2>1. b \in Activation /\ Same(TopAct, b)
    BY <1>3, Named, SetPhase, Zenon DEF Same
  <2>2. \/ LeaveLoop(TopAct.val)
        \/ CallList(b) /\ UNCHANGED frames
        \/ Return(ret) /\ UNCHANGED frames
    BY <1>10 DEF LoopCondition
  <2> HIDE DEF b
  <2> QED
    BY <1>5, <1>6, <1>7, <2>1, <2>2
<1>11. CASE LoopBody
  <2> DEFINE a == [TopAct EXCEPT !.val = ret, !.phase = "top"]
  <2>1. a \in Activation /\ Same(TopAct, a)
    BY <1>3, Named, SetValPhase, ZenonT(40) DEF Same
  <2>2. (Return(ret) \/ GoOn(a, "run")) /\ UNCHANGED frames
    BY <1>11 DEF LoopBody
  <2> HIDE DEF a
  <2> QED
    BY <1>6, <1>7, <2>1, <2>2
<1> QED
  BY <1>8, <1>9, <1>10, <1>11

(* A loop passes an interruption on, or finds itself counted and takes it. *)
LEMMA LoopInterruptLoops == ASSUME IInv, LInv, LoopInterrupt PROVE LInv'
<1> SUFFICES ASSUME ~absorbed' PROVE LoopsOK(stack', frames', Unwinding')
  BY DEF LInv
<1> DEFINE loop_ret == IF TopAct.phase = "body" THEN ret ELSE TopAct.val
           a == [TopAct EXCEPT !.val = loop_ret, !.phase = "top"]
<1>1. InLoop /\ absorbed' = absorbed
  BY DEF LoopInterrupt, Keep
<1>2. LoopsOK(stack, frames, Unwinding) /\ Unwinding \in BOOLEAN
  <2>1. Unwinding \in BOOLEAN
    BY Zenon DEF Unwinding
  <2> QED
    BY <1>1, <2>1 DEF LInv
<1>3. loop_ret \in Results
  BY <1>1, LoopTop
<1>4. a \in Activation /\ Same(TopAct, a)
  <2> HIDE DEF loop_ret
  <2>1. TopAct \in Activation /\ TopAct.fn # "sub" /\ "top" \in Phases
    BY <1>1, LoopTop, Named
  <2> QED
    BY <1>3, <2>1, SetValPhase, Zenon DEF Same
<1>5. \/ LeaveLoop(TASK_STATUS_INTERRUPTED)
      \/ /\ TopAct.num <= Frame.nloops
         /\ \/ LeaveLoop(0)
            \/ GoOn(a, "run") /\ UNCHANGED frames
            \/ LeaveLoop(loop_ret)
  <2>1. Frame.nloops >= TopAct.num => TopAct.num <= Frame.nloops
    BY <1>1, LoopFrame
  <2> QED
    BY <2>1 DEF LoopInterrupt
<1> HIDE DEF a, loop_ret
<1>6. CASE LeaveLoop(TASK_STATUS_INTERRUPTED)
  BY <1>1, <1>2, <1>6, LeaveLoops
<1>7. CASE TopAct.num <= Frame.nloops /\ (LeaveLoop(0) \/ LeaveLoop(loop_ret))
  BY <1>1, <1>2, <1>7, LeaveLoops
<1>8. CASE TopAct.num <= Frame.nloops /\ GoOn(a, "run") /\ UNCHANGED frames
  <2>1. LoopsOK(stack, frames, FALSE)
    <3> DEFINE n == Len(stack)
               l == Len(frames)
    <3>1. /\ frames \in Seq(CallFrame) /\ l \in Nat \ {0} /\ l = Depth(stack)
          /\ TopAct.num \in Int /\ Frame.nloops \in Int /\ TopAct.frame = l
          /\ TopAct = stack[n] /\ TopAct.fn \in Loops /\ Frame = frames[l]
      BY <1>1, LoopFrame, FrameExists
    <3>2. stack \in Seq(Activation) /\ n \in Nat \ {0} /\ n \in 1..n
      BY <1>1, LoopFrame, CallersAre
    <3>3. TopAct.num >= 1 /\ \A j \in 1..(n - 1) : stack[j].fn \in Loops /\ stack[j].frame = l
                                  => stack[j].num < TopAct.num
      BY <1>2, <3>1, <3>2 DEF LoopsOK, Ordered
    <3>4. Frame.nloops >= 0
      BY <1>8, <3>1, <3>3
    <3>5. ASSUME NEW i \in 1..n, stack[i].fn \in Loops, stack[i].frame = l
          PROVE  stack[i].num <= Frame.nloops
      <4>1. stack[i] \in Activation
        BY <3>2
      <4>2. stack[i].num \in Int
        BY <4>1 DEF Activation
      <4>3. CASE i = n
        BY <1>8, <3>1, <4>3
      <4>4. CASE i # n
        <5>1. i \in 1..(n - 1)
          BY <3>2, <4>4
        <5>2. stack[i].num < TopAct.num
          BY <3>3, <3>5, <5>1
        <5> QED
          BY <1>8, <3>1, <4>2, <5>2
      <4> QED
        BY <4>3, <4>4
    <3>6. FALSE \in BOOLEAN
      BY Zenon
    <3>7. frames[l].nloops >= 0 /\ \A i \in 1..Len(stack) :
             stack[i].fn \in Loops /\ stack[i].frame = l => stack[i].num <= frames[l].nloops
      BY <3>1, <3>4, <3>5
    <3> QED
      BY <1>2, <3>1, <3>2, <3>6, <3>7, SetLoops
  <2> QED
    BY <1>1, <1>4, <1>8, <2>1, LoopFrame, GoOnLoops
<1> QED
  BY <1>5, <1>6, <1>7, <1>8

-----------------------------------------------------------------------------
(* There is no loop at the start. *)
LEMMA InitLInv == Init => LInv
<1> SUFFICES ASSUME Init PROVE LoopsOK(stack, frames, Unwinding)
  BY DEF LInv
<1>1. PICK body \in ListActs(1) : stack = <<body>>
  BY DEF Init
<1>2. body.fn = "list"
  BY <1>1, ListType
<1>3. Len(stack) = 1 /\ stack[1].fn \notin Loops
  BY <1>1, <1>2 DEF Loops
<1>4. Len(frames) = 1 /\ frames[1].nloops = 0
  BY DEF Init
<1>5. Nested(stack)
  BY <1>3 DEF Nested
<1>6. Ordered(stack)
  BY <1>3 DEF Ordered
<1>7. Counted(stack, frames, Unwinding)
  BY <1>3, <1>4 DEF Counted
<1> QED
  BY <1>5, <1>6, <1>7 DEF LoopsOK

(* Every step keeps the loops ordered and counted. *)
LEMMA NextLInv == IInv /\ LInv /\ [Next]_vars => LInv'
<1>1. LInv /\ UNCHANGED vars => LInv'
  BY DEF vars, LInv, Unwinding
<1>2. LInv /\ Terminated => LInv'
  BY <1>1 DEF Terminated
<1> QED
  BY <1>1, <1>2, ListLoops, AndOrLoops, PipelineLoops, SimpleLoops, InterruptLoops,
     FunctionLoops, SubshellLoops, WordLoops, IfLoops, EnterLoops, LoopRunLoops,
     LoopInterruptLoops
  DEF Next

(* While nothing is unwound the loop_num of every open loop of             *)
(* run_loop_clause and run_for_clause is at most the nloops of its call    *)
(* frame, which is what lets break and continue find their loop: whatever  *)
(* the argument of break, and whatever errors left nloops too large.       *)
THEOREM LoopsAlwaysCounted == Spec => []LoopsCounted
<1>1. IInv /\ LInv => LoopsCounted
  <2> SUFFICES ASSUME IInv, LInv, ~absorbed, ~Unwinding,
                      NEW i \in 1..Len(stack), stack[i].fn \in Loops
               PROVE  /\ stack[i].num \in 1..frames[stack[i].frame].nloops
                      /\ \A j \in 1..(i - 1) :
                           stack[j].fn \in Loops /\ stack[j].frame = stack[i].frame
                           => stack[j].num < stack[i].num
    BY DEF LoopsCounted, Unwinding
  <2>1. LoopsOK(stack, frames, Unwinding)
    BY DEF LInv
  <2>2. stack \in Seq(Activation) /\ frames \in Seq(CallFrame) /\ Len(frames) = Depth(stack)
    BY DEF IInv, TypeOK, FramesBalanced
  <2>3. stack[i].frame \in 1..Len(frames)
    BY <2>1, <2>2, WithinDepth DEF LoopsOK
  <2>4. frames[stack[i].frame] \in CallFrame
    BY <2>2, <2>3
  <2>5. frames[stack[i].frame].nloops \in Int
    BY <2>4 DEF CallFrame
  <2>6. stack[i] \in Activation
    BY <2>2
  <2>7. stack[i].num \in Int
    BY <2>6 DEF Activation
  <2>8. stack[i].num >= 1 /\ \A j \in 1..(i - 1) :
                           stack[j].fn \in Loops /\ stack[j].frame = stack[i].frame
                           => stack[j].num < stack[i].num
    BY <2>1 DEF LoopsOK, Ordered
  <2>9. stack[i].num <= frames[stack[i].frame].nloops
    BY <2>1 DEF LoopsOK, Counted
  <2> QED
    BY <2>5, <2>7, <2>8, <2>9
<1> QED
  BY <1>1, InitIInv, NextIInv, InitLInv, NextLInv, PTL DEF Spec

-----------------------------------------------------------------------------
(* An interruption on its way, whichever it is. *)

(* A break or a continue is on its way. *)
Raised == intr.kind \in {"break", "continue"}

(* What a step may do to an interruption that it does not drop: an         *)
(* activation passes it on, a function call ends, or a loop looks at it.   *)
PassedOn ==
    /\ stack # <<>> /\ TopAct.fn \notin Loops \cup {"func"}
    /\ Return(ret) /\ UNCHANGED <<frames, intr, absorbed>>

(* An interruption that is not dropped is passed on or looked at. *)
LEMMA Ways ==
    ASSUME IInv, Unwinding, ~absorbed', [Next]_vars
    PROVE  PassedOn \/ FunctionDone \/ LoopInterrupt \/ UNCHANGED vars
<1>1. /\ ctl = "ret" /\ ret = TASK_STATUS_INTERRUPTED /\ ret < 0 /\ ret # 0 /\ ~(ret >= 0)
      /\ ~(ret > 0)
  BY DEF Unwinding, TASK_STATUS_INTERRUPTED
<1>2. ~InSimple /\ ~InCommand /\ ctl # "run"
  BY <1>1 DEF InSimple, InCommand
<1>3. ~Drop(ret)
  <2> SUFFICES ASSUME Drop(ret) PROVE FALSE
    OBVIOUS
  <2>1. absorbed' = (absorbed \/ ret = TASK_STATUS_INTERRUPTED)
    BY DEF Drop
  <2> QED
    BY <1>1, <2>1, Zenon
<1>4. CASE ListItemDone
  <2>1. stack # <<>> /\ TopAct.fn = "list" /\ UNCHANGED frames /\ Return(ret) /\ Keep
    BY <1>1, <1>3, <1>4 DEF ListItemDone, Returned
  <2> QED
    BY <2>1 DEF PassedOn, Keep, Loops
<1>5. CASE AndOr \/ AndOrDone
  <2>1. AndOrDone
    BY <1>1, <1>5 DEF AndOr
  <2>2. stack # <<>> /\ TopAct.fn = "andor" /\ UNCHANGED frames /\ Return(ret) /\ Keep
    BY <1>1, <1>3, <2>1 DEF AndOrDone, Returned
  <2> QED
    BY <2>2 DEF PassedOn, Keep, Loops
<1>6. CASE Pipeline \/ PipelineStageDone \/ PipelineFails
  <2>1. PipelineStageDone
    BY <1>1, <1>6 DEF Pipeline, PipelineFails
  <2>2. stack # <<>> /\ TopAct.fn = "pipe" /\ UNCHANGED frames /\ Return(ret) /\ Keep
    BY <1>1, <1>3, <2>1 DEF PipelineStageDone, Returned, Negate
  <2> QED
    BY <2>2 DEF PassedOn, Keep, Loops
<1>7. ~(RunProcess \/ SimpleFails \/ RunGroup \/ DotFails \/ builtin_break \/ builtin_return
        \/ builtin_exit \/ CallFunction)
  BY <1>2 DEF RunProcess, SimpleFails, RunGroup, DotFails, builtin_break, builtin_return,
              builtin_exit, CallFunction
<1>8. CASE run_subshell \/ SubshellDone
  <2>1. SubshellDone
    BY <1>2, <1>8 DEF run_subshell
  <2>2. stack # <<>> /\ TopAct.fn = "sub" /\ UNCHANGED frames /\ Return(ret) /\ Keep
    BY <2>1 DEF SubshellDone, Returned
  <2> QED
    BY <2>2 DEF PassedOn, Keep, Loops
<1>9. ~(run_word_command \/ WordCommandDone)
  <2>1. ~run_word_command
    BY <1>2 DEF run_word_command
  <2>2. ~WordCommandDone
    BY <1>1, <1>3 DEF WordCommandDone
  <2> QED
    BY <2>1, <2>2
<1>10. CASE run_if_clause \/ IfDone
  <2>1. IfDone
    BY <1>2, <1>10 DEF run_if_clause
  <2>2. stack # <<>> /\ TopAct.fn = "if" /\ UNCHANGED frames /\ Return(ret) /\ Keep
    BY <1>1, <2>1 DEF IfDone, Returned
  <2> QED
    BY <2>2 DEF PassedOn, Keep, Loops
<1>11. ~(EnterLoop \/ ForWords \/ LoopHead \/ LoopCondition \/ LoopBody)
  BY <1>1, <1>2 DEF EnterLoop, ForWords, LoopHead, LoopCondition, LoopBody
<1>12. Terminated => UNCHANGED vars
  BY DEF Terminated
<1> QED
  BY <1>4, <1>5, <1>6, <1>7, <1>8, <1>9, <1>10, <1>11, <1>12 DEF Next

(* No step takes back that an interruption was dropped; only               *)
(* builtin_break raises a break or a continue.                             *)
LEMMA Histories ==
    ASSUME IInv, ~absorbed', [Next]_vars
    PROVE  /\ ~absorbed
           /\ Raised' /\ ~builtin_break => intr' = intr
<1>1. absorbed \in BOOLEAN
  BY DEF IInv, TypeOK
<1>2. \A r : Drop(r) => ~absorbed /\ ~Raised'
  <2> SUFFICES ASSUME NEW r, Drop(r) PROVE ~absorbed /\ ~Raised'
    OBVIOUS
  <2>1. absorbed' = (absorbed \/ r = TASK_STATUS_INTERRUPTED) /\ intr'.kind = "none"
    BY DEF Drop, NoInterrupt
  <2>2. ~absorbed
    BY <2>1, Zenon
  <2> QED
    BY <2>1, <2>2 DEF Raised
<1>3. Keep => ~absorbed /\ intr' = intr
  BY DEF Keep
<1>4. CASE ListItemDone \/ AndOr \/ AndOrDone
  BY <1>2, <1>3, <1>4 DEF ListItemDone, AndOr, AndOrDone
<1>5. CASE Pipeline \/ PipelineStageDone \/ PipelineFails
  BY <1>2, <1>3, <1>5 DEF Pipeline, PipelineStageDone, PipelineFails
<1>6. CASE RunProcess \/ SimpleFails \/ RunGroup \/ DotFails
  BY <1>3, <1>6 DEF RunProcess, SimpleFails, RunGroup, DotFails
<1>7. CASE builtin_break
  BY <1>7 DEF builtin_break
<1>8. CASE builtin_return \/ builtin_exit
  BY <1>8 DEF builtin_return, builtin_exit, Raised
<1>9. CASE CallFunction \/ FunctionDone
  <2>1. CASE CallFunction
    BY <1>3, <2>1 DEF CallFunction
  <2>2. CASE FunctionDone
    BY <2>2 DEF FunctionDone, NoInterrupt, Raised
  <2> QED
    BY <1>9, <2>1, <2>2
<1>10. CASE run_subshell \/ SubshellDone \/ run_if_clause \/ IfDone
  BY <1>3, <1>10 DEF run_subshell, SubshellDone, run_if_clause, IfDone
<1>11. CASE run_word_command \/ WordCommandDone
  BY <1>2, <1>3, <1>11 DEF run_word_command, WordCommandDone
<1>12. CASE EnterLoop \/ ForWords \/ LoopHead \/ LoopCondition \/ LoopBody
  BY <1>3, <1>12 DEF EnterLoop, ForWords, LoopHead, LoopCondition, LoopBody
<1>13. CASE LoopInterrupt
  <2>1. absorbed' = absorbed /\ (intr' = intr \/ intr' = NoInterrupt)
    BY <1>13 DEF LoopInterrupt, Keep
  <2> QED
    BY <2>1 DEF NoInterrupt, Raised
<1>14. CASE UNCHANGED vars \/ Terminated
  BY <1>14 DEF vars, Terminated
<1> QED
  BY <1>4, <1>5, <1>6, <1>7, <1>8, <1>9, <1>10, <1>11, <1>12, <1>13, <1>14 DEF Next

(* Only the four builtins raise one, and they return it. *)
LEMMA Raising ==
    ASSUME IInv, ~absorbed', [Next]_vars, intr'.kind # "none"
    PROVE  intr' = intr \/ Unwinding'
<1>1. \A r : ~Drop(r)
  BY DEF Drop, NoInterrupt
<1>2. Keep => intr' = intr
  BY DEF Keep
<1>3. CASE ListItemDone \/ AndOr \/ AndOrDone
  BY <1>1, <1>2, <1>3 DEF ListItemDone, AndOr, AndOrDone
<1>4. CASE Pipeline \/ PipelineStageDone \/ PipelineFails
  BY <1>1, <1>2, <1>4 DEF Pipeline, PipelineStageDone, PipelineFails
<1>5. CASE RunProcess \/ SimpleFails \/ RunGroup \/ DotFails
  BY <1>2, <1>5 DEF RunProcess, SimpleFails, RunGroup, DotFails
<1>6. CASE builtin_break \/ builtin_return \/ builtin_exit
  BY <1>6 DEF builtin_break, builtin_return, builtin_exit, Finish, Unwinding
<1>7. CASE CallFunction \/ FunctionDone
  BY <1>2, <1>7 DEF CallFunction, FunctionDone, NoInterrupt
<1>8. CASE run_subshell \/ SubshellDone \/ run_if_clause \/ IfDone
  BY <1>2, <1>8 DEF run_subshell, SubshellDone, run_if_clause, IfDone
<1>9. CASE run_word_command \/ WordCommandDone
  BY <1>1, <1>2, <1>9 DEF run_word_command, WordCommandDone
<1>10. CASE EnterLoop \/ ForWords \/ LoopHead \/ LoopCondition \/ LoopBody
  BY <1>2, <1>10 DEF EnterLoop, ForWords, LoopHead, LoopCondition, LoopBody
<1>11. CASE LoopInterrupt
  BY <1>2, <1>11 DEF LoopInterrupt, NoInterrupt
<1>12. CASE UNCHANGED vars \/ Terminated
  BY <1>12 DEF vars, Terminated
<1> QED
  BY <1>3, <1>4, <1>5, <1>6, <1>7, <1>8, <1>9, <1>10, <1>11, <1>12 DEF Next

(* Between a break, continue, return or exit, of any number of loops, and  *)
(* the loop or function that takes it no command is run, whatever lists,   *)
(* clauses, subshells, negations and loops it passes.                      *)
THEOREM InterruptsPassOn == Spec => []NothingRunsBetween
<1>1. Init => NothingRunsBetween
  BY DEF Init, NothingRunsBetween, NoInterrupt
<1>2. IInv /\ NothingRunsBetween /\ [Next]_vars => NothingRunsBetween'
  <2> SUFFICES ASSUME IInv, NothingRunsBetween, [Next]_vars, ~absorbed', intr'.kind # "none"
               PROVE  Unwinding'
    BY DEF NothingRunsBetween, Unwinding
  <2>1. CASE intr' = intr
    <3>1. Unwinding
      BY <2>1, Histories DEF NothingRunsBetween, Unwinding
    <3>2. CASE PassedOn \/ FunctionDone
      BY <3>1, <3>2 DEF PassedOn, FunctionDone, Return, Unwinding
    <3>3. CASE LoopInterrupt
      <4>1. LeaveLoop(TASK_STATUS_INTERRUPTED)
        BY <3>3 DEF LoopInterrupt, NoInterrupt
      <4> QED
        BY <4>1 DEF LeaveLoop, Return, Unwinding
    <3>4. CASE UNCHANGED vars
      BY <3>1, <3>4 DEF vars, Unwinding
    <3> QED
      BY <3>1, <3>2, <3>3, <3>4, Ways
  <2> QED
    BY <2>1, Raising
<1> QED
  BY <1>1, <1>2, InitIInv, NextIInv, PTL DEF Spec

-----------------------------------------------------------------------------
(* Where a break or a continue is on its way to.  The loop it names is     *)
(* open, of the current call frame and the innermost one there, and nloops *)
(* still counts it.  With `break 1` only: `break 2` takes the inner loop   *)
(* off nloops, the inner loop does so again when it leaves, and the outer  *)
(* one no longer finds itself counted.                                     *)
Heads(s, fr, t) ==
    /\ t \in 1..Len(s) /\ s[t].fn \in Loops /\ s[t].frame = Len(fr)
    /\ s[t].num <= fr[Len(fr)].nloops
    /\ \A i \in 1..Len(s) : s[i].fn \in Loops /\ s[i].frame = Len(fr) => i <= t

OnItsWay ==
    ~absorbed /\ Raised =>
        /\ Unwinding /\ frames[Len(frames)].branch = intr.kind
        /\ intr.target > 0 => Heads(stack, frames, intr.target)

(* The loop that `break 1` means is the innermost of its call frame. *)
LEMMA InnermostTarget ==
    ASSUME IInv, NEW t \in 0..Len(stack), IsLoopTarget(t, 1), t > 0
    PROVE  t \in FrameLoops /\ \A i \in FrameLoops : i <= t
<1>1. Len(stack) \in Nat
  BY DEF IInv, TypeOK
<1>2. FrameLoops \in SUBSET (1..Len(stack)) /\ IsFiniteSet(1..Len(stack))
  BY <1>1, FS_Interval DEF FrameLoops
<1>3. IsFiniteSet(FrameLoops)
  BY <1>2, FS_Subset
<1> DEFINE above == {j \in FrameLoops : j > t}
           c == Cardinality(FrameLoops)
<1>4. IsFiniteSet(above)
  BY <1>3, FS_Subset
<1>5. c \in Nat
  BY <1>3, FS_CardinalityType
<1>6. t \in FrameLoops /\ Cardinality(above) = Min(1, c) - 1 /\ Min(1, c) # 0
  BY DEF IsLoopTarget
<1> HIDE DEF c
<1>7. Cardinality(above) = 0
  BY <1>5, <1>6 DEF Min
<1>8. above = {}
  <2> HIDE DEF above
  <2> QED
    BY <1>4, <1>7, FS_EmptySet
<1>9. ASSUME NEW i \in FrameLoops PROVE i <= t
  <2>1. i \in Int /\ t \in Int
    BY <1>1, <1>2
  <2>2. ~(i > t)
    BY <1>8
  <2> QED
    BY <2>1, <2>2
<1> QED
  BY <1>6, <1>9

(* `break 1` heads for the innermost loop, which nloops counts. *)
LEMMA BreakOnItsWay ==
    ASSUME BreakArgs \subseteq {1}, IInv, LInv, ~absorbed, builtin_break
    PROVE  OnItsWay'
<1> DEFINE l == Len(frames)
<1>1. PICK n \in BreakArgs, b \in {"break", "continue"} :
        /\ SetFrame([nloops |-> LoopsLeft(n), branch |-> b])
        /\ \E t \in 0..Len(stack) : IsLoopTarget(t, n) /\ intr' = [kind |-> b, target |-> t]
  BY DEF builtin_break
<1>2. n = 1
  OBVIOUS
<1>3. PICK t \in 0..Len(stack) : IsLoopTarget(t, 1) /\ intr' = [kind |-> b, target |-> t]
  BY <1>1, <1>2
<1>4. /\ stack \in Seq(Activation) /\ frames \in Seq(CallFrame) /\ l \in Nat \ {0}
      /\ Frame \in CallFrame /\ Frame = frames[l]
  BY FrameExists DEF IInv, TypeOK, Frame
<1>5. Frame.nloops \in Int
  BY <1>4 DEF CallFrame
<1>6. [nloops |-> LoopsLeft(1), branch |-> b] \in CallFrame
  <2>1. LoopsLeft(1) \in Int
    BY <1>5 DEF LoopsLeft, Min
  <2> QED
    BY <2>1 DEF CallFrame, Branches
<1>7. Len(frames') = l /\ frames'[l] = [nloops |-> LoopsLeft(1), branch |-> b]
  BY <1>1, <1>2, <1>6, FrameSet
<1>8. stack' = stack /\ Unwinding' /\ ~Unwinding
  BY DEF builtin_break, Finish, Unwinding, InSimple, InCommand
<1>9. intr'.kind = b /\ intr'.target = t /\ frames'[l].branch = b
  BY <1>3, <1>7
<1>10. ASSUME t > 0 PROVE Heads(stack, frames', t)
  <2>1. t \in FrameLoops /\ \A i \in FrameLoops : i <= t
    BY <1>3, <1>10, InnermostTarget
  <2>2. /\ t \in 1..Len(stack) /\ stack[t].fn \in Loops /\ stack[t].frame = l
        /\ \A i \in 1..Len(stack) : stack[i].fn \in Loops /\ stack[i].frame = l => i <= t
    BY <2>1 DEF FrameLoops
  <2>3. LoopsOK(stack, frames, Unwinding)
    BY DEF LInv
  <2>4. stack[t].num >= 1 /\ stack[t].num <= Frame.nloops
    <3>1. stack[t].num >= 1
      BY <2>2, <2>3 DEF LoopsOK, Ordered
    <3>2. stack[t].num <= frames[l].nloops
      BY <1>8, <2>2, <2>3 DEF LoopsOK, Counted
    <3> QED
      BY <1>4, <3>1, <3>2
  <2>5. stack[t].num \in Int
    <3>1. stack[t] \in Activation
      BY <1>4, <2>2
    <3> QED
      BY <3>1 DEF Activation
  <2>6. LoopsLeft(1) = Frame.nloops
    BY <1>5, <2>4, <2>5 DEF LoopsLeft, Min
  <2>7. stack[t].num <= frames'[l].nloops
    BY <1>7, <2>4, <2>6
  <2> QED
    BY <1>7, <2>2, <2>7 DEF Heads
<1> QED
  BY <1>7, <1>8, <1>9, <1>10 DEF OnItsWay

(* The loop that looks at the interruption is the one it heads for. *)
LEMMA HeadsForTop ==
    ASSUME IInv, InLoop, intr.target > 0, Heads(stack, frames, intr.target)
    PROVE  /\ intr.target = Len(stack) /\ Frame.nloops >= TopAct.num
           /\ TopAct = stack[intr.target] /\ TopAct.frame = Len(frames)
<1> DEFINE t == intr.target
           n == Len(stack)
           l == Len(frames)
<1>1. /\ TopAct.fn \in Loops /\ TopAct.frame = l /\ stack[n] = TopAct /\ Frame = frames[l]
      /\ TopAct.num \in Int /\ Frame.nloops \in Int
  BY LoopFrame
<1>2. n \in Nat \ {0} /\ n \in 1..n
  BY LoopFrame, CallersAre
<1>3. /\ t \in 1..n /\ stack[t].num <= frames[l].nloops
      /\ \A i \in 1..n : stack[i].fn \in Loops /\ stack[i].frame = l => i <= t
  BY DEF Heads
<1> HIDE DEF t, n, l
<1>4. n <= t
  BY <1>1, <1>2, <1>3
<1>5. t = n
  BY <1>2, <1>3, <1>4
<1>6. TopAct.num <= Frame.nloops
  BY <1>1, <1>3, <1>5
<1> QED
  BY <1>1, <1>5, <1>6 DEF t, n, l

(* It heads for that loop until the loop takes it. *)
LEMMA NextOnItsWay ==
    ASSUME BreakArgs \subseteq {1}
    PROVE  IInv /\ LInv /\ OnItsWay /\ [Next]_vars => OnItsWay'
<1> SUFFICES ASSUME IInv, LInv, OnItsWay, [Next]_vars, ~absorbed', Raised'
             PROVE  OnItsWay'
  BY DEF OnItsWay
<1>1. ~absorbed
  BY Histories
<1>2. CASE builtin_break
  BY <1>1, <1>2, BreakOnItsWay
<1>3. CASE ~builtin_break
  <2>1. intr' = intr /\ Raised
    BY <1>3, Histories DEF Raised
  <2>2. /\ Unwinding /\ frames[Len(frames)].branch = intr.kind
        /\ intr.target > 0 => Heads(stack, frames, intr.target)
    BY <1>1, <2>1 DEF OnItsWay
  <2>3. intr.target \in Nat
    BY DEF IInv, TypeOK, Interrupts
  <2>4. CASE PassedOn
    <3> DEFINE t == intr.target
               n == Len(stack)
    <3>1. stack # <<>> /\ TopAct.fn \notin Loops /\ stack' = Callers /\ frames' = frames /\ Unwinding'
      BY <2>2, <2>4 DEF PassedOn, Return, Unwinding
    <3>2. n \in Nat \ {0} /\ Len(Callers) = n - 1 /\ \A i \in 1..(n - 1) : Callers[i] = stack[i]
      BY <3>1, CallersAre
    <3>3. ASSUME t > 0 PROVE Heads(Callers, frames, t)
      <4>1. /\ t \in 1..n /\ stack[t].fn \in Loops /\ stack[t].frame = Len(frames)
            /\ stack[t].num <= frames[Len(frames)].nloops
            /\ \A i \in 1..n : stack[i].fn \in Loops /\ stack[i].frame = Len(frames) => i <= t
        BY <2>2, <3>3 DEF Heads
      <4>2. t # n
        BY <3>1, <4>1 DEF TopAct
      <4> HIDE DEF t, n
      <4>3. t \in 1..(n - 1) /\ Callers[t] = stack[t] /\ \A i \in 1..(n - 1) : i \in 1..n
        BY <3>2, <4>1, <4>2
      <4> QED
        BY <3>2, <4>1, <4>3 DEF Heads
    <3> QED
      BY <2>1, <2>2, <3>1, <3>3 DEF OnItsWay
  <2>5. ~FunctionDone
    BY <2>1 DEF FunctionDone, NoInterrupt, Raised
  <2>6. CASE LoopInterrupt
    <3>1. InLoop /\ intr' # NoInterrupt
      BY <2>1, <2>6 DEF LoopInterrupt, NoInterrupt, Raised
    <3>2. Frame.nloops < TopAct.num /\ LeaveLoop(TASK_STATUS_INTERRUPTED)
      BY <2>6, <3>1 DEF LoopInterrupt
    <3>3. ~(intr.target > 0)
      BY <2>2, <3>1, <3>2, HeadsForTop, LoopFrame
    <3>4. SetFrame([Frame EXCEPT !.nloops = @ - 1]) /\ Unwinding'
      BY <3>2 DEF LeaveLoop, Return, Unwinding
    <3>5. /\ [Frame EXCEPT !.nloops = @ - 1] \in CallFrame
          /\ [Frame EXCEPT !.nloops = @ - 1].branch = Frame.branch
      <4>1. Frame \in CallFrame
        BY FrameExists
      <4> QED
        BY <4>1 DEF CallFrame
    <3>6. Len(frames') = Len(frames) /\ frames'[Len(frames)].branch = Frame.branch
      BY <3>4, <3>5, FrameSet
    <3> QED
      BY <2>1, <2>2, <3>3, <3>4, <3>6 DEF OnItsWay, Frame
  <2>7. CASE UNCHANGED vars
    BY <2>1, <2>2, <2>7 DEF vars, OnItsWay, Unwinding
  <2> QED
    BY <2>2, <2>4, <2>5, <2>6, <2>7, Ways
<1> QED
  BY <1>2, <1>3

(* Nothing is raised at the start. *)
LEMMA InitOnItsWay == Init => OnItsWay
BY DEF Init, OnItsWay, NoInterrupt, Raised

(* A `break` or `continue` of one loop reaches its loop, the innermost of  *)
(* its call frame: run_loop_clause's comparison of nloops with its         *)
(* loop_num succeeds in that loop and in no other, whatever lists,         *)
(* clauses, subshells and pipelines lie between.                           *)
THEOREM InterruptsReachTarget ==
    ASSUME BreakArgs \subseteq {1}
    PROVE  Spec => []InterruptReachesTarget
<1>1. IInv /\ OnItsWay => InterruptReachesTarget
  <2> SUFFICES ASSUME IInv, OnItsWay, ~absorbed, InLoop, Raised, intr.target > 0
               PROVE  Frame.nloops >= TopAct.num /\ Len(stack) = intr.target
    BY DEF InterruptReachesTarget, Raised
  <2> QED
    BY HeadsForTop DEF OnItsWay
<1>2. IInv /\ LInv /\ OnItsWay /\ [Next]_vars => OnItsWay'
  BY NextOnItsWay
<1> QED
  BY <1>1, <1>2, InitIInv, NextIInv, InitLInv, NextLInv, InitOnItsWay, PTL DEF Spec

(* What happens when an interruption that was not dropped is taken. *)
LEMMA Taken ==
    ASSUME IInv, LInv, OnItsWay, [Next]_vars, Raised, intr.target > 0,
           intr' = NoInterrupt, ~absorbed'
    PROVE  /\ LoopInterrupt /\ InLoop /\ Heads(stack, frames, intr.target)
           /\ Frame.branch = intr.kind
<1>1. ~absorbed
  BY Histories
<1>2. /\ Unwinding /\ frames[Len(frames)].branch = intr.kind
      /\ Heads(stack, frames, intr.target)
  BY <1>1 DEF OnItsWay
<1>3. intr' # intr
  BY DEF NoInterrupt, Raised
<1>4. ~PassedOn /\ ~UNCHANGED vars
  BY <1>3 DEF PassedOn, vars
<1>5. ~FunctionDone
  <2> SUFFICES ASSUME FunctionDone PROVE FALSE
    OBVIOUS
  <2> DEFINE t == intr.target
             n == Len(stack)
  <2>1. stack # <<>> /\ TopAct.fn = "func" /\ TopAct = stack[n]
    BY DEF FunctionDone, Returned, TopAct
  <2>2. Len(frames) = TopAct.frame + 1 /\ TopAct.frame \in Nat
    BY <2>1, Top DEF BodyFrame
  <2>3. n \in Nat \ {0}
    BY <2>1, CallersAre
  <2>4. t \in 1..n /\ stack[t].fn \in Loops /\ stack[t].frame = Len(frames)
    BY <1>2 DEF Heads
  <2>5. t # n /\ BodyFrame(stack[t]) = stack[t].frame
    BY <2>1, <2>4 DEF Loops, BodyFrame
  <2>6. Nested(stack)
    BY <1>1 DEF LInv, LoopsOK
  <2> HIDE DEF t, n
  <2>7. t \in 1..(n - 1) /\ n \in 1..n
    BY <2>3, <2>4, <2>5
  <2>8. BodyFrame(stack[t]) <= stack[n].frame
    BY <2>6, <2>7 DEF Nested, n
  <2> QED
    BY <2>1, <2>2, <2>4, <2>5, <2>8
<1>6. LoopInterrupt
  BY <1>2, <1>4, <1>5, Ways
<1> QED
  BY <1>2, <1>6 DEF LoopInterrupt, Frame

(* break and continue unwind to their loop: when one that nothing dropped  *)
(* ends, every activation above its loop is gone, the call frame is the    *)
(* loop's, after a break the loop has returned 0 and after a continue it   *)
(* stands at its head with the words it had left (run_loop_clause and      *)
(* run_for_clause, label interrupt).                                       *)
THEOREM BreaksUnwind ==
    ASSUME BreakArgs \subseteq {1}
    PROVE  Spec => BreakUnwinds
<1> DEFINE Unwinds ==
        /\ intr.kind \in {"break", "continue"} /\ intr.target > 0
        /\ intr' = NoInterrupt /\ ~absorbed'
        /\ intr.kind = "continue" => stack[intr.target].phase = "body"
        => /\ Len(frames') = stack[intr.target].frame
           /\ IF intr.kind = "break"
              THEN Len(stack') = intr.target - 1 /\ ret' = 0
              ELSE /\ Len(stack') = intr.target
                   /\ stack'[intr.target].phase = "top"
                   /\ stack'[intr.target].left = stack[intr.target].left
<1>1. IInv /\ LInv /\ OnItsWay /\ [Next]_vars => [Unwinds]_vars
  <2> SUFFICES ASSUME IInv, LInv, OnItsWay, [Next]_vars, Raised, intr.target > 0,
                      intr' = NoInterrupt, ~absorbed',
                      intr.kind = "continue" => stack[intr.target].phase = "body"
               PROVE  /\ Len(frames') = stack[intr.target].frame
                      /\ intr.kind = "break" =>
                           Len(stack') = intr.target - 1 /\ ret' = 0
                      /\ intr.kind = "continue" =>
                           /\ Len(stack') = intr.target
                           /\ stack'[intr.target].phase = "top"
                           /\ stack'[intr.target].left = stack[intr.target].left
    BY DEF Raised
  <2>1. LoopInterrupt /\ InLoop /\ Frame.branch = intr.kind
    BY Taken
  <2>2. /\ intr.target = Len(stack) /\ Frame.nloops >= TopAct.num
        /\ TopAct = stack[intr.target] /\ TopAct.frame = Len(frames)
    BY Taken, HeadsForTop
  <2>3. ~(Frame.nloops < TopAct.num)
    BY <2>1, <2>2, LoopFrame
  <2>4. /\ Callers \in Seq(Activation) /\ Len(stack) \in Nat \ {0}
        /\ Len(Callers) = Len(stack) - 1
    BY <2>1, LoopFrame, CallersAre
  <2>5. CASE intr.kind = "break"
    <3>1. LeaveLoop(0)
      BY <2>1, <2>3, <2>5 DEF LoopInterrupt, Continues
    <3>2. stack' = Callers /\ ret' = 0
      BY <3>1 DEF LeaveLoop, Return
    <3>3. Len(frames') = Len(frames)
      <4>1. [Frame EXCEPT !.nloops = @ - 1] \in CallFrame
        <5>1. Frame \in CallFrame
          BY FrameExists
        <5> QED
          BY <5>1 DEF CallFrame
      <4> QED
        BY <3>1, <4>1, FrameSet DEF LeaveLoop
    <3> QED
      BY <2>2, <2>4, <2>5, <3>2, <3>3
  <2>6. CASE intr.kind = "continue"
    <3> DEFINE a == [TopAct EXCEPT !.val = ret, !.phase = "top"]
    <3>1. TopAct.phase = "body"
      BY <2>2, <2>6
    <3>2. GoOn(a, "run") /\ frames' = frames
      BY <2>1, <2>3, <2>6, <3>1 DEF LoopInterrupt, Continues
    <3>3. a.phase = "top" /\ a.left = TopAct.left
      <4>1. TopAct \in Activation
        BY <2>1, LoopFrame
      <4> QED
        BY <4>1 DEF Activation
    <3>4. stack' = Append(Callers, a)
      BY <3>2 DEF GoOn
    <3> HIDE DEF a
    <3>5. Len(stack') = Len(stack) /\ stack'[Len(stack)] = a
      BY <2>4, <3>4
    <3> QED
      BY <2>2, <2>6, <3>2, <3>3, <3>5
  <2> QED
    BY <2>5, <2>6 DEF Raised
<1>2. Spec => [][Unwinds]_vars
  <2>1. IInv /\ LInv /\ OnItsWay /\ [Next]_vars => OnItsWay'
    BY NextOnItsWay
  <2> HIDE DEF Unwinds
  <2> QED
    BY <1>1, <2>1, InitIInv, NextIInv, InitLInv, NextLInv, InitOnItsWay, PTL DEF Spec
<1> QED
  BY <1>2 DEF BreakUnwinds
=============================================================================
