------------------------------ MODULE WshFrame ------------------------------
(***************************************************************************)
(* Call frames and the argv arrays of their positional parameters: a       *)
(* function call duplicates its words (shell.c push_frame), pop_frame      *)
(* frees them, set replaces them (set.c) and shift moves and frees entries *)
(* in place (shift.c).  Strings are heap blocks, so that the model tells a *)
(* live one from a freed one.                                              *)
(***************************************************************************)
EXTENDS Integers, Sequences, FiniteSets

CONSTANTS
    Words,        \* what an operand may be
    Heap,         \* blocks of memory
    MaxOperands,  \* bound: operands of a call and of set
    MaxDepth,     \* bound: call frames
    ShiftNumbers, \* the operands of shift
    ShiftMiddle   \* may a script shift by n when 1 < n < $#?

ASSUME HeapAssumption == IsFiniteSet(Heap)
ASSUME WordsAssumption == Words \cap {"freed", "name", "leaked"} = {}
ASSUME BoundsAssumption == MaxOperands \in Nat /\ MaxDepth \in Nat \ {0}
ASSUME ShiftAssumption == ShiftNumbers \subseteq Int /\ ShiftMiddle \in BOOLEAN

VARIABLES
    frames,    \* argv of the script's own frame, ..., of state->frame
    heap,      \* heap[p]: the string in block p, or Freed
    operands,  \* history: the words the last call or set was given
    number,    \* history: the number the last shift was given
    exit       \* state->exit

vars == <<frames, heap, operands, number, exit>>

Freed == "freed"
Name == "name"     \* the string of argv[0]
Leaked == "leaked" \* a string no frame owns any more

(* argv[i] of the code is argv[i + 1] here, argc its length.  Entries from *)
(* argc on are read only by the assertion of getopt.c that argv[argc] is   *)
(* NULL, which does not hold after a shift and is compiled out (NDEBUG).   *)
(* The script's own frame has no argv.                                     *)
Depth == Len(frames)
Frame == frames[Depth]
argc == Len(Frame)
Owned(argv) == {argv[x] : x \in 1..Len(argv)}

-----------------------------------------------------------------------------
(* malloc and free.  Any blocks will do: which free one malloc takes shows *)
(* only to a pointer that was left on it.                                  *)

Unused(h) == {p \in Heap : h[p] = Freed}
Distinct(ps) == \A i, j \in DOMAIN ps : i # j => ps[i] # ps[j]
Malloc(h, k) == CHOOSE ps \in [1..k -> Unused(h)] : Distinct(ps)
HasRoom(h, k) == Cardinality(Unused(h)) >= k

Stored(h, ps, strings) ==
    [p \in Heap |-> IF \E i \in DOMAIN ps : ps[i] = p
                    THEN strings[CHOOSE i \in DOMAIN ps : ps[i] = p] ELSE h[p]]
Leak(h, ps) == [p \in Heap |-> IF p \in ps THEN Leaked ELSE h[p]]
Free(h, ps) == [p \in Heap |-> IF p \in ps THEN Freed ELSE h[p]]

-----------------------------------------------------------------------------
Operands == UNION {[1..k -> Words] : k \in 0..MaxOperands}

(* run_simple_command finds a function: its words, argv[0] included, are   *)
(* duplicated into the new frame.                                          *)
push_frame(ws) ==
    /\ HasRoom(heap, Len(ws) + 1)
    /\ LET ps == Malloc(heap, Len(ws) + 1)
       IN  /\ heap' = Stored(heap, ps, <<Name>> \o ws)
           /\ frames' = Append(frames, ps)

CallFunction ==
    /\ Depth < MaxDepth
    /\ \E ws \in Operands : push_frame(ws) /\ operands' = ws
    /\ number' = 0
    /\ UNCHANGED exit

(* call_frame_destroy frees argc entries.  The frame goes on every path.   *)
pop_frame ==
    /\ Depth > 1
    /\ heap' = Free(heap, Owned(Frame))
    /\ frames' = SubSeq(frames, 1, Depth - 1)
    /\ operands' = <<>> /\ number' = 0
    /\ UNCHANGED exit

(* set -- words.  argv[0] is duplicated before the old array is freed.     *)
(* In the script's own frame, which has no argv, it is a usage error.      *)
builtin_set ==
    /\ Frame # <<>> /\ HasRoom(heap, 1)
    /\ LET argv_0 == Malloc(heap, 1)
           freed == Free(Stored(heap, argv_0, <<heap[Frame[1]]>>), Owned(Frame))
       IN  \E ws \in Operands :
              /\ HasRoom(freed, Len(ws))
              /\ LET ps == Malloc(freed, Len(ws))
                 IN  /\ heap' = Stored(freed, ps, ws)
                     /\ frames' = [frames EXCEPT ![Depth] = argv_0 \o ps]
              /\ operands' = ws
    /\ number' = 0
    /\ UNCHANGED exit

-----------------------------------------------------------------------------
(* shift n.  Turn i of the loop, i from 1, looks at j = n + i < argc: the  *)
(* entry moves to the front if j <= argc - n, and otherwise entry i is     *)
(* freed, whatever is in it by then.                                       *)

Turns(n) == 1..(argc - n - 1)
Moves_below(n, i) == n + i < argc - n    \* mutant
Moves(n, i) == n + i <= argc - n

Remaining_one(n) == argc - 1    \* mutant
Remaining(n) == argc - n

Shifted(n) ==
    [x \in 1..Remaining(n) |->
        IF x - 1 \in Turns(n) /\ Moves(n, x - 1) THEN Frame[x + n] ELSE Frame[x]]
Dropped(n) == {Frame[i + 1] : i \in {i \in Turns(n) : ~Moves(n, i)}}

builtin_shift ==
    /\ \E n \in ShiftNumbers :
          /\ n > 0 /\ n <= argc - 1
          /\ 1 < n /\ n < argc - 1 => ShiftMiddle
          /\ frames' = [frames EXCEPT ![Depth] = Shifted(n)]
          /\ heap' = Free(Leak(heap, Owned(Frame) \ Owned(Shifted(n))), Dropped(n))
          /\ number' = n
    /\ operands' = <<>>
    /\ UNCHANGED exit

(* A negative number, and one that is too large: the script is to end, but *)
(* state->exit is looked at only between the lines of the script, and the  *)
(* commands that follow in this one still run.                             *)
BadShift(n) == n < 0 \/ (n > 0 /\ n > argc - 1)

ShiftFails ==
    /\ \E n \in ShiftNumbers : BadShift(n) /\ number' = n
    /\ exit' = 1 /\ operands' = <<>>
    /\ UNCHANGED <<frames, heap>>

-----------------------------------------------------------------------------
Init ==
    /\ frames = <<<<>>>>
    /\ heap = [p \in Heap |-> Freed]
    /\ operands = <<>> /\ number = 0
    /\ exit = -1

Next == CallFunction \/ pop_frame \/ builtin_set \/ builtin_shift \/ ShiftFails

Spec == Init /\ [][Next]_vars

-----------------------------------------------------------------------------
(* Properties *)

(* Every variable keeps its type, and the script's own frame stays. *)
TypeOK ==
    /\ frames \in Seq(Seq(Heap)) /\ Depth >= 1
    /\ heap \in [Heap -> Words \cup {Name, Leaked, Freed}]
    /\ operands \in Seq(Words) /\ number \in ShiftNumbers \cup {0}
    /\ exit \in {-1, 1}

(* Every entry of every frame is a live string, and no two entries share   *)
(* one: shift and set may move and free them, but call_frame_destroy frees *)
(* each string once, and $1 never reads freed memory.                      *)
LiveArgs ==
    \A k, l \in 1..Depth :
        \A x \in 1..Len(frames[k]), y \in 1..Len(frames[l]) :
            /\ heap[frames[k][x]] \notin {Freed, Leaked}
            /\ (k # l \/ x # y) => frames[k][x] # frames[l][y]

(* The value of $i is argv[i] for 0 < i < argc. *)
Params(argv) == IF argv = <<>> THEN <<>>
                ELSE [i \in 1..(Len(argv) - 1) |-> heap[argv[i + 1]]]

Abstract == INSTANCE Positional
    WITH params <- [k \in 1..Depth |-> Params(frames[k])]

(* The arrays implement the positional parameters: after any sequence of   *)
(* calls, returns, set and shift, $1, $2, ... of the function and of its   *)
(* callers are what they should be.                                        *)
PositionalParameters == Abstract!Spec
=============================================================================
