----------------------------- MODULE WshGetopts -----------------------------
(***************************************************************************)
(* `while getopts optstring name` over the positional parameters           *)
(* (builtin/getopts.c and getopt.c), on top of WshFrame, which provides    *)
(* the argv it scans.  OPTIND is the shell variable, optpos the global     *)
(* _mrsh_optpos; both survive from one call of getopts to the next.        *)
(***************************************************************************)
EXTENDS WshFrame

CONSTANTS
    Letters,      \* Letters[w]: the letters behind the - of word w, <<>> if none
    EndsOptions,  \* the words that begin with --
    Takes,        \* Takes[l]: does letter l of optstring take an argument?
    Clusters,     \* may a word hold several options?
    GoesOn        \* does the loop go on after an error?

MaxLetters == 10  \* bound: the letters of a word

ASSUME LettersAssumption ==
    /\ DOMAIN Letters = Words /\ EndsOptions \subseteq Words
    /\ \A w \in Words : Letters[w] \in Seq(STRING) /\ Len(Letters[w]) <= MaxLetters
    /\ \A l \in DOMAIN Takes : Takes[l] \in BOOLEAN
ASSUME OptionsAssumption == Clusters \in BOOLEAN /\ GoesOn \in BOOLEAN

VARIABLES
    OPTIND,
    optpos,
    silent,    \* does the loop's optstring begin with a colon?
    loop,      \* is the loop running?
    scanned    \* history: option and OPTARG of every turn of the loop

gvars == <<OPTIND, optpos, silent, loop, scanned>>

NoArg == <<>>
Word(i) == heap[Frame[i + 1]]
IsOption(w) == w \notin EndsOptions /\ Letters[w] # <<>>
Rest(w, p) == SubSeq(Letters[w], p + 1, Len(Letters[w]))

-----------------------------------------------------------------------------
(* What the loop should meet: at letter p of parameter i, option by option,*)
(* each with its argument, the rest of the word or else the next one, up   *)
(* to the first error; quiet: a leading colon in optstring asks for errors *)
(* to be told with a colon.  from is what it should meet at the later      *)
(* places.                                                                 *)
Meets(ws, quiet, from, i, p) ==
    LET l == Letters[ws[i]][p]
        last == p = Len(Letters[ws[i]])
    IN  IF i \notin DOMAIN ws THEN <<>>
        ELSE IF ~IsOption(ws[i]) \/ p \notin DOMAIN Letters[ws[i]] THEN <<>>
        ELSE IF l \notin DOMAIN Takes THEN <<<<"?", NoArg>>>>
        ELSE IF ~Takes[l]
             THEN <<<<l, NoArg>>>> \o from[IF last THEN <<i + 1, 1>> ELSE <<i, p + 1>>]
        ELSE IF ~last
             THEN <<<<l, <<"rest", Rest(ws[i], p)>>>>>> \o from[<<i + 1, 1>>]
        ELSE IF i < Len(ws)
             THEN <<<<l, <<"word", ws[i + 1]>>>>>> \o from[<<i + 2, 1>>]
        ELSE IF quiet THEN <<<<":", <<"option", l>>>>>>
        ELSE <<<<"?", NoArg>>>>

Reference(ws, quiet) ==
    LET from[ip \in Nat \X Nat] == Meets(ws, quiet, from, ip[1], ip[2])
    IN  from[<<1, 1>>]

(* No word has a second option behind a first one. *)
OnePerWord(ws) ==
    \A i \in DOMAIN ws :
        LET l == Letters[ws[i]]
        IN  Len(l) > 1 /\ l[1] \in DOMAIN Takes => Takes[l[1]]

-----------------------------------------------------------------------------
(* OPTIND=1; while getopts ... *)
StartLoop ==
    /\ ~loop
    /\ OnePerWord(Params(Frame)) \/ Clusters
    /\ silent' \in BOOLEAN
    /\ OPTIND' = 1 /\ loop' = TRUE /\ scanned' = <<>>
    /\ UNCHANGED <<vars, optpos>>

(* builtin_getopts first scans its own words, which sets _mrsh_optind to 0 *)
(* and thereby _mrsh_optpos to 1.                                          *)
Pos == 1

(* _mrsh_getopt: no more options.  A -- is skipped. *)
EndOfOptions ==
    OPTIND >= argc \/ (OPTIND < argc /\ ~IsOption(Word(OPTIND)))
NextIndex_always == OPTIND + 1    \* mutant
NextIndex == IF OPTIND < argc
             THEN IF Word(OPTIND) \in EndsOptions THEN OPTIND + 1 ELSE OPTIND
             ELSE OPTIND

GetoptsEnd ==
    /\ loop /\ EndOfOptions
    /\ loop' = FALSE /\ OPTIND' = NextIndex /\ optpos' = Pos
    /\ UNCHANGED <<vars, silent, scanned>>

(* An option without an argument: the index moves on behind the last       *)
(* letter of the word.                                                     *)
AfterFlag_stays == [ind |-> OPTIND, pos |-> Pos + 1]    \* mutant
AfterFlag ==
    IF Rest(Word(OPTIND), Pos) = <<>>
    THEN [ind |-> OPTIND + 1, pos |-> 1]
    ELSE [ind |-> OPTIND, pos |-> Pos + 1]

(* Behind an argument: the rest of the word, or the next word. *)
AfterArgument_sameWord == OPTIND + 1    \* mutant
AfterArgument == IF Rest(Word(OPTIND), Pos) = <<>> THEN OPTIND + 2 ELSE OPTIND + 1

(* The history stops growing behind more options than the operands hold.   *)
MaxScanned == MaxOperands * MaxLetters + 1
Returns(opt, optarg) ==
    scanned' = IF Len(scanned) < MaxScanned THEN Append(scanned, <<opt, optarg>>) ELSE scanned

GetoptsOption ==
    /\ loop /\ ~EndOfOptions
    /\ LET w == Word(OPTIND)
           l == Letters[w][Pos]
       IN  \/ /\ l \in DOMAIN Takes /\ ~Takes[l]
              /\ Returns(l, NoArg)
              /\ OPTIND' = AfterFlag.ind /\ optpos' = AfterFlag.pos
           \/ /\ l \in DOMAIN Takes /\ Takes[l]
              /\ Rest(w, Pos) # <<>> \/ OPTIND + 2 <= argc
              /\ Returns(l, IF Rest(w, Pos) # <<>> THEN <<"rest", Rest(w, Pos)>>
                            ELSE <<"word", Word(OPTIND + 1)>>)
              /\ OPTIND' = AfterArgument /\ optpos' = Pos
    /\ UNCHANGED <<vars, silent, loop>>

(* An unknown option, and one whose argument is missing: the index stays.  *)
(* With a leading colon in optstring the second is told with a colon, and  *)
(* the option in OPTARG; the first leaves OPTARG unset even then, for only *)
(* the second sets _mrsh_optopt.  The script gives up, or goes on.         *)
MissingOption == IF silent THEN ":" ELSE "?"
MissingOptarg(l) == IF silent THEN <<"option", l>> ELSE NoArg
GetoptsError ==
    /\ loop /\ ~EndOfOptions
    /\ LET w == Word(OPTIND)
           l == Letters[w][Pos]
       IN  \/ l \notin DOMAIN Takes /\ Returns("?", NoArg)
           \/ /\ l \in DOMAIN Takes /\ Takes[l]
              /\ Rest(w, Pos) = <<>> /\ OPTIND + 2 > argc
              /\ Returns(MissingOption, MissingOptarg(l))
    /\ loop' = GoesOn
    /\ optpos' = Pos
    /\ UNCHANGED <<vars, silent, OPTIND>>

-----------------------------------------------------------------------------
GInit ==
    /\ Init /\ OPTIND = 1 /\ optpos = 1
    /\ silent = FALSE /\ loop = FALSE /\ scanned = <<>>

Getopts == GetoptsEnd \/ GetoptsOption \/ GetoptsError
Commands ==
    /\ ~loop /\ Next
    /\ scanned' = <<>> /\ silent' = FALSE
    /\ UNCHANGED <<OPTIND, optpos, loop>>
GNext == Commands \/ StartLoop \/ Getopts

(* The loop does nothing between two calls but look at the option: it goes *)
(* on until getopts fails.                                                 *)
GSpec == GInit /\ [][GNext]_<<vars, gvars>> /\ WF_<<vars, gvars>>(Getopts)

-----------------------------------------------------------------------------
(* Properties *)

(* Every variable keeps its type; OPTIND never points farther than just    *)
(* behind the last parameter a frame can have.                             *)
GTypeOK ==
    /\ TypeOK
    /\ OPTIND \in 1..(MaxOperands + 1) /\ optpos \in Nat \ {0}
    /\ silent \in BOOLEAN /\ loop \in BOOLEAN

(* getopts finds each option of the parameters once, in order, with its    *)
(* argument, up to the first error, which is told as optstring asks for,   *)
(* whatever calls, set and shift did to argv before the loop.              *)
ScanComplete ==
    [][loop /\ ~loop' => scanned' = Reference(Params(Frame), silent)]_<<vars, gvars>>

(* The loop ends. *)
LoopEnds == loop ~> ~loop
=============================================================================
