----------------------------- MODULE WshExpand -----------------------------
(***************************************************************************)
(* Words: parameter expansion (shell/task/word.c), field splitting and     *)
(* patterns (shell/word.c), and the commands that expand words: simple     *)
(* commands and assignments, which expand a copy, and case clauses, whose  *)
(* patterns are expanded in the syntax tree itself (task.c).  Tilde and    *)
(* pathname expansion are left out (set -f, no ~), $((...)) is WshArithm,  *)
(* $(...) is WshStdio and WshTask.                                         *)
(*                                                                         *)
(* A string is a sequence of characters.  A word is a sequence of parts,   *)
(* literals and parameters; q is how a part is quoted.  A list in double   *)
(* quotes is the run of its parts, since the code only ever joins them.    *)
(***************************************************************************)
EXTENDS Integers, Sequences, FiniteSets, SequencesExt, TLC

CONSTANTS
    Names,      \* shell variables
    Values,     \* the values a script starts with
    Params,     \* what $@ may be: sequences of strings
    Words,      \* the words of commands
    Sides,      \* the words on the right of assignments
    Patterns,   \* the patterns of case clauses, words too
    IFS,        \* the characters of $IFS, a sequence that is not empty
    Blanks,     \* those of them for which isspace() holds
    MaxLen,     \* bound: the length of a value
    TrimAtEnd,  \* may a pattern match at the end of the value (see Edge)?
    CaseAgain,  \* may a function evaluate its case clause twice in a call?
    InBracket(_, _)  \* libc: is a character one of those of [...]?

ASSUME IFSAssumption == IFS # <<>> /\ Blanks \subseteq ToSet(IFS)
ASSUME FlagsAssumption == {TrimAtEnd, CaseAgain} \subseteq BOOLEAN
ASSUME LenAssumption == MaxLen \in Nat

Unset == <<"unset">>

VARIABLES
    vals,     \* the variables, Unset or a string
    args,     \* the positional parameters
    nounset,  \* set -u; both stay as they are
    source,   \* the pattern of the function's case clause, as written
    def,      \* that pattern in the function table
    call,     \* and in the copy of the body that is running
    outcome   \* what the last command that expanded words came to

vars == <<vals, args, nounset, source, def, call, outcome>>

-----------------------------------------------------------------------------
(* Words *)

Lit(s, q) == [k |-> "lit", s |-> s, q |-> q, n |-> "", op |-> "", colon |-> FALSE,
              arg |-> <<>>]
Par(n, q, op, colon, arg) ==
    [k |-> "par", s |-> <<>>, q |-> q, n |-> n, op |-> op, colon |-> colon, arg |-> arg]

CondOps == {"none", "-", "=", "?", "+"}
TrimOps == {"#", "##", "%", "%%"}
Quotes == {"none", "single", "double"}

(* The words of a script.  The arg of an operator has no operators in it. *)
Literals == [k : {"lit"}, s : Seq(STRING), q : Quotes, n : {""}, op : {""}, colon : {FALSE},
             arg : {<<>>}]
ParametersOf(names, ops, args_of) ==
    [k : {"par"}, s : {<<>>}, q : Quotes, n : names, op : ops, colon : BOOLEAN, arg : args_of]
ArgParts == Literals \cup ParametersOf(Names, {"none"}, {<<>>})
Parts == Literals \cup ParametersOf(Names \cup {"@"}, CondOps \cup TrimOps \cup {"length"},
                                   Seq(ArgParts))

ASSUME WordsAssumption ==
    "@" \notin Names /\ Words \cup Sides \cup Patterns \subseteq Seq(Parts)
ASSUME TextsAssumption ==
    Values \subseteq Seq(STRING) /\ Params \subseteq Seq(Seq(STRING)) /\ IFS \in Seq(STRING)

(* An expanded word: pieces of text.  split is split_fields of the code. *)
Piece(s, q, split) == [s |-> s, q |-> q, split |-> split]
Str(pieces) == FlattenSeq([i \in DOMAIN pieces |-> pieces[i].s])
Mark(pieces) == [i \in DOMAIN pieces |-> [pieces[i] EXCEPT !.split = TRUE]]
Quote(pieces, q) ==
    IF q = "double" THEN [i \in DOMAIN pieces |-> [pieces[i] EXCEPT !.q = "double"]]
    ELSE pieces

-----------------------------------------------------------------------------
(* Patterns *)

Meta == {"*", "?", "[", "]"}
Protected(p) == p.q # "none"

(* word_to_pattern gives none if no character is special; otherwise the    *)
(* special characters that are quoted are escaped with a backslash.  A     *)
(* backslash that is quoted is not.                                        *)
NeedsPattern(pieces) ==
    \E i \in DOMAIN pieces : ~Protected(pieces[i]) /\ ToSet(pieces[i].s) \cap Meta # {}
word_to_pattern(pieces) ==
    FlattenSeq([i \in DOMAIN pieces |->
        FlattenSeq([j \in DOMAIN pieces[i].s |->
            LET c == pieces[i].s[j]
            IN  IF c \in Meta /\ Protected(pieces[i]) THEN <<"\\", c>> ELSE <<c>>])])

(* external: fnmatch(3).  The ] that ends the bracket expression at i is   *)
(* not the first character in it; without one [ stands for itself, and so  *)
(* does a backslash at the end.                                            *)
Closings(pat, i) ==
    LET first == IF i < Len(pat) /\ pat[i + 1] \in {"!", "^"} THEN i + 2 ELSE i + 1
    IN  {k \in (first + 1)..Len(pat) : pat[i] = "[" /\ pat[k] = "]"}
fnmatch(pat, s) ==
    LET m[ij \in (1..(Len(pat) + 1)) \X (1..(Len(s) + 1))] ==
          LET i == ij[1]
              j == ij[2]
              close == Min(Closings(pat, i))
          IN  IF i > Len(pat) THEN j > Len(s)
              ELSE IF pat[i] = "*"
                   THEN m[<<i + 1, j>>] \/ (j <= Len(s) /\ m[<<i, j + 1>>])
              ELSE /\ j <= Len(s)
                   /\ IF pat[i] = "\\" /\ i < Len(pat)
                      THEN pat[i + 1] = s[j] /\ m[<<i + 2, j + 1>>]
                      ELSE IF Closings(pat, i) # {}
                      THEN /\ InBracket(SubSeq(pat, i + 1, close - 1), s[j])
                           /\ m[<<close + 1, j + 1>>]
                      ELSE (pat[i] = "?" \/ pat[i] = s[j]) /\ m[<<i + 1, j + 1>>]
    IN  m[<<1, 1>>]

Before(s, i) == SubSeq(s, 1, i)
From(s, i) == SubSeq(s, i + 1, Len(s))

trim_str(s, cut, suffix) ==
    IF suffix THEN IF IsSuffix(cut, s) THEN Before(s, Len(s) - Len(cut)) ELSE s
    ELSE IF IsPrefix(cut, s) THEN From(s, Len(cut)) ELSE s

(* trim_pattern tries the positions before each character, never the end.  *)
Positions(s) == 0..(Len(s) - 1)
Cuts(s, pat, suffix, positions) ==
    {i \in positions : fnmatch(pat, IF suffix THEN From(s, i) ELSE Before(s, i))}
CutAt(s, cuts, suffix, largest) ==
    IF cuts = {} THEN s
    ELSE LET i == IF suffix = largest THEN Min(cuts) ELSE Max(cuts)
         IN  IF suffix THEN Before(s, i) ELSE From(s, i)
trim_pattern(s, pat, suffix, largest) ==
    CutAt(s, Cuts(s, pat, suffix, Positions(s)), suffix, largest)

IsSuffixOp(op) == op \in {"%", "%%"}
IsLargest(op) == op \in {"##", "%%"}
Trim(op, s, pieces) ==
    IF NeedsPattern(pieces)
    THEN trim_pattern(s, word_to_pattern(pieces), IsSuffixOp(op), IsLargest(op))
    ELSE trim_str(s, Str(pieces), IsSuffixOp(op))

(* The end of the value, which trim_pattern never tries, is where the      *)
(* pattern tells to cut.                                                   *)
Edge(op, s, pieces) ==
    /\ NeedsPattern(pieces) /\ s # <<>> /\ op # "%%"
    /\ LET cuts == Cuts(s, word_to_pattern(pieces), IsSuffixOp(op), 0..Len(s))
       IN  Len(s) \in cuts /\ (op = "#" => cuts = {Len(s)})

-----------------------------------------------------------------------------
(* run_word.  Expanding a word may assign variables, so it takes their     *)
(* values and gives new ones; ok is FALSE after an error.                  *)

Expanded(ok, pieces, env) == [ok |-> ok, pieces |-> pieces, env |-> env]

(* expand_positional_params: the parameters and between them the first     *)
(* character of IFS.  Those of "$@" are quoted, and are moved out of the   *)
(* double quotes.                                                          *)
expand_positional_params(q) ==
    FlattenSeq([i \in DOMAIN args |->
        (IF i > 1 THEN <<Piece(<<IFS[1]>>, "none", TRUE)>> ELSE <<>>)
        \o <<Piece(args[i], IF q = "double" THEN "single" ELSE "none", TRUE)>>])

(* The arg of an operator: literals and variables. *)
ArgValue(n, env) == IF env[n] = Unset THEN <<>> ELSE env[n]
ArgPieces(arg, env) ==
    IF arg = <<>> THEN <<Piece(<<>>, "none", FALSE)>>
    ELSE [i \in DOMAIN arg |->
            IF arg[i].k = "lit" THEN Piece(arg[i].s, arg[i].q, FALSE)
            ELSE Piece(ArgValue(arg[i].n, env), arg[i].q, TRUE)]
ArgFails(arg, env) == nounset /\ \E i \in DOMAIN arg : arg[i].k = "par" /\ env[arg[i].n] = Unset

NoPieces == <<Piece(<<>>, "none", TRUE)>>

(* The operators look at the value before they look at the argument. *)
Missing(p, env) == env[p.n] = Unset \/ (p.colon /\ env[p.n] = <<>>)
UsesArg(p, env) == (p.op = "+") # Missing(p, env)

apply_parameter_cond_op(p, env) ==
    LET value == <<Piece(env[p.n], "none", TRUE)>>
        arg == Mark(ArgPieces(p.arg, env))
        failed == Expanded(FALSE, <<>>, env)
    IN  IF p.op = "none"
        THEN IF env[p.n] # Unset THEN Expanded(TRUE, value, env)
             ELSE IF nounset THEN failed ELSE Expanded(TRUE, NoPieces, env)
        ELSE IF ~UsesArg(p, env)
        THEN Expanded(TRUE, IF p.op = "+" THEN NoPieces ELSE value, env)
        ELSE IF ArgFails(p.arg, env) \/ p.op = "?" THEN failed
        ELSE Expanded(TRUE, arg, IF p.op = "=" THEN [env EXCEPT ![p.n] = Str(arg)] ELSE env)

apply_parameter_str_op(p, env) ==
    LET s == env[p.n]
        str == IF s = Unset THEN <<>> ELSE s
    IN  IF s = Unset /\ nounset THEN Expanded(FALSE, <<>>, env)
        ELSE IF p.op = "length"
        THEN Expanded(TRUE, <<Piece(<<ToString(Len(str))>>, "none", TRUE)>>, env)
        ELSE IF s = Unset THEN Expanded(TRUE, NoPieces, env)
        ELSE IF ArgFails(p.arg, env) THEN Expanded(FALSE, <<>>, env)
        ELSE Expanded(TRUE, <<Piece(Trim(p.op, s, ArgPieces(p.arg, env)), "none", TRUE)>>, env)

run_part(p, env) ==
    IF p.k = "lit" THEN Expanded(TRUE, <<Piece(p.s, p.q, FALSE)>>, env)
    ELSE IF p.n = "@" THEN Expanded(TRUE, expand_positional_params(p.q), env)
    ELSE LET e == IF p.op \in CondOps THEN apply_parameter_cond_op(p, env)
                  ELSE apply_parameter_str_op(p, env)
         IN  [e EXCEPT !.pieces = Quote(@, p.q)]

(* The parts of a word from left to right, up to the first that fails. *)
run_word(w, env) ==
    LET step(e, p) ==
          IF ~e.ok THEN e
          ELSE LET f == run_part(p, e.env) IN [f EXCEPT !.pieces = e.pieces \o @]
    IN  FoldLeft(step, Expanded(TRUE, <<>>, env), w)

-----------------------------------------------------------------------------
(* split_fields.  open: is cur_field set, so that text goes to the last    *)
(* field?  Quoted text and literals are never split; those behind a list   *)
(* in double quotes find in_ifs as the text before it left it.             *)

add_to_cur_field(d, s) ==
    IF d.open THEN [d EXCEPT !.fields[Len(d.fields)] = @ \o s]
    ELSE [d EXCEPT !.fields = Append(@, s), !.open = TRUE]

split_char(d, c) ==
    IF c \notin ToSet(IFS)
    THEN [d EXCEPT !.buf = Append(@, c), !.in_ifs = FALSE, !.in_ifs_non_space = FALSE]
    ELSE IF ~d.in_ifs \/ (c \notin Blanks /\ d.in_ifs_non_space)
    THEN [add_to_cur_field(d, d.buf) EXCEPT !.open = FALSE, !.in_ifs = TRUE, !.buf = <<>>]
    ELSE IF c \notin Blanks THEN [d EXCEPT !.in_ifs_non_space = TRUE] ELSE d

InIfs_first == FALSE    \* mutant
InIfs == TRUE

split_piece(d, p) ==
    IF p.q = "double" THEN add_to_cur_field(d, p.s)
    ELSE IF p.q = "single" \/ ~p.split
    THEN [add_to_cur_field(d, p.s) EXCEPT !.in_ifs = FALSE, !.in_ifs_non_space = FALSE]
    ELSE LET e == FoldLeft(split_char, [d EXCEPT !.buf = <<>>], p.s)
         IN  IF e.in_ifs THEN e ELSE add_to_cur_field(e, e.buf)

split_fields(pieces) ==
    FoldLeft(split_piece,
             [fields |-> <<>>, open |-> FALSE, buf |-> <<>>, in_ifs |-> InIfs,
              in_ifs_non_space |-> FALSE], pieces).fields

-----------------------------------------------------------------------------
(* The script *)

Result(k, ok, words, fields, selected) ==
    [k |-> k, ok |-> ok, words |-> words, fields |-> fields, selected |-> selected]
NoResult == Result("none", TRUE, <<>>, <<>>, FALSE)
Running == outcome = NoResult

MayExpand(w) ==
    \A i \in DOMAIN w :
        LET p == w[i] IN
        p.op \in TrimOps /\ vals[p.n] # Unset
        /\ Edge(p.op, vals[p.n], ArgPieces(p.arg, vals)) => TrimAtEnd
Short(env) == \A n \in Names : env[n] = Unset \/ Len(env[n]) <= MaxLen

NoCall == [pat |-> <<>>, ran |-> FALSE]

(* A command with one argument, outside the function.  What was assigned   *)
(* before an error stays.                                                  *)
RunCommand ==
    /\ Running /\ call = NoCall
    /\ \E w \in Words :
          LET e == run_word(w, vals) IN
          /\ MayExpand(w) /\ Short(e.env)
          /\ vals' = e.env
          /\ outcome' = Result("command", e.ok, <<w>>,
                               IF e.ok THEN split_fields(e.pieces) ELSE <<>>, FALSE)
    /\ UNCHANGED <<args, nounset, source, def, call>>

(* run_assignments: from left to right. *)
Assigned(n, v, m, w, env) == [[env EXCEPT ![n] = v] EXCEPT ![m] = w]

(* n=v m=w: both values are expanded before the first is assigned, and     *)
(* when one of them fails neither is.                                      *)
Assign_eager(n, v, m, w) ==    \* mutant
    LET e == run_word(v, vals)
        f == IF e.ok THEN run_word(w, [e.env EXCEPT ![n] = Str(e.pieces)]) ELSE e
        env == IF f.ok THEN [f.env EXCEPT ![m] = Str(f.pieces)] ELSE f.env
    IN  /\ Short(env)
        /\ vals' = env
        /\ outcome' = Result("assign", f.ok, <<n, v, m, w>>, <<>>, FALSE)
Assign(n, v, m, w) ==
    LET e == run_word(v, vals)
        f == IF e.ok THEN run_word(w, e.env) ELSE e
        env == IF f.ok THEN Assigned(n, Str(e.pieces), m, Str(f.pieces), f.env) ELSE f.env
    IN  /\ Short(env)
        /\ vals' = env
        /\ outcome' = Result("assign", f.ok, <<n, v, m, w>>, <<>>, FALSE)

RunAssignments ==
    /\ Running
    /\ \E n, m \in Names, v, w \in Sides :
          MayExpand(v) /\ MayExpand(w) /\ Assign(n, v, m, w)
    /\ UNCHANGED <<args, nounset, source, def, call>>

(* A function whose body has a case clause.  The body that runs is a copy  *)
(* of the one in the table, made for the call.                             *)
Call ==
    /\ Running /\ call = NoCall
    /\ call' = [pat |-> def, ran |-> FALSE]
    /\ UNCHANGED <<vals, args, nounset, source, def, outcome>>
Return ==
    /\ Running /\ call # NoCall
    /\ call' = NoCall
    /\ UNCHANGED <<vals, args, nounset, source, def, outcome>>

Selects(pieces, s) ==
    IF NeedsPattern(pieces) THEN fnmatch(word_to_pattern(pieces), s) ELSE Str(pieces) = s

(* case $n in pattern): the pattern is replaced by what it expands to, in  *)
(* the body that runs.                                                     *)
Replaced(pieces) == [i \in DOMAIN pieces |-> Lit(pieces[i].s, pieces[i].q)]
DefAfter_shared(pat) == pat    \* mutant
DefAfter(pat) == def

RunCase ==
    /\ Running /\ call # NoCall /\ (call.ran => CaseAgain)
    /\ \E n \in Names :
          LET subject == run_word(<<Par(n, "none", "none", FALSE, <<>>)>>, vals)
              e == run_word(call.pat, subject.env)
          IN  /\ MayExpand(call.pat) /\ Short(e.env)
              /\ IF subject.ok /\ e.ok
                 THEN /\ call' = [pat |-> Replaced(e.pieces), ran |-> TRUE]
                      /\ def' = DefAfter(Replaced(e.pieces))
                      /\ outcome' = Result("case", TRUE, <<n>>, <<>>,
                                           Selects(e.pieces, Str(subject.pieces)))
                 ELSE /\ UNCHANGED <<call, def>>
                      /\ outcome' = Result("case", FALSE, <<n>>, <<>>, FALSE)
              /\ vals' = IF subject.ok THEN e.env ELSE subject.env
    /\ UNCHANGED <<args, nounset, source>>

(* The command ends and the script goes on; an error ends it. *)
GoOn ==
    /\ outcome.k # "none" /\ outcome.ok
    /\ outcome' = NoResult
    /\ UNCHANGED <<vals, args, nounset, source, def, call>>

Init ==
    /\ vals \in [Names -> Values \cup {Unset}]
    /\ args \in Params /\ nounset \in BOOLEAN
    /\ source \in Patterns /\ def = source
    /\ call = NoCall /\ outcome = NoResult
Next == RunCommand \/ RunAssignments \/ Call \/ Return \/ RunCase \/ GoOn
Spec == Init /\ [][Next]_vars

-----------------------------------------------------------------------------
(* What the shell standard says a word expands to.                         *)

(* The table of parameter expansion: what replaces a parameter. *)
Substitutes(op, colon, value) ==
    IF value # Unset /\ (value # <<>> \/ ~colon)
    THEN IF op = "+" THEN "word" ELSE "parameter"
    ELSE CASE op = "-" -> "word" [] op = "=" -> "assign" [] op = "?" -> "error"
           [] op = "+" -> "null" [] op = "none" -> IF nounset THEN "error" ELSE "null"

StandardTrim(op, s, pieces) ==
    CutAt(s, Cuts(s, word_to_pattern(pieces), IsSuffixOp(op), 0..Len(s)),
          IsSuffixOp(op), IsLargest(op))

StandardPart(p, env) ==
    LET text(s) == <<Piece(s, "none", TRUE)>>
        how == IF p.op \in CondOps THEN Substitutes(p.op, p.colon, env[p.n])
               ELSE IF env[p.n] = Unset /\ nounset THEN "error"
               ELSE IF p.op = "length" THEN "length"
               ELSE IF env[p.n] = Unset THEN "null" ELSE "trim"
        arg == Mark(ArgPieces(p.arg, env))
        pieces == CASE how \in {"word", "assign"} -> arg
                    [] how = "parameter" -> text(env[p.n])
                    [] how = "length" -> text(<<ToString(Len(ArgValue(p.n, env)))>>)
                    [] how = "trim" -> text(StandardTrim(p.op, env[p.n], arg))
                    [] OTHER -> text(<<>>)
        ok == how # "error" /\ (how \in {"word", "assign", "trim"} => ~ArgFails(p.arg, env))
    IN  Expanded(ok, Quote(pieces, p.q),
                 IF how = "assign" /\ ok THEN [env EXCEPT ![p.n] = Str(arg)] ELSE env)

(* Text that is split is a sequence of characters and marks of quotes,     *)
(* some of which delimit fields.  What stands between two of the           *)
(* parameters of $@ delimits like a blank.                                 *)
Item(c, delim) == [c |-> c, delim |-> delim]
Items(piece) ==
    (IF piece.q # "none" THEN <<Item(<<>>, "no")>> ELSE <<>>)
    \o [i \in DOMAIN piece.s |->
          LET c == piece.s[i] IN
          Item(<<c>>, IF piece.q # "none" \/ ~piece.split \/ c \notin ToSet(IFS) THEN "no"
                      ELSE IF c \in Blanks THEN "blank" ELSE "sep")]
AtItems(q) ==
    FlattenSeq([i \in DOMAIN args |->
        (IF i > 1 THEN <<Item(<<IFS[1]>>, "blank")>> ELSE <<>>) \o Items(Piece(args[i], q, TRUE))])

StandardWord(w, env) ==
    LET step(e, p) ==
          IF ~e.ok THEN e
          ELSE IF p.k = "lit"
          THEN [e EXCEPT !.pieces = @ \o Items(Piece(p.s, p.q, FALSE))]
          ELSE IF p.n = "@" THEN [e EXCEPT !.pieces = @ \o AtItems(p.q)]
          ELSE LET f == StandardPart(p, e.env)
                   items == FlattenSeq([i \in DOMAIN f.pieces |-> Items(f.pieces[i])])
               IN  Expanded(f.ok, e.pieces \o items, f.env)
    IN  FoldLeft(step, Expanded(TRUE, <<>>, env), w)

(* A field is a run of text without delimiters, or the nothing that a      *)
(* delimiter other than a blank ends.                                      *)
Text(it, a, b) == FlattenSeq([i \in 1..(b - a + 1) |-> it[a + i - 1].c])
StandardFields(it) ==
    LET is(i, d) == it[i].delim = d
        ends == {i \in DOMAIN it : is(i, "no") /\ (i = Len(it) \/ ~is(i + 1, "no"))}
        empty == {i \in DOMAIN it : is(i, "sep")
                    /\ \A j \in 1..(i - 1) : is(j, "no") =>
                         \E k \in (j + 1)..(i - 1) : is(k, "sep")}
        start(i) == IF is(i, "sep") THEN i + 1
                    ELSE Min({j \in 1..i : \A k \in j..i : is(k, "no")})
        order == SetToSortSeq(ends \cup empty, <)
    IN  [k \in DOMAIN order |-> Text(it, start(order[k]), order[k])]

-----------------------------------------------------------------------------
(* Properties *)

(* The fields of a command's argument, and the variables that ${x=word}    *)
(* leaves, are what the standard says, whatever assignments, expansions    *)
(* and calls came before; an expansion fails exactly when it should.       *)
FieldsAsStandard ==
    [][ outcome'.k = "command" =>
          LET e == StandardWord(outcome'.words[1], vals)
          IN  /\ e.ok <=> outcome'.ok
              /\ e.ok => vals' = e.env /\ outcome'.fields = StandardFields(e.pieces)
      ]_vars

(* A line of assignments gives each of its variables, the last of one     *)
(* name winning, the text, not split, its word stood for before the line   *)
(* assigned any; or none, if an expansion fails.  What an expansion        *)
(* assigned itself, ${x=word}, the later ones see, and it stays.           *)
AssignsTogether ==
    [][ outcome'.k = "assign" =>
          LET line == outcome'.words
              text(e) == Text(e.pieces, 1, Len(e.pieces))
              e == StandardWord(line[2], vals)
              f == StandardWord(line[4], e.env)
              unassigned == IF e.ok THEN f.env ELSE e.env
          IN  /\ outcome'.ok <=> e.ok /\ f.ok
              /\ \A x \in Names :
                   vals'[x] = IF ~outcome'.ok \/ x \notin {line[1], line[3]} THEN unassigned[x]
                              ELSE IF x = line[3] THEN text(f) ELSE text(e)
      ]_vars

(* A case clause in a function selects as its pattern as written, expanded *)
(* with the values of the moment, does, in every call.                     *)
CaseFresh ==
    [][ outcome'.k = "case" /\ outcome'.ok =>
          LET e == run_word(source, vals)
              s == ArgValue(outcome'.words[1], vals)
          IN  outcome'.selected = Selects(e.pieces, s)
      ]_vars
=============================================================================
