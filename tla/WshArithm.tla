----------------------------- MODULE WshArithm -----------------------------
(***************************************************************************)
(* $((...)): the recursive-descent parser of parser/arithm.c and the       *)
(* evaluator of shell/arithm.c, on a body that word.c expands first, so    *)
(* that $x puts the text of x there.  The text is a sequence of tokens:    *)
(* digits or a name are one token, everything else one character.  A       *)
(* parser function takes a position and gives a tree, or Null, and the     *)
(* position it has come to; the code goes on from there after a failure.   *)
(***************************************************************************)
EXTENDS Integers, Sequences, FiniteSets, Bitwise, TLC

CONSTANTS
    Width,      \* bits of long, 32 on wasm32
    Literals,   \* Literals[s]: the value of literal s
    Malformed,  \* digits that strtol refuses: 08, or out of range
    Names,      \* variables
    Exprs,      \* the expressions of the scripts
    Values,     \* what a script assigns to its variables
    NoUnset     \* set -u

MAX == 2 ^ (Width - 1) - 1
MIN == -(2 ^ (Width - 1))
Longs == MIN..MAX

ASSUME WidthAssumption == Width \in Nat /\ Width >= 2
ASSUME LiteralsAssumption ==
    "0" \in DOMAIN Literals /\ Literals["0"] = 0
    /\ \A s \in DOMAIN Literals : Literals[s] \in 0..MAX
ASSUME NamesAssumption ==
    /\ Names \cap (DOMAIN Literals \cup Malformed) = {} /\ DOMAIN Literals \cap Malformed = {}
    /\ NoUnset \in BOOLEAN

VARIABLES
    vars,    \* the shell variables
    expr,    \* history: the expression last expanded
    spaced,  \* history: was it written with blanks?
    result   \* what the expansion came to

-----------------------------------------------------------------------------
(* The value of a variable: the tokens of its text, and n, what strtod     *)
(* makes of it, cut to an integer.  A decimal is what %ld prints; another  *)
(* number may be octal or a fraction.                                      *)

Digits(n) == ToString(n)
Value(kind, n, text) == [kind |-> kind, n |-> n, text |-> text]
Number(n) == Value("decimal", n, IF n < 0 THEN <<"-", Digits(-n)>> ELSE <<Digits(n)>>)
UnsetValue == Value("unset", 0, <<>>)
Kinds == {"decimal", "other", "large", "text", "unset"}

-----------------------------------------------------------------------------
(* Syntax trees; Dollar and Empty are only written, never parsed. *)

Node(op, val, kids) == [op |-> op, val |-> val, kids |-> kids]
Null == Node("null", "", <<>>)
Lit(s) == Node("literal", s, <<>>)
Var(n) == Node("variable", n, <<>>)
Dollar(n) == Node("dollar", n, <<>>)
Empty == Node("empty", "", <<>>)
Bin(op, l, r) == Node("binop", op, <<l, r>>)
Un(op, b) == Node("unop", op, <<b>>)
Cond(c, b, e) == Node("cond", "?", <<c, b, e>>)
Assign(n, op, v) == Node("assign", op, <<Var(n), v>>)

Multiplicative == {"*", "/", "%"}
Additive == {"+", "-"}
UnaryOps == {"+", "-", "~", "!"}

(* The characters of the operators that have two *)
Spelling ==
    [op \in {"<<", ">>", "<=", ">=", "==", "!=", "&&", "||"} |->
        CASE op = "<<" -> <<"<", "<">> [] op = ">>" -> <<">", ">">>
          [] op = "<=" -> <<"<", "=">> [] op = ">=" -> <<">", "=">>
          [] op = "==" -> <<"=", "=">> [] op = "!=" -> <<"!", "=">>
          [] op = "&&" -> <<"&", "&">> [] op = "||" -> <<"|", "|">>]
Chars(op) == IF op \in DOMAIN Spelling THEN Spelling[op] ELSE <<op>>

-----------------------------------------------------------------------------
(* The parser.  s is the text, i the position. *)

At(s, i) == IF i <= Len(s) THEN s[i] ELSE "eof"
Found(t, i) == [t |-> t, i |-> i]

RECURSIVE Skip(_, _)    \* consume_whitespace
Skip(s, i) == IF At(s, i) = " " THEN Skip(s, i + 1) ELSE i

Match(s, i, cs) == \A k \in 1..Len(cs) : At(s, i + k - 1) = cs[k]

(* The operators below + and -, from the loosest on; each level tries its  *)
(* own in order and is right-recursive.  Only the bitwise and logical ones *)
(* look whether another & or | follows, and == and != skip no blanks.      *)
Levels == <<<<"||">>, <<"&&">>, <<"|">>, <<"^">>, <<"&">>, <<"==", "!=">>,
            <<"<=", "<", ">=", ">">>, <<"<<", ">>">>>>
LooksAhead(level) == level <= 5
SkipsBlanks(level) == level # 6

RECURSIVE ArithmExpr(_, _), Ternary(_, _), Binop(_, _, _), Addends(_, _, _),
          Factors(_, _, _), Factor(_, _)

(* What follows a part that was found, and one that was not *)
Then(r, K(_)) == IF r.t = Null THEN r ELSE K(r)
Else(r, K(_)) == IF r.t = Null THEN K(r) ELSE r
Expect(c, s, r) == IF At(s, r.i) = c THEN Found(r.t, r.i + 1) ELSE Found(Null, r.i)

Paren(s, i) ==
    IF At(s, i) # "(" THEN Found(Null, i) ELSE Expect(")", s, ArithmExpr(s, Skip(s, i + 1)))

(* The operand of a unary operator is a whole expression. *)
Unop(s, i) ==
    IF At(s, i) \notin UnaryOps THEN Found(Null, i)
    ELSE Then(ArithmExpr(s, i + 1), LAMBDA b : Found(Un(At(s, i), b.t), b.i))

(* literal() has read the digits when strtol refuses them, and variable()  *)
(* looks at what stands behind them.                                       *)
Variable(s, i) == IF At(s, i) \in Names THEN Found(Var(At(s, i)), i + 1) ELSE Found(Null, i)
Leaf(s, i) ==
    IF At(s, i) \in DOMAIN Literals THEN Found(Lit(At(s, i)), i + 1)
    ELSE Variable(s, IF At(s, i) \in Malformed THEN i + 1 ELSE i)
Term(s, i) ==
    Else(Else(Paren(s, i), LAMBDA p : Unop(s, p.i)), LAMBDA u : Leaf(s, u.i))

(* The loop of factor(), with what it has read so far *)
Factors_right(s, left, i) ==    \* mutant
    LET from(j) ==
          IF At(s, j) \notin Multiplicative THEN Found(left, j)
          ELSE Then(Factor(s, Skip(s, j + 1)), LAMBDA r : Found(Bin(At(s, j), left, r.t), r.i))
    IN  from(Skip(s, i))
Factors(s, left, i) ==
    LET from(j) ==
          IF At(s, j) \notin Multiplicative THEN Found(left, j)
          ELSE Then(Term(s, Skip(s, j + 1)),
                    LAMBDA r : Factors(s, Bin(At(s, j), left, r.t), r.i))
    IN  from(Skip(s, i))
Factor(s, i) == Then(Term(s, i), LAMBDA l : Factors(s, l.t, l.i))

Addends(s, left, i) ==
    IF At(s, i) \notin Additive THEN Found(left, i)
    ELSE Then(Factor(s, Skip(s, i + 1)), LAMBDA r : Addends(s, Bin(At(s, i), left, r.t), r.i))
Addend(s, i) == Then(Factor(s, i), LAMBDA l : Addends(s, l.t, l.i))

(* binop(), equal(), comp() and shift() *)
Matching(s, i, level) ==
    {k \in 1..Len(Levels[level]) :
        LET cs == Chars(Levels[level][k])
        IN  /\ Match(s, i, cs)
            /\ LooksAhead(level) => At(s, i + Len(cs)) \notin {"&", "|"}}
First(ks) == CHOOSE k \in ks : \A m \in ks : k <= m
RightOf(s, j, level) == IF SkipsBlanks(level) THEN Skip(s, j) ELSE j
Binop(s, i, level) ==
    LET right(l, op) == Then(Binop(s, RightOf(s, l.i + Len(Chars(op)), level), level),
                             LAMBDA r : Found(Bin(op, l.t, r.t), r.i))
        rest(l, ks) == IF ks = {} THEN l ELSE right(l, Levels[level][First(ks)])
    IN  IF level > Len(Levels) THEN Addend(s, i)
        ELSE Then(Binop(s, i, level + 1), LAMBDA l : rest(l, Matching(s, l.i, level)))

Ternary(s, i) ==
    LET other(c, b) == Then(Ternary(s, b.i), LAMBDA e : Found(Cond(c.t, b.t, e.t), e.i))
        body(c) == Then(Then(Ternary(s, c.i + 1), LAMBDA b : Expect(":", s, b)),
                        LAMBDA b : other(c, b))
    IN  Then(Binop(s, i, 1), LAMBDA c : IF At(s, c.i) = "?" THEN body(c) ELSE c)

AssignOps == <<"none", "*", "/", "%", "+", "-", "<<", ">>", "&", "^", "|">>
AssignChars(op) == IF op = "none" THEN <<"=">> ELSE Chars(op) \o <<"=">>

(* A name directly followed by an assignment operator.  The first = of ==  *)
(* is one too.                                                             *)
Assignment(s, i) ==
    LET ks == {k \in 1..Len(AssignOps) : Match(s, i + 1, AssignChars(AssignOps[k]))}
        value(op) == Then(ArithmExpr(s, i + 1 + Len(AssignChars(op))),
                          LAMBDA v : Found(Assign(At(s, i), op, v.t), v.i))
    IN  IF At(s, i) \notin Names \/ ks = {} THEN Found(Null, i)
        ELSE value(AssignOps[First(ks)])

ArithmExpr(s, i) == Else(Assignment(s, i), LAMBDA a : Ternary(s, a.i))

(* mrsh_parse_arithm_expr *)
Parse(s) ==
    LET e == ArithmExpr(s, Skip(s, 1))
    IN  IF e.i <= Len(s) THEN Null ELSE e.t

-----------------------------------------------------------------------------
(* The evaluator.  Run gives the set of outcomes: unary plus leaves its    *)
(* result unassigned, so that any value may come out, and the conversion   *)
(* of a double too large for long gives an end of the range.  Arithmetic   *)
(* wraps, shift counts are taken modulo the width, MIN / -1 traps, as wasm *)
(* does.                                                                   *)

Wrap_none(n) == n    \* mutant
Wrap(n) == ((n - MIN) % 2 ^ Width) + MIN
Unsigned(n) == n % 2 ^ Width
Magnitude(n) == IF n < 0 THEN -n ELSE n
Quotient(a, b) == IF (a < 0) = (b < 0) THEN Magnitude(a) \div Magnitude(b)
                  ELSE -(Magnitude(a) \div Magnitude(b))
Remainder(a, b) == a - b * Quotient(a, b)
Truth(p) == IF p THEN 1 ELSE 0

BinValue(op, a, b) ==
    CASE op = "*" -> Wrap(a * b)
      [] op = "/" -> Wrap(Quotient(a, b))
      [] op = "%" -> Remainder(a, b)
      [] op = "+" -> Wrap(a + b)
      [] op = "-" -> Wrap(a - b)
      [] op = "<<" -> Wrap(a * 2 ^ (b % Width))
      [] op = ">>" -> a \div 2 ^ (b % Width)
      [] op = "<" -> Truth(a < b)
      [] op = "<=" -> Truth(a <= b)
      [] op = ">" -> Truth(a > b)
      [] op = ">=" -> Truth(a >= b)
      [] op = "==" -> Truth(a = b)
      [] op = "!=" -> Truth(a # b)
      [] op = "&" -> Wrap(Unsigned(a) & Unsigned(b))
      [] op = "^" -> Wrap(Unsigned(a) ^^ Unsigned(b))
      [] op = "|" -> Wrap(Unsigned(a) | Unsigned(b))
      [] op = "&&" -> Truth(a # 0 /\ b # 0)
      [] op = "||" -> Truth(a # 0 \/ b # 0)

UnValues(op, a) ==
    CASE op = "+" -> Longs
      [] op = "-" -> {Wrap(-a)}
      [] op = "~" -> {-a - 1}
      [] op = "!" -> {Truth(a = 0)}

Outcome(k, n, env) == [k |-> k, n |-> n, env |-> env]

(* A division by zero is an error, for binops and assignments alike. *)
Computed(op, a, b, env) ==
    IF op \in {"/", "%"} /\ b = 0 THEN Outcome("error", 0, env)
    ELSE IF op = "/" /\ a = MIN /\ b = -1 THEN Outcome("trap", 0, env)
    ELSE Outcome("value", BinValue(op, a, b), env)

(* strtod, not strtol: 010 is ten and 1.5 is one. *)
run_variable(n, env) ==
    CASE env[n].kind \in {"decimal", "other"} -> {Outcome("value", env[n].n, env)}
      [] env[n].kind = "large" -> {Outcome("value", m, env) : m \in {MIN, MAX}}
      [] env[n].kind = "text" -> {Outcome("error", 0, env)}
      [] env[n].kind = "unset" -> {Outcome(IF NoUnset THEN "error" ELSE "value", 0, env)}

(* the value first, then the variable, then the store *)
Stored(name, o) ==
    IF o.k = "value" THEN [o EXCEPT !.env[name] = Number(o.n)] ELSE o
AssignValues(name, op, v) ==
    IF op = "none" THEN {Stored(name, v)}
    ELSE {IF cur.k # "value" THEN cur ELSE Stored(name, Computed(op, cur.n, v.n, v.env))
          : cur \in run_variable(name, v.env)}

RECURSIVE Run(_, _)
Run(t, env) ==
    CASE t.op = "literal" -> {Outcome("value", Literals[t.val], env)}
      [] t.op = "variable" -> run_variable(t.val, env)
      [] t.op = "unop" ->
           UNION {IF o.k # "value" THEN {o}
                  ELSE {Outcome("value", n, o.env) : n \in UnValues(t.val, o.n)}
                  : o \in Run(t.kids[1], env)}
      [] t.op = "binop" ->
           UNION {IF l.k # "value" THEN {l}
                  ELSE {IF r.k # "value" THEN r ELSE Computed(t.val, l.n, r.n, r.env)
                        : r \in Run(t.kids[2], l.env)}
                  : l \in Run(t.kids[1], env)}
      [] t.op = "cond" ->
           UNION {IF c.k # "value" THEN {c}
                  ELSE Run(t.kids[IF c.n # 0 THEN 2 ELSE 3], c.env)
                  : c \in Run(t.kids[1], env)}
      [] t.op = "assign" ->
           UNION {IF v.k # "value" THEN {v} ELSE AssignValues(t.kids[1].val, t.val, v)
                  : v \in Run(t.kids[2], env)}

-----------------------------------------------------------------------------
(* How a script writes an expression: the parentheses C needs, and more    *)
(* around a unary operator and in a chain of shifts or comparisons; blanks *)
(* around operators or none, but always before == and never behind it.     *)
(* What stands there when the body is expanded: $x is the text of x.       *)

Loosest == 0
LevelOf(op) ==
    IF op \in Multiplicative THEN 10 ELSE IF op \in Additive THEN 9
    ELSE CHOOSE l \in 1..8 : \E k \in 1..Len(Levels[l]) : Levels[l][k] = op
Level(t) == CASE t.op = "binop" -> LevelOf(t.val)
              [] t.op \in {"cond", "assign"} -> Loosest
              [] t.op = "unop" -> 11
              [] OTHER -> 12
Chains(level) == level \notin {6, 7, 8}
EqualityLevel == 6

Blank(b) == IF b THEN <<" ">> ELSE <<>>

RECURSIVE Text(_, _, _)
Operand(t, level, sp, env) ==
    IF Level(t) < level \/ t.op = "unop" THEN <<"(">> \o Text(t, sp, env) \o <<")">>
    ELSE Text(t, sp, env)
Text(t, sp, env) ==
    CASE t.op \in {"literal", "variable"} -> <<t.val>>
      [] t.op = "dollar" -> env[t.val].text
      [] t.op = "empty" -> Blank(sp)
      [] t.op = "unop" -> <<t.val>> \o Operand(t.kids[1], 12, sp, env)
      [] t.op = "binop" ->
           LET l == LevelOf(t.val)
           IN  Operand(t.kids[1], IF Chains(l) THEN l ELSE l + 1, sp, env)
               \o Blank(sp \/ l = EqualityLevel) \o Chars(t.val)
               \o Blank(sp /\ l # EqualityLevel) \o Operand(t.kids[2], l + 1, sp, env)
      [] t.op = "cond" ->
           Operand(t.kids[1], 1, sp, env) \o <<"?">> \o Operand(t.kids[2], 1, sp, env)
           \o <<":">> \o Operand(t.kids[3], 1, sp, env)
      [] t.op = "assign" ->
           <<t.kids[1].val>> \o AssignChars(t.val) \o Text(t.kids[2], sp, env)

-----------------------------------------------------------------------------
(* What an expression means in C, in exact integers; "any" where C leaves  *)
(* it undefined.                                                           *)

Exact(op, a, b) ==
    CASE op = "*" -> a * b [] op = "+" -> a + b [] op = "-" -> a - b
      [] op = "/" -> Quotient(a, b)
      [] op = "<<" -> IF a >= 0 /\ b \in 0..(Width - 1) THEN a * 2 ^ b ELSE MAX + 1
      [] op = ">>" -> IF b \in 0..(Width - 1) THEN a \div 2 ^ b ELSE MAX + 1
      [] OTHER -> BinValue(op, a, b)
CComputed(op, a, b, env) ==
    IF op \in {"/", "%"} /\ b = 0 THEN Outcome("error", 0, env)
    ELSE IF Exact(op, a, b) \in Longs THEN Outcome("value", Exact(op, a, b), env)
    ELSE Outcome("any", 0, env)

(* The standard takes the text of a variable for a constant; the code      *)
(* takes it for a floating-point number, which this leaves open.           *)
CVariable(n, env) ==
    CASE env[n].kind = "decimal" -> Outcome("value", env[n].n, env)
      [] env[n].kind = "unset" -> Outcome(IF NoUnset THEN "error" ELSE "value", 0, env)
      [] env[n].kind = "text" -> Outcome("error", 0, env)
      [] OTHER -> Outcome("any", 0, env)

(* The text of a variable as a constant; MIN has none. *)
Constant(v) ==
    IF Len(v.text) = 1 /\ v.text[1] \in DOMAIN Literals THEN {Literals[v.text[1]]}
    ELSE IF v.kind = "decimal" /\ v.n < 0 /\ v.n # MIN THEN {v.n}
    ELSE {}
CDollar(v, env) == Outcome("value", CHOOSE n \in Constant(v) : TRUE, env)

(* at: the variables when the body was expanded *)
RECURSIVE CValue(_, _, _)
CValue(t, env, at) ==
    CASE t.op = "literal" -> Outcome("value", Literals[t.val], env)
      [] t.op = "variable" -> CVariable(t.val, env)
      [] t.op = "dollar" -> CDollar(at[t.val], env)
      [] t.op = "unop" ->
           LET o == CValue(t.kids[1], env, at)
           IN  IF o.k # "value" THEN o
               ELSE IF t.val = "-" THEN CComputed("-", 0, o.n, o.env)
               ELSE IF t.val = "+" THEN o
               ELSE Outcome("value", CHOOSE n \in UnValues(t.val, o.n) : TRUE, o.env)
      [] t.op = "binop" ->
           LET l == CValue(t.kids[1], env, at)
               r == CValue(t.kids[2], l.env, at)
           IN  IF l.k # "value" THEN l
               ELSE IF t.val = "&&" /\ l.n = 0 THEN Outcome("value", 0, l.env)
               ELSE IF t.val = "||" /\ l.n # 0 THEN Outcome("value", 1, l.env)
               ELSE IF r.k # "value" THEN r
               ELSE CComputed(t.val, l.n, r.n, r.env)
      [] t.op = "cond" ->
           LET c == CValue(t.kids[1], env, at)
           IN  IF c.k # "value" THEN c
               ELSE CValue(t.kids[IF c.n # 0 THEN 2 ELSE 3], c.env, at)
      [] t.op = "assign" ->
           LET name == t.kids[1].val
               v == CValue(t.kids[2], env, at)
               cur == CVariable(name, v.env)
           IN  IF v.k # "value" THEN v
               ELSE IF t.val = "none" THEN Stored(name, v)
               ELSE IF cur.k # "value" THEN cur
               ELSE Stored(name, CComputed(t.val, cur.n, v.n, v.env))

RECURSIVE WellFormed(_, _)
WellFormed(t, at) ==
    CASE t.op = "literal" -> t.val \in DOMAIN Literals
      [] t.op = "dollar" -> Constant(at[t.val]) # {}
      [] OTHER -> \A k \in DOMAIN t.kids : WellFormed(t.kids[k], at)

(* An empty body is 0. *)
CMeaning(t, env) ==
    IF t = Empty \/ (t.op = "dollar" /\ CVariable(t.val, env).k = "value"
                     /\ env[t.val].text = <<>>)
    THEN Outcome("value", 0, env)
    ELSE IF ~WellFormed(t, env) THEN Outcome("syntax", 0, env)
    ELSE CValue(t, env, env)

-----------------------------------------------------------------------------
(* The script: assignments of any kind of value, and expansions.           *)

Nothing == [k |-> "none", n |-> 0]

RECURSIVE Dollars(_)
Dollars(t) == IF t.op = "dollar" THEN {t.val} ELSE UNION {Dollars(t.kids[k]) : k \in DOMAIN t.kids}

(* An empty body is 0. *)
IsBlank(text) == \A k \in DOMAIN text : text[k] = " "
ParsedBody(text) == IF IsBlank(text) THEN Lit("0") ELSE Parse(text)

(* What the text without $ is parsed to does not depend on the variables.  *)
Unexpanded == [n \in Names |-> UnsetValue]
Tree == [e \in {e \in Exprs : Dollars(e) = {}} |->
            [sp \in BOOLEAN |-> ParsedBody(Text(e, sp, Unexpanded))]]
Parsed(e, sp) == IF e \in DOMAIN Tree THEN Tree[e][sp] ELSE ParsedBody(Text(e, sp, vars))

SetVariable ==
    /\ result = Nothing
    /\ \E n \in Names, v \in Values : vars' = [vars EXCEPT ![n] = v]
    /\ UNCHANGED <<expr, spaced, result>>

(* run_word on an arithmetic word: the body is expanded, parsed and        *)
(* evaluated.                                                              *)
Unbound(e) == NoUnset /\ \E n \in Dollars(e) : vars[n].kind = "unset"
Outcomes(e, sp) ==
    IF Unbound(e) THEN {Outcome("error", 0, vars)}
    ELSE LET t == Parsed(e, sp)
         IN  IF t = Null THEN {Outcome("syntax", 0, vars)} ELSE Run(t, vars)

Expand ==
    /\ result = Nothing
    /\ \E e \in Exprs, sp \in BOOLEAN :
          /\ expr' = e /\ spaced' = sp
          /\ \E o \in Outcomes(e, sp) : result' = [k |-> o.k, n |-> o.n] /\ vars' = o.env

(* The command that has the word runs; a script does not survive a trap.   *)
UseResult ==
    /\ result \notin {Nothing, [k |-> "trap", n |-> 0]}
    /\ result' = Nothing /\ expr' = Null /\ spaced' = FALSE
    /\ UNCHANGED vars

Init == vars \in [Names -> Values] /\ expr = Null /\ spaced = FALSE /\ result = Nothing
Next == SetVariable \/ Expand \/ UseResult
Spec == Init /\ [][Next]_<<vars, expr, spaced, result>>

-----------------------------------------------------------------------------
(* Properties *)

(* Every expansion, and every variable an expansion assigned, is in the    *)
(* range of long.                                                          *)
TypeOK ==
    /\ \A n \in Names : vars[n].kind \in Kinds /\ vars[n].n \in Longs
    /\ expr \in Exprs \cup {Null} /\ spaced \in BOOLEAN
    /\ result.k \in {"none", "value", "error", "syntax", "trap"} /\ result.n \in Longs

(* An expansion gives the value C gives, and leaves in the variables what  *)
(* C leaves there, wherever C defines it and the variables it names hold   *)
(* decimal numbers, text that is no number, or nothing: the operators bind *)
(* as in C with the parentheses and blanks of Text, $x stands for the      *)
(* constant x had when the expansion began, an empty body is 0, a constant *)
(* C refuses is a syntax error, the variables are read and written in C's  *)
(* order, a division by zero is an error, and nothing is stored then.      *)
ExpandsAsC ==
    [][ result' # Nothing =>
          LET c == CMeaning(expr', vars)
          IN  c.k # "any" => /\ result' = [k |-> c.k, n |-> c.n]
                             /\ vars' = c.env
      ]_<<vars, expr, spaced, result>>
=============================================================================
