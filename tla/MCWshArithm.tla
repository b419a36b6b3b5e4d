---------------------------- MODULE MCWshArithm ----------------------------
(* Instances of WshArithm for TLC: five-bit integers, every pair of        *)
(* operators, and the other kinds of node around and inside a binary one.  *)
EXTENDS WshArithm

LiteralValues == [s \in {Digits(n) : n \in 0..MAX} \cup {"010"} |->
                    IF s = "010" THEN 8 ELSE CHOOSE n \in 0..MAX : Digits(n) = s]
Refused == {"08", Digits(MAX + 1)}
SomeValues ==
    {Number(n) : n \in {MIN, -1, 0, 3}}
    \cup {Value("other", 10, <<"010">>), Value("other", 1, <<"1", ".5">>),
          Value("large", 0, <<Digits(MAX + 1)>>), Value("text", 0, <<"@">>), UnsetValue}

Leaves == {Lit("2"), Lit("7")} \cup {Var(n) : n \in Names}
Strict == Multiplicative \cup Additive \cup {"<<", ">>", "<", "<=", ">", ">=", "==", "!=",
                                             "&", "^", "|"}
AllOps == Strict \cup {"&&", "||"}
OneOp == {Bin(op, l, r) : op \in Strict, l \in Leaves, r \in Leaves}
         \cup {Bin(op, l, Lit("2")) : op \in {"&&", "||"}, l \in Leaves}
SomeOp == {Bin(op, Var("x"), Lit("7")) : op \in AllOps}
Strange == {Un(op, Var("x")) : op \in {"-", "~", "!"}}
           \cup {Assign("x", op, Lit("2")) : op \in {"none", "+", "/", "<<"}}
           \cup {Cond(Var("x"), Lit("2"), Lit("7"))}

(* The right operand of && and || is evaluated in any case: one that does  *)
(* not fail.                                                               *)
Safe == {Bin(op, Lit("7"), Lit("2")) : op \in AllOps \ {"/", "%"}}
PairsOfOps ==
    OneOp \cup {Bin(op, l, Lit("2")) : op \in AllOps, l \in SomeOp}
    \cup {Bin(op, Bin("/", Var("x"), Lit("7")), Var("x")) : op \in Strict}
    \cup {Bin(op, Lit("7"), r) : op \in Strict, r \in SomeOp}
    \cup {Bin(op, Var("x"), r) : op \in {"&&", "||"}, r \in Safe}
AroundOps ==
    Strange \cup {Bin(op, l, Lit("2")) : op \in AllOps, l \in Strange}
    \cup {Bin(op, Var("x"), r) : op \in Strict, r \in Strange}
    \cup {Un(op, t) : op \in {"-", "~", "!"}, t \in SomeOp \cup Strange}
    \cup {Assign("x", op, t) : op \in {"none", "%", "|"}, t \in SomeOp \cup Strange}
    \cup {Cond(c, Lit("2"), Lit("7")) : c \in SomeOp \cup Strange}
    \cup {Cond(Var("x"), Lit("2"), e) : e \in SomeOp \cup Strange}

(* Bodies with $x, at the end, and with constants that are refused, and    *)
(* bodies with nothing in them.                                            *)
Bodies ==
    {Empty, Dollar("x"), Lit("08"), Lit("010")}
    \cup {Bin(op, Lit("7"), r) : op \in Strict, r \in {Dollar("x"), Lit("08"), Lit("010")}}
    \cup {Bin(op, Lit("08"), Lit("2")) : op \in Strict}
    \cup {Bin(op, Assign("x", "none", Lit("2")), Dollar("x")) : op \in Strict}
    \cup {Assign("x", op, Dollar("x")) : op \in {"none", "+", "<<"}}
Supported == PairsOfOps \cup AroundOps \cup Bodies
=============================================================================
