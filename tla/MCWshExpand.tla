---------------------------- MODULE MCWshExpand ----------------------------
(* Instances of WshExpand for TLC.  No part in double quotes comes before  *)
(* an unquoted parameter, and no value begins with a colon.                *)
EXTENDS WshExpand

a == <<"a">>
ab == <<"a", " ", "b">>
SomeValues == {<<>>, ab, <<"b", ":", "*">>}
SomeParams == {<<ab, <<>>>>}
ColonSpace == <<":", " ">>

Plain(s) == Lit(s, "none")
V(n, q) == Par(n, q, "none", FALSE, <<>>)
Star == Plain(<<"*">>)

(* What libc makes of a bracket expression without ranges and classes. *)
OneOf(content, c) ==
    LET out == content[1] \in {"!", "^"}
    IN  (c \in ToSet(IF out THEN Tail(content) ELSE content)) # out

Conditional ==
    {Par("x", q, op, colon, arg) : q \in {"none", "double"}, op \in CondOps \ {"none"},
        colon \in BOOLEAN,
        arg \in {<<Plain(ab)>>, <<Lit(ab, "single"), V("y", "none")>>}}
DoubleQuoted == {Par("x", "none", op, TRUE, <<Plain(a), V("y", "double")>>) : op \in {"-", "=", "+"}}
Trimming ==
    {Par("x", "none", "%", FALSE, <<Plain(<<"?">>)>>),
     Par("x", "none", "%%", FALSE, <<Plain(<<" ">>), Star>>),
     Par("x", "none", "%%", FALSE, <<Star, Plain(a)>>),
     Par("x", "none", "%", FALSE, <<Plain(<<"[", "!", "a", "]">>), Lit(<<"*">>, "single")>>),
     Par("x", "none", "#", FALSE, <<Plain(<<"[", "a", "b">>), Plain(<<"]", "?">>)>>),
     Par("x", "none", "#", FALSE, <<Plain(a), Star>>),
     Par("x", "none", "##", FALSE, <<Star, Plain(<<" ">>)>>)}
    \cup {Par("x", "none", op, FALSE, <<V("y", q)>>) : op \in {"%", "%%"}, q \in {"none", "double"}}
Length == Par("x", "none", "length", FALSE, <<>>)
At == {V("@", "none"), V("@", "double")}
Tails == {V("y", "none"), V("y", "double"), Lit(<<" ">>, "single"), Plain(a)}

Unquoted == {p \in Conditional \cup Trimming \cup {Length} \cup At
                   \cup {V("x", "none"), Plain(a), Lit(<<>>, "single")} :
             p.q # "double" \/ p.n = "@"}
Arguments == {<<p>> : p \in Conditional \cup DoubleQuoted \cup Unquoted \cup Tails}
             \cup {<<p, r>> : p \in Unquoted, r \in Tails \cup At}
             \cup {<<V("y", "none"), p>> : p \in Conditional \cup DoubleQuoted}

RightSides ==
    {<<Plain(a)>>, <<V("x", "none")>>, <<Par("y", "none", "=", TRUE, <<Lit(ab, "double")>>)>>,
     <<Par("x", "none", "%%", FALSE, <<Plain(<<" ">>), Star>>)>>}

CasePatterns ==
    {<<V("y", "none")>>, <<V("y", "double"), Star>>, <<Lit(<<"\\">>, "single"), Star>>}
=============================================================================
