---------------------------- MODULE MCWshGetopts ----------------------------
(* Instances of WshGetopts for TLC.  -a is a flag, -b takes an argument,   *)
(* -z is unknown.                                                          *)
EXTENDS WshGetopts

Numbers == {-1, 1, 2, 3}
LettersOf == [w \in Words |->
    CASE w = "-a" -> <<"a">> [] w = "-b" -> <<"b">> [] w = "-bv" -> <<"b", "v">>
      [] w = "-ab" -> <<"a", "b">> [] w = "-z" -> <<"z">> [] OTHER -> <<>>]
TakesArgument == [l \in {"a", "b"} |-> l = "b"]
=============================================================================
