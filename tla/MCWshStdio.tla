----------------------------- MODULE MCWshStdio -----------------------------
(* Instances of WshStdio for TLC.  Nestings that the .cfg files name: all  *)
(* of them; those without a pipeline or a command substitution in a stage  *)
(* of a pipeline and without a guest in a substitution.                    *)
EXTENDS WshStdio

AllNestings == Constructs \X ((Constructs \ {"top"}) \cup {"guest"})
NothingInStage ==
    AllNestings \ {<<"pipe", "pipe">>, <<"pipe", "word">>, <<"word", "guest">>}
=============================================================================
