------------------------------- MODULE MCWget -------------------------------
(* Instances of Wget for TLC.  A document that is replaced by shorter   *)
(* versions.                                                               *)
EXTENDS Wget

Shrinking == <<3, 2, 0>>
=============================================================================
