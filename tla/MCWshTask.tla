----------------------------- MODULE MCWshTask -----------------------------
(* Instances of WshTask for TLC; the bounds are in the .cfg files. *)
EXTENDS WshTask

(* Success, a failure, and the negative int of a guest or an applet that   *)
(* the interpreter takes for an interruption.                              *)
FewStatuses == {0, 1, TASK_STATUS_INTERRUPTED}
=============================================================================
