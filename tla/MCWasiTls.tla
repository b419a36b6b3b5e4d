----------------------------- MODULE MCWasiTls -----------------------------
(* Instances of WasiTls for TLC; the bounds are in the .cfg files. *)
EXTENDS WasiTls
=============================================================================
