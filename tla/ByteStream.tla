----------------------------- MODULE ByteStream -----------------------------
(***************************************************************************)
(* What a network descriptor promises its reader: the bytes the peer       *)
(* wrote, in order, each once, and end of file only after the last of      *)
(* them.  wasi/wasi_tls_glue.c:8 claims a TLS connection is no different   *)
(* from a plain descriptor for its reader; WasiTls is shown to implement   *)
(* this module.  The peer's bytes are numbered, so that byte i of a        *)
(* connection is Byte(i).                                                  *)
(***************************************************************************)
EXTENDS Integers, Sequences

VARIABLES
    status,   \* of the current connection
    sent,     \* how many bytes the peer wrote
    got       \* what read() returned so far

vars == <<status, sent, got>>

Byte(i) == <<"byte", i>>

Init == status = "none" /\ sent = 0 /\ got = <<>>

(* connect(), and whatever it takes until data can be read *)
Open ==
    /\ status # "open"
    /\ status' = "open" /\ sent' = 0 /\ got' = <<>>

PeerWrites ==
    /\ sent' \in Nat /\ sent' >= sent
    /\ UNCHANGED <<status, got>>

Read ==
    /\ status = "open"
    /\ \E k \in (Len(got) + 1)..sent :
          got' = got \o [i \in 1..(k - Len(got)) |-> Byte(Len(got) + i)]
    /\ UNCHANGED <<status, sent>>

(* read() returns 0 *)
Eof ==
    /\ status \in {"open", "eof"}
    /\ Len(got) = sent
    /\ status' = "eof"
    /\ UNCHANGED <<sent, got>>

(* the connection fails, or is closed *)
End ==
    /\ status' \in {"failed", "none"}
    /\ UNCHANGED <<sent, got>>

Next == Open \/ PeerWrites \/ Read \/ Eof \/ End

Spec == Init /\ [][Next]_vars
=============================================================================
