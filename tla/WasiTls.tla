------------------------------ MODULE WasiTls ------------------------------
(***************************************************************************)
(* TLS inside the single wasm process.  wasi_tls_glue.c runs the handshake *)
(* on the network descriptor and keeps the connection in globals;          *)
(* wasi_stubs.c wraps read, write and close so that the descriptor looks   *)
(* like a plain one; networking/tls.c frames records in tls->inbuf.        *)
(*                                                                         *)
(* The wire carries cells: a record is a type cell, a length cell (the     *)
(* RECHDR_LEN bytes of its header) and its payload, encrypted ones between *)
(* an iv and a mac cell.  Ciphers are left out: decryption drops the iv    *)
(* and the mac and moves the plaintext over the iv, as the code does.      *)
(***************************************************************************)
EXTENDS Integers, Sequences, FiniteSets

CONSTANTS
    MAX_INBUF,       \* cells of tls->inbuf
    TLS_MAX_OUTBUF,  \* bytes tls_get_outbuf can give
    Counts,          \* byte counts of the application's reads and writes
    MaxConns,        \* bound: connections of one wsh process
    MaxRecords,      \* bound: records after or between the handshake's
    Window,          \* bound: the server waits while more cells are on the wire
    DataSizes,       \* bytes of application data in a record: 0 is allowed
    MaxWrites,       \* bound: writes on a connection
    ServerMay,       \* what else the server does: a subset of ServerActs
    AfterDeath       \* the calls after whose death the script may connect again

ServerActs == {"warning", "undefined", "hello_request", "fatal", "long", "cut", "reset"}
Calls == {"handshake", "read", "write"}

ASSUME SizesAssumption ==
    /\ MAX_INBUF \in Nat /\ MAX_INBUF >= 8
    /\ TLS_MAX_OUTBUF \in Nat
    /\ Counts \subseteq Nat \ {0}
    /\ DataSizes \subseteq 0..(MAX_INBUF - 4)
ASSUME BoundsAssumption ==
    MaxConns \in Nat /\ MaxRecords \in Nat /\ MaxWrites \in Nat /\ Window \in Nat
ASSUME ServerAssumption == ServerMay \subseteq ServerActs /\ AfterDeath \subseteq Calls

VARIABLES
    pc,          \* where the client is: a handshake step, "idle", "read"
    fd,          \* descriptor of the current connection, 0 before the first
    count,       \* the argument of the read in progress
    g_tls_fd,    \* descriptor TLS is active on, 0 for -1
    in_read,     \* g_tls_in_read
    in_write,    \* g_tls_in_write
    read_pos,    \* g_tls_read_pos
    read_avail,  \* g_tls_read_avail
    tls,         \* *g_tls
    net,         \* the server, the cells on their way and what went out
    status,      \* of the current connection, as its user sees it
    got,         \* history: what the reads of this connection returned
    died         \* history: the calls that died, on any connection

vars == <<pc, fd, count, g_tls_fd, in_read, in_write, read_pos, read_avail,
          tls, net, status, got, died>>

-----------------------------------------------------------------------------
(* Cells and records *)

RECHDR_LEN == 2
IvLen == 1
MacLen == 1
Byte(i) == <<"byte", i>>
Msg(m) == <<"msg", m>>
Iv == <<"iv", 0>>
Mac == <<"mac", 0>>

Record(t, payload, enc) ==
    LET body == IF enc THEN <<Iv>> \o payload \o <<Mac>> ELSE payload
    IN  <<<<"type", t>>, <<"len", Len(body)>>>> \o body

MinOf(a, b) == IF a <= b THEN a ELSE b

-----------------------------------------------------------------------------
(* external: the server.  net.stage is the next thing it sends; wire holds *)
(* the cells the client has not read; sent counts the data bytes.          *)

NewNet == [stage |-> "server_hello", wire |-> <<>>, closed |-> FALSE, sent |-> 0,
           records |-> 0, clear |-> FALSE, writes |-> 0]

Encrypting(s) == s \in {"finished", "data"}
Push(t, payload) ==
    [net EXCEPT !.wire = @ \o Record(t, payload, Encrypting(net.stage))]

Extra(t, payload) == [Push(t, payload) EXCEPT !.records = @ + 1]

ServerMessages ==
    [server_hello |-> "certificate", certificate |-> "server_key_exchange",
     server_key_exchange |-> "certificate_request",
     certificate_request |-> "server_hello_done",
     server_hello_done |-> "change_cipher_spec", change_cipher_spec |-> "finished",
     finished |-> "data"]
Optional == {"server_key_exchange", "certificate_request"}

Connected == fd # 0 /\ status = "open" /\ ~net.closed /\ Len(net.wire) <= Window

(* The next handshake message; ChangeCipherSpec answers the client's own   *)
(* flight; the optional ones may be skipped.                               *)
ServerHandshake ==
    /\ Connected /\ net.stage \in DOMAIN ServerMessages
    /\ net.stage = "change_cipher_spec" => pc \notin {"server_hello", "certificate",
          "server_key_exchange", "certificate_request", "server_hello_done"}
    /\ LET m == net.stage
           t == IF m = "change_cipher_spec" THEN "ccs" ELSE "handshake"
           next == ServerMessages[m]
       IN  \/ net' = [Push(t, <<Msg(m)>>) EXCEPT !.stage = next]
           \/ /\ m \in Optional
              /\ net' = [net EXCEPT !.stage = next]
    /\ UNCHANGED <<pc, fd, count, g_tls_fd, in_read, in_write, read_pos,
                   read_avail, tls, status, got, died>>

OtherRecords ==
    [long |-> Extra("data", [i \in 1..MAX_INBUF |-> Byte(0)]),
     hello_request |-> Extra("handshake", <<Msg("hello_request")>>),
     warning |-> Extra("alert", <<Msg("warning")>>),
     undefined |-> Extra("alert", <<Msg("undefined")>>),
     fatal |-> Extra("alert", <<Msg("fatal")>>)]

(* Application data, and what else a server may send. *)
ServerSends ==
    /\ Connected /\ net.records < MaxRecords
    /\ \/ /\ net.stage = "data"
          /\ \E n \in DataSizes :
                net' = [Extra("data", [i \in 1..n |-> Byte(net.sent + i)])
                        EXCEPT !.sent = @ + n]
       \/ /\ net.stage # "plain"
          /\ net' \in {OtherRecords[a] : a \in DOMAIN OtherRecords \cap ServerMay}
       \/ /\ net.stage = "plain"
          /\ \E n \in DataSizes \ {0} :
                net' = [net EXCEPT !.wire = @ \o [i \in 1..n |-> Byte(net.sent + i)],
                                   !.records = @ + 1, !.sent = @ + n]
    /\ UNCHANGED <<pc, fd, count, g_tls_fd, in_read, in_write, read_pos,
                   read_avail, tls, status, got, died>>

(* close_notify and FIN, FIN alone, or FIN in the middle of a record. *)
ServerCloses ==
    /\ Connected
    /\ \/ /\ net.stage # "plain"
          /\ net' = [Push("alert", <<Msg("close_notify")>>) EXCEPT !.closed = TRUE]
       \/ net.stage \in {"data", "plain"} /\ net' = [net EXCEPT !.closed = TRUE]
       \/ /\ "cut" \in ServerMay /\ net.stage # "plain"
          /\ LET r == Record("data", <<Byte(0)>>, Encrypting(net.stage))
             IN  \E n \in 1..(Len(r) - 1) :
                    net' = [net EXCEPT !.wire = @ \o SubSeq(r, 1, n), !.closed = TRUE]
    /\ UNCHANGED <<pc, fd, count, g_tls_fd, in_read, in_write, read_pos,
                   read_avail, tls, status, got, died>>

-----------------------------------------------------------------------------
(* A connection of wget: over TLS, or a plain one.  wasi_tls_setup makes a *)
(* new tls_state, then the handshake; g_tls_fd and the read buffer are set *)
(* only when it is complete.                                               *)

NewTls == [inbuf |-> <<>>, inbuf_size |-> 0, ofs_to_buffered |-> 0,
           buffered_size |-> 0, encrypted |-> FALSE]

Connect ==
    /\ pc = "none" /\ fd < MaxConns
    /\ died \subseteq AfterDeath
    /\ fd' = fd + 1
    /\ \/ pc' = "server_hello" /\ net' = NewNet /\ tls' = NewTls
       \/ /\ pc' = "idle" /\ net' = [NewNet EXCEPT !.stage = "plain"]
          /\ UNCHANGED tls
    /\ status' = "open" /\ got' = <<>>
    /\ UNCHANGED <<count, g_tls_fd, in_read, in_write, read_pos, read_avail, died>>

(* bb_error_msg_and_die: die_func jumps back to run_process of the shell   *)
(* (simple_command.c); nothing else of the state is undone.                *)
Die ==
    /\ pc' = "none" /\ status' = "failed"
    /\ died' = died \cup {IF pc = "read" THEN "read" ELSE "handshake"}
    /\ UNCHANGED <<fd, count, g_tls_fd, in_read, in_write, read_pos, read_avail,
                   tls, got>>

-----------------------------------------------------------------------------
(* tls_xread_record.  While the client is inside, tls.inbuf holds the      *)
(* `total` cells read so far.                                              *)

Handshaking == {"server_hello", "certificate", "server_key_exchange",
                "certificate_request", "server_hello_done", "change_cipher_spec",
                "finished"}
Reading == pc \in Handshaking \cup {"read"}

(* The start of it, and of the next turn of "goto again": what is buffered *)
(* moves to the front.                                                     *)
Rewind(t) ==
    [t EXCEPT !.inbuf = SubSeq(@, t.ofs_to_buffered + 1,
                                  t.ofs_to_buffered + t.buffered_size)]

Total == Len(tls.inbuf)
HaveHeader == Total >= RECHDR_LEN
Target == IF HaveHeader THEN RECHDR_LEN + tls.inbuf[2][2] ELSE MAX_INBUF
TooLong == HaveHeader /\ Target > MAX_INBUF
HaveRecord == HaveHeader /\ Total >= Target

(* The buffer grows only when it is full. *)
GrownSize_late == IF tls.inbuf_size < Total    \* mutant
                  THEN MinOf(tls.inbuf_size + MAX_INBUF \div 8, MAX_INBUF)
                  ELSE tls.inbuf_size
GrownSize == IF tls.inbuf_size = Total
             THEN MinOf(tls.inbuf_size + MAX_INBUF \div 8, MAX_INBUF)
             ELSE tls.inbuf_size
Room == GrownSize - Total

XReadRaw ==
    /\ Reading /\ ~TooLong /\ ~HaveRecord
    /\ \E sz \in 1..MinOf(Room, Len(net.wire)) :
          /\ tls' = [tls EXCEPT !.inbuf = @ \o SubSeq(net.wire, 1, sz),
                                !.inbuf_size = GrownSize]
          /\ net' = [net EXCEPT !.wire = SubSeq(@, sz + 1, Len(@))]
    /\ UNCHANGED <<pc, fd, count, g_tls_fd, in_read, in_write, read_pos,
                   read_avail, status, got, died>>

(* sz < 0: the connection is reset; or there is nothing to read yet        *)
(* (EAGAIN), which __wrap_read waits out only while g_tls_in_read is set,  *)
(* so not for the handshake.  A blocking host makes the handshake wait.    *)
XReadError ==
    /\ Reading /\ ~TooLong /\ ~HaveRecord
    /\ \/ "reset" \in ServerMay
       \/ pc \in Handshaking /\ net.wire = <<>> /\ ~net.closed
    /\ Die
    /\ UNCHANGED net

(* The read returns 0 to its caller. *)
ReturnEof ==
    /\ pc' = "idle" /\ status' = "eof"
    /\ in_read' = FALSE
    /\ UNCHANGED <<fd, count, g_tls_fd, in_write, read_pos, read_avail, got, died>>

(* safe_read returns 0: at a record boundary that is end of file for       *)
(* wasi_tls_read, and a bad record for the handshake; elsewhere it dies.   *)
XReadEof_atBoundaryOnly ==    \* mutant
    /\ Reading /\ Total = 0
    /\ net.closed /\ net.wire = <<>>
    /\ IF pc = "read"
       THEN tls' = [tls EXCEPT !.buffered_size = 0, !.inbuf_size = GrownSize] /\ ReturnEof
       ELSE Die
    /\ UNCHANGED net
XReadEof ==
    /\ Reading /\ ~TooLong /\ ~HaveRecord
    /\ net.closed /\ net.wire = <<>>
    /\ IF Total = 0 /\ pc = "read"
       THEN tls' = [tls EXCEPT !.buffered_size = 0, !.inbuf_size = GrownSize] /\ ReturnEof
       ELSE Die
    /\ UNCHANGED net

(* Decryption in place: the iv is overwritten, the mac dropped. *)
RecType == tls.inbuf[1][2]
Plain == IF tls.encrypted
         THEN SubSeq(tls.inbuf, RECHDR_LEN + IvLen + 1, Target - MacLen)
         ELSE SubSeq(tls.inbuf, RECHDR_LEN + 1, Target)
TooShort == tls.encrypted /\ Target - RECHDR_LEN < IvLen + MacLen

Buffered_swapped == Target - Total    \* mutant
Buffered == Total - Target

Decrypted ==
    [tls EXCEPT !.inbuf = SubSeq(@, 1, RECHDR_LEN) \o Plain
                          \o SubSeq(@, RECHDR_LEN + Len(Plain) + 1, Total),
                !.buffered_size = Buffered,
                !.ofs_to_buffered = Target]

IsMsg(m) == Len(Plain) > 0 /\ Plain[1] = Msg(m)
Alert(a) == RecType = "alert" /\ IsMsg(a)

(* tls_handshake: each record must be the next message, the optional ones  *)
(* apart.                                                                  *)
AfterHandshakeRecord ==
    LET next(m) == IF m = "finished" THEN "idle" ELSE ServerMessages[m]
        ms == CASE pc = "server_key_exchange" ->
                     {"server_key_exchange", "certificate_request", "server_hello_done"}
                [] pc = "certificate_request" ->
                     {"certificate_request", "server_hello_done"}
                [] OTHER -> {pc}
    IN  {next(m) : m \in {m \in ms : IsMsg(m)}}

XHandshakeRecord ==
    /\ pc \in Handshaking /\ HaveRecord /\ ~TooLong /\ ~TooShort
    /\ ~Alert("fatal") /\ ~Alert("warning")
    /\ LET t == IF pc = "change_cipher_spec" THEN "ccs" ELSE "handshake"
       IN  IF RecType = t /\ AfterHandshakeRecord # {}
           THEN \E p \in AfterHandshakeRecord :
                  /\ pc' = p
                  /\ tls' = IF p = "idle" THEN Decrypted
                            ELSE [Rewind(Decrypted) EXCEPT !.encrypted = (p = "finished")]
                  /\ g_tls_fd' = IF p = "idle" THEN fd ELSE g_tls_fd
                  /\ read_pos' = IF p = "idle" THEN 0 ELSE read_pos
                  /\ read_avail' = IF p = "idle" THEN 0 ELSE read_avail
                  /\ UNCHANGED <<fd, count, in_read, in_write, status, got, died>>
           ELSE Die
    /\ UNCHANGED net

(* The copy of plaintext out of inbuf; _TLS_RECHDR_LEN is the glue's own.  *)
CopyOut_fromStart(t, pos, n) == SubSeq(t.inbuf, RECHDR_LEN + 1, RECHDR_LEN + n)    \* mutant
CopyOut(t, pos, n) == SubSeq(t.inbuf, RECHDR_LEN + pos + 1, RECHDR_LEN + pos + n)

(* wasi_tls_read with a complete record, whatever its type; nread < 1, an  *)
(* empty record, is taken for the end of file                              *)
ReturnData ==
    /\ LET empty == Plain = <<>>
           n == MinOf(count, Len(Plain))
       IN  /\ got' = got \o CopyOut(Decrypted, 0, n)
           /\ read_avail' = IF empty THEN read_avail ELSE Len(Plain)
           /\ read_pos' = IF empty THEN read_pos ELSE n
           /\ status' = IF empty THEN "eof" ELSE status
    /\ tls' = Decrypted
    /\ pc' = "idle" /\ in_read' = FALSE
    /\ UNCHANGED <<fd, count, g_tls_fd, in_write, died>>

(* A handshake record is hashed first, but tls_handshake freed tls->hsd    *)
(* and left NULL: the hash state at address 0 either takes the record, or  *)
(* its call through a null process_block traps, which ends everything (as  *)
(* a read that dies and after which nothing follows).                      *)
XDataRecord ==
    /\ pc = "read" /\ HaveRecord /\ ~TooLong /\ ~TooShort /\ RecType # "alert"
    /\ ReturnData \/ (RecType = "handshake" /\ Die)
    /\ UNCHANGED net

XAlertRecord ==
    /\ Reading /\ HaveRecord /\ ~TooLong /\ ~TooShort /\ RecType = "alert"
    /\ \/ Alert("fatal") /\ Die
       \/ /\ Alert("warning")
          /\ tls' = Rewind(Decrypted)
          /\ UNCHANGED <<pc, fd, count, g_tls_fd, in_read, in_write, read_pos,
                         read_avail, status, got, died>>
       \/ /\ pc = "read" /\ (Alert("close_notify") \/ Alert("undefined"))
          /\ tls' = Decrypted /\ ReturnEof
    /\ UNCHANGED net

XBadRecord ==
    /\ Reading
    /\ TooLong \/ (HaveRecord /\ TooShort)
    /\ Die
    /\ UNCHANGED net

-----------------------------------------------------------------------------
(* __wrap_read, __wrap_write and __wrap_close on the connection *)

IsActive == g_tls_fd = fd

(* wasi_tls_read: the rest of the last record, or the start of the next    *)
AppRead ==
    /\ pc = "idle" /\ status = "open" /\ IsActive /\ ~in_read
    /\ \E c \in Counts :
          IF read_pos < read_avail
          THEN LET n == MinOf(c, read_avail - read_pos)
               IN  /\ got' = got \o CopyOut(tls, read_pos, n)
                   /\ read_pos' = read_pos + n
                   /\ UNCHANGED <<pc, count, in_read, tls>>
          ELSE /\ in_read' = TRUE
               /\ pc' = "read" /\ count' = c
               /\ tls' = Rewind(tls)
               /\ UNCHANGED <<got, read_pos>>
    /\ UNCHANGED <<fd, g_tls_fd, in_write, read_avail, net, status, died>>

(* __real_read: on a plain descriptor, and when the flag says that the     *)
(* caller is TLS itself                                                    *)
AppReadRaw ==
    /\ pc = "idle" /\ status = "open" /\ (in_read \/ ~IsActive)
    /\ \/ \E n \in {MinOf(c, Len(net.wire)) : c \in Counts} \ {0} :
             /\ got' = got \o SubSeq(net.wire, 1, n)
             /\ net' = [net EXCEPT !.wire = SubSeq(@, n + 1, Len(@))]
             /\ UNCHANGED status
       \/ /\ net.closed /\ net.wire = <<>>
          /\ status' = "eof"
          /\ UNCHANGED <<net, got>>
    /\ UNCHANGED <<pc, fd, count, g_tls_fd, in_read, in_write, read_pos,
                   read_avail, tls, died>>

LeaveWrite_forgotten == in_write' = TRUE    \* mutant
LeaveWrite == in_write' = FALSE

(* wasi_tls_write; net.clear records that something went out unencrypted.  *)
(* Dies when the bytes do not fit, or when the peer does not take them.    *)
AppWrite ==
    /\ pc = "idle" /\ status = "open" /\ net.writes < MaxWrites
    /\ \E c \in Counts :
          IF in_write \/ ~IsActive
          THEN /\ net' = [net EXCEPT !.clear = TRUE, !.writes = @ + 1]
               /\ UNCHANGED <<pc, in_write, status, died>>
          ELSE \/ /\ c <= TLS_MAX_OUTBUF
                  /\ net' = [net EXCEPT !.writes = @ + 1]
                  /\ LeaveWrite
                  /\ UNCHANGED <<pc, status, died>>
               \/ /\ c > TLS_MAX_OUTBUF \/ net.closed
                  /\ in_write' = TRUE
                  /\ pc' = "none" /\ status' = "failed" /\ died' = died \cup {"write"}
                  /\ net' = [net EXCEPT !.writes = @ + 1]
    /\ UNCHANGED <<fd, count, g_tls_fd, in_read, read_pos, read_avail, tls, got>>

AppClose ==
    /\ pc = "idle"
    /\ IF IsActive
       THEN g_tls_fd' = 0 /\ read_pos' = 0 /\ read_avail' = 0
       ELSE UNCHANGED <<g_tls_fd, read_pos, read_avail>>
    /\ pc' = "none" /\ status' = "none"
    /\ UNCHANGED <<fd, count, in_read, in_write, tls, net, got, died>>

-----------------------------------------------------------------------------
Init ==
    /\ pc = "none" /\ fd = 0 /\ count = 0 /\ g_tls_fd = 0
    /\ in_read = FALSE /\ in_write = FALSE
    /\ read_pos = 0 /\ read_avail = 0
    /\ tls = NewTls /\ net = NewNet
    /\ status = "none" /\ got = <<>> /\ died = {}

Client == \/ Connect \/ XReadRaw \/ XReadEof \/ XHandshakeRecord \/ XDataRecord
          \/ XAlertRecord \/ XBadRecord
App == AppRead \/ AppReadRaw \/ AppWrite \/ AppClose
Server == ServerHandshake \/ ServerSends \/ ServerCloses

Next == Client \/ App \/ Server \/ XReadError

Spec == Init /\ [][Next]_vars

(* The client goes on as long as it can; the server and the application    *)
(* need not, and no read has to fail.                                      *)
FairSpec == Spec /\ WF_vars(Client)

-----------------------------------------------------------------------------
(* Properties *)

Stream == INSTANCE ByteStream WITH sent <- net.sent

Messages == DOMAIN ServerMessages
            \cup {"hello_request", "warning", "undefined", "fatal", "close_notify"}
Cell == ({"type"} \X {"data", "handshake", "ccs", "alert"}) \cup ({"len", "byte"} \X Nat)
        \cup ({"msg"} \X Messages) \cup {Iv, Mac}

(* Every variable keeps its type. *)
TypeOK ==
    /\ pc \in Handshaking \cup {"none", "idle", "read"}
    /\ fd \in 0..MaxConns /\ g_tls_fd \in 0..MaxConns
    /\ count \in Counts \cup {0}
    /\ in_read \in BOOLEAN /\ in_write \in BOOLEAN
    /\ read_pos \in Nat /\ read_avail \in Nat
    /\ tls \in [inbuf : Seq(Cell), inbuf_size : Nat, ofs_to_buffered : Nat,
                buffered_size : Nat, encrypted : BOOLEAN]
    /\ net \in [stage : DOMAIN ServerMessages \cup {"data", "plain"}, wire : Seq(Cell),
                closed : BOOLEAN, sent : Nat, records : 0..MaxRecords,
                clear : BOOLEAN, writes : 0..MaxWrites]
    /\ status \in {"none", "open", "eof", "failed"}
    /\ got \in Seq(Cell)
    /\ died \subseteq Calls

(* For its reader a TLS connection, or a plain one opened after it, is no  *)
(* different from a plain descriptor: every byte once, in order, and end   *)
(* of file after the last one, however read(2), the records of the peer    *)
(* and the counts of the reader cut the stream.                            *)
PlainDescriptor == Stream!Spec

(* tls_xread_record never asks for zero bytes, which would look like an    *)
(* end of file, and never for more than tls->inbuf has room for.           *)
BufferSpace ==
    /\ Reading /\ ~TooLong /\ ~HaveRecord => Room > 0
    /\ Total <= tls.inbuf_size /\ tls.inbuf_size <= MAX_INBUF

(* Nothing is written to a TLS connection unencrypted, unless a write has  *)
(* died before: that one leaves g_tls_in_write set for the rest of the wsh *)
(* process, and what the next HTTPS connection writes goes out in clear.   *)
(* A handshake or a read that died, or whatever is closed and opened       *)
(* again, has no such effect.                                              *)
NothingInClear == net.clear /\ net.stage # "plain" => "write" \in died

(* A read in progress, of the application or of the handshake, returns or  *)
(* dies when the peer closes the connection.                               *)
ReadReturns == (Reading /\ net.closed) ~> ~Reading
=============================================================================
