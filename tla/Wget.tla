-------------------------------- MODULE Wget --------------------------------
(***************************************************************************)
(* wget (networking/wget.c) as configs/wasm_defconfig builds it: HTTP and  *)
(* HTTPS, no FTP, no timeout.  A download asks, follows redirections,      *)
(* reads the headers, copies the body to a file and exits; with -c it      *)
(* continues a file that an earlier run left incomplete.                   *)
(*                                                                         *)
(* The server is external.  Its document exists in versions; byte i of     *)
(* version v is <<v, i>>.  It answers a request with a response whose      *)
(* framing (Content-Length, chunks, or the end of the connection) is       *)
(* right, and may break the connection off at any point, in the middle of  *)
(* a line as well.                                                         *)
(***************************************************************************)
EXTENDS Integers, Sequences, FiniteSets

CONSTANTS
    Length,       \* Length[v]: the bytes of version v of the document
    BufSize,      \* sizeof(G.wget_buf)
    RedirLimit,   \* redir_limit of download_one_url, 16
    MaxRuns,      \* bound: runs of wget on the same file
    MaxInterim,   \* bound: interim responses before an answer
    ServerMay     \* what the server does: a subset of ServerActs

ServerActs == {"range", "chunked", "close", "redirect", "redirect_length",
               "no_location", "continue", "error", "cut", "padded", "update"}

Versions == 1..Len(Length)

ASSUME LengthAssumption == Length \in Seq(Nat) /\ Length # <<>>
ASSUME SizesAssumption == BufSize \in Nat \ {0} /\ RedirLimit \in Nat \ {0}
ASSUME RunsAssumption == MaxRuns \in Nat /\ MaxInterim \in Nat
ASSUME ServerAssumption == ServerMay \subseteq ServerActs

VARIABLES
    pc,           \* where download_one_url is
    opt,          \* the command line: c for -c, o for -O FILE
    runs,         \* runs started
    file,         \* the output file: NoFile, or its bytes
    fd,           \* G.output_fd: -1, or 1 when the file is open
    pos,          \* offset of output_fd
    beg_range,    \* G.beg_range
    got_clen,     \* G.got_clen
    content_len,  \* G.content_len
    chunked,      \* G.chunked
    redir_limit,
    resp,         \* external: what the server still has to send
    version,      \* external: the version of the document it serves
    why,          \* history: why the last run died
    torn          \* history: this run took part of a Location, or of the size of
                  \* a chunk, for the whole

vars == <<pc, opt, runs, file, fd, pos, beg_range, got_clen, content_len,
          chunked, redir_limit, resp, version, why, torn>>

NoFile == <<<<0, 0>>>>
Document(v) == [i \in 1..Length[v] |-> <<v, i>>]
Page == <<<<0, 1>>>>      \* the body of a response that is not the document
Exists == file # NoFile

MinOf(a, b) == IF a <= b THEN a ELSE b

-----------------------------------------------------------------------------
(* external: the responses to a request.  hdrs are the headers wget looks  *)
(* at, in their order; framed: the client can tell a complete body; chunk  *)
(* is what is left of the current chunk; interim: the interim responses    *)
(* ("100 Continue", or a status line without a number) that come first;    *)
(* cut: nothing more comes, except, if part, a piece of the line that is   *)
(* due.                                                                    *)

Response(status, hdrs, body) ==
    [status |-> status, hdrs |-> hdrs, body |-> body, chunk |-> 0, cut |-> FALSE,
     part |-> FALSE, interim |-> 0,
     framed |-> {hdrs[i] : i \in DOMAIN hdrs} \cap {"length", "chunked"} # {}]

Framings == {<<"length">>} \cup (IF "chunked" \in ServerMay THEN {<<"chunked">>} ELSE {})
            \cup (IF "close" \in ServerMay THEN {<<>>} ELSE {})

Redirections ==
    (IF "redirect" \in ServerMay THEN {<<"location">>, <<"location", "length">>} ELSE {})
    \cup (IF "redirect_length" \in ServerMay THEN {<<"length", "location">>} ELSE {})
    \cup (IF "no_location" \in ServerMay THEN {<<"length">>} ELSE {})

(* to the URL that was asked for *)
Answers ==
    {Response(200, h, Document(version)) : h \in Framings}
    \cup {Response(302, h, Page) : h \in Redirections}
    \cup (IF "range" \in ServerMay /\ beg_range # 0
          THEN IF beg_range < Length[version]
               THEN {Response(206, h, SubSeq(Document(version), beg_range + 1,
                                             Length[version])) : h \in Framings}
               ELSE {Response(416, <<>>, <<>>)}
          ELSE {})
    \cup (IF "error" \in ServerMay THEN {Response(404, <<"length">>, Page)} ELSE {})

(* and to the one a piece of a Location names, which is another resource *)
Responses ==
    IF torn THEN {Response(200, <<"length">>, Page), Response(404, <<"length">>, Page)}
            ELSE Answers

(* external: the connection breaks off; what was not read yet is lost, but *)
(* a piece of the line wget waits for may be there.                        *)
ServerCuts ==
    /\ "cut" \in ServerMay
    /\ pc \in {"status", "headers", "body", "chunk"} /\ ~resp.cut
    /\ \E p \in BOOLEAN :
          /\ p => pc # "body"
          /\ resp' = [resp EXCEPT !.cut = TRUE, !.part = p]
    /\ UNCHANGED <<pc, opt, runs, file, fd, pos, beg_range, got_clen, content_len,
                   chunked, redir_limit, version, why, torn>>

(* external: the document changes; a response that has begun does not *)
ServerUpdates ==
    /\ "update" \in ServerMay /\ version + 1 \in Versions
    /\ version' = version + 1
    /\ UNCHANGED <<pc, opt, runs, file, fd, pos, beg_range, got_clen, content_len,
                   chunked, redir_limit, resp, why, torn>>

-----------------------------------------------------------------------------
(* wget_main, and download_one_url up to the first request.  G is zeroed.  *)
Start ==
    /\ pc \in {"none", "done", "dead"} /\ runs < MaxRuns
    /\ \E c, o \in BOOLEAN :
          /\ opt' = [c |-> c, o |-> o]
          /\ LET continues == c /\ Exists
             IN  /\ fd' = IF continues THEN 1 ELSE -1
                 /\ beg_range' = IF continues THEN Len(file) ELSE 0
                 /\ pos' = IF continues THEN Len(file) ELSE 0
    /\ runs' = runs + 1
    /\ content_len' = 0 /\ got_clen' = FALSE /\ chunked' = FALSE
    /\ redir_limit' = RedirLimit
    /\ pc' = "request" /\ why' = "none" /\ torn' = FALSE
    /\ UNCHANGED <<file, resp, version>>

Die(reason) ==
    /\ pc' = "dead" /\ why' = reason
    /\ UNCHANGED <<opt, runs, file, fd, pos, beg_range, got_clen, content_len,
                   chunked, redir_limit, version, torn>>

(* establish_session: content_len is left alone. *)
EstablishSession ==
    /\ pc = "request"
    /\ got_clen' = FALSE /\ chunked' = FALSE
    /\ \E r \in Responses, i \in IF "continue" \in ServerMay THEN 0..MaxInterim ELSE {0} :
          resp' = [r EXCEPT !.interim = i]
    /\ pc' = "status"
    /\ UNCHANGED <<opt, runs, file, fd, pos, beg_range, content_len, redir_limit,
                   version, why, torn>>

(* reset_beg_range_to_zero: the server does not honour Range, the document *)
(* is written from its start over the file, which is not truncated yet.    *)
ResetBegRange_noSeek == beg_range' = 0 /\ UNCHANGED pos    \* mutant
ResetBegRange == beg_range' = 0 /\ pos' = 0

(* fgets: the line, or the piece of it that was there at the end of file *)
Line == ~resp.cut \/ resp.part
LineRead == [resp EXCEPT !.part = FALSE]

(* read_response: an interim response and its headers are skipped. *)
ReadInterim ==
    /\ pc = "status" /\ ~resp.cut /\ resp.interim > 0
    /\ resp' = [resp EXCEPT !.interim = @ - 1]
    /\ UNCHANGED <<pc, opt, runs, file, fd, pos, beg_range, got_clen, content_len,
                   chunked, redir_limit, version, why, torn>>

ReadResponse ==
    /\ pc = "status" /\ Line /\ resp.interim = 0
    /\ resp' = LineRead
    /\ \/ /\ resp.status = 200
          /\ IF beg_range # 0 THEN ResetBegRange ELSE UNCHANGED <<beg_range, pos>>
          /\ pc' = "headers"
          /\ UNCHANGED <<opt, runs, file, fd, got_clen, content_len, chunked,
                         redir_limit, version, why, torn>>
       \/ /\ resp.status = 302 \/ (resp.status = 206 /\ beg_range # 0)
          /\ pc' = "headers"
          /\ UNCHANGED <<opt, runs, file, fd, pos, beg_range, got_clen, content_len,
                         chunked, redir_limit, version, why, torn>>
       \/ /\ resp.status \in {404, 416} \/ (resp.status = 206 /\ beg_range = 0)
          /\ Die("refused")

(* fgets in the status line, a header or a chunk size: nothing is left, or *)
(* the connection was reset                                                *)
NoLine ==
    /\ pc \in {"status", "headers", "chunk"} /\ resp.cut /\ ~resp.part
    /\ Die("cut") /\ UNCHANGED resp

-----------------------------------------------------------------------------
(* One header.  A Location counts only in a redirection; it closes the     *)
(* connection, and the headers after it are never read.  t: only a piece   *)
(* of it arrived.                                                          *)
Redirect_unlimited(t) ==    \* mutant
    /\ pc' = "request" /\ torn' = (torn \/ t)
    /\ UNCHANGED <<opt, runs, file, fd, pos, beg_range, got_clen, content_len,
                   chunked, redir_limit, version, why>>
Redirect_oneMore(t) ==    \* mutant
    IF redir_limit = 0
    THEN Die("redirections")
    ELSE /\ redir_limit' = redir_limit - 1
         /\ pc' = "request" /\ torn' = (torn \/ t)
         /\ UNCHANGED <<opt, runs, file, fd, pos, beg_range, got_clen, content_len,
                        chunked, version, why>>
Redirect(t) ==
    IF redir_limit = 1
    THEN Die("redirections")
    ELSE /\ redir_limit' = redir_limit - 1
         /\ pc' = "request" /\ torn' = (torn \/ t)
         /\ UNCHANGED <<opt, runs, file, fd, pos, beg_range, got_clen, content_len,
                        chunked, version, why>>

ReadHeader ==
    /\ pc = "headers" /\ Line /\ resp.hdrs # <<>>
    /\ resp' = [resp EXCEPT !.hdrs = Tail(@), !.part = FALSE]
    /\ \/ /\ Head(resp.hdrs) = "length"
          /\ content_len' = Len(resp.body) /\ got_clen' = TRUE
          /\ UNCHANGED <<pc, opt, runs, file, fd, pos, beg_range, chunked,
                         redir_limit, version, why, torn>>
       \/ /\ Head(resp.hdrs) = "chunked"
          /\ chunked' = TRUE
          /\ UNCHANGED <<pc, opt, runs, file, fd, pos, beg_range, got_clen,
                         content_len, redir_limit, version, why, torn>>
       \/ Head(resp.hdrs) = "location" /\ Redirect(FALSE)

(* The empty line: the output file is created now, unless -c opened it.    *)
(* Without -O it must not exist.                                           *)
HeadersEnd ==
    /\ pc = "headers" /\ Line /\ resp.hdrs = <<>>
    /\ resp' = LineRead
    /\ IF fd = -1 /\ Exists /\ ~opt.o
       THEN Die("exists")
       ELSE /\ fd' = 1
            /\ file' = IF fd = -1 THEN <<>> ELSE file
            /\ pc' = IF chunked THEN "chunk" ELSE "body"
            /\ UNCHANGED <<opt, runs, pos, beg_range, got_clen, content_len, chunked,
                           redir_limit, version, why, torn>>

-----------------------------------------------------------------------------
(* retrieve_file_data *)

(* external: write at the offset *)
Written(bytes) ==
    SubSeq(file, 1, pos) \o bytes \o SubSeq(file, pos + Len(bytes) + 1, Len(file))

(* What fread may ask for, 0 when the body is complete. *)
Rdsz == IF got_clen THEN MinOf(content_len, BufSize) ELSE BufSize
Available == IF resp.cut THEN 0 ELSE IF chunked THEN resp.chunk ELSE Len(resp.body)

Left_unchanged(n) == content_len    \* mutant
Left(n) == IF got_clen THEN content_len - n ELSE content_len

(* fread returned data; pc stays "body" until EndOfData *)
CopyData ==
    /\ pc = "body"
    /\ \E n \in 1..MinOf(Rdsz, Available) :
          /\ file' = Written(SubSeq(resp.body, 1, n))
          /\ pos' = pos + n
          /\ content_len' = Left(n)
          /\ resp' = [resp EXCEPT !.body = SubSeq(@, n + 1, Len(@)),
                                  !.chunk = IF chunked THEN @ - n ELSE 0]
    /\ UNCHANGED <<pc, opt, runs, fd, beg_range, got_clen, chunked, redir_limit,
                   version, why, torn>>

(* After the loop: "connection closed prematurely", or the truncation that *)
(* only a complete download does.  t: a piece of a size ended it.          *)
Truncated_never == file    \* mutant
Truncated == SubSeq(file, 1, pos)
Complete(t) ==
    /\ pc' = "done" /\ torn' = (torn \/ t)
    /\ file' = Truncated
    /\ content_len' = 0 /\ chunked' = FALSE /\ got_clen' = TRUE /\ fd' = -1
    /\ UNCHANGED <<opt, runs, pos, beg_range, redir_limit, version, why>>

(* The reading loop ends: content_len bytes were read, end of file, or the *)
(* connection was reset.                                                   *)
EndOfData ==
    /\ pc = "body"
    /\ Rdsz = 0 \/ Available = 0
    /\ \/ /\ chunked
          /\ pc' = "chunk"
          /\ UNCHANGED <<opt, runs, file, fd, pos, beg_range, got_clen, content_len,
                         chunked, redir_limit, version, resp, why, torn>>
       \/ ~chunked /\ content_len # 0 /\ Die("premature") /\ UNCHANGED resp
       \/ ~chunked /\ content_len = 0 /\ Complete(FALSE) /\ UNCHANGED resp
       \/ Rdsz # 0 /\ resp.cut /\ Die("reset") /\ UNCHANGED resp

(* get_clen: the size of the next chunk, 0 after the last one. *)
NextChunk ==
    /\ pc = "chunk" /\ Line
    /\ \/ resp.body = <<>> /\ Complete(FALSE) /\ resp' = LineRead
       \/ \E n \in 1..Len(resp.body) :
              /\ content_len' = n /\ got_clen' = TRUE
              /\ resp' = [resp EXCEPT !.chunk = n, !.part = FALSE]
              /\ pc' = "body"
              /\ UNCHANGED <<opt, runs, file, fd, pos, beg_range, chunked, redir_limit,
                             version, why, torn>>

(* fgets returns a piece of a line.  A status number is wrong or missing;  *)
(* a header without ":" or with a bad value is refused; the digits of a    *)
(* number that came are taken for the number, and zeros a server puts      *)
(* before a size for the size of the last chunk; a piece of a Location is  *)
(* followed.                                                               *)
TornLine ==
    /\ resp.cut /\ resp.part
    /\ \/ /\ pc = "status"
          /\ resp' = LineRead
          /\ Die("refused") \/ Die("cut")
       \/ /\ pc = "headers" /\ resp.hdrs # <<>>
          /\ resp' = [resp EXCEPT !.hdrs = Tail(@), !.part = FALSE]
          /\ \/ Die("refused")
             \/ /\ Head(resp.hdrs) = "length"
                /\ content_len' \in 1..Len(resp.body) /\ got_clen' = TRUE
                /\ UNCHANGED <<pc, opt, runs, file, fd, pos, beg_range, chunked,
                               redir_limit, version, why, torn>>
             \/ Head(resp.hdrs) = "location" /\ Redirect(TRUE)
       \/ /\ pc = "chunk" /\ resp.body # <<>>
          /\ resp' = LineRead
          /\ \/ /\ content_len' \in 1..Len(resp.body) /\ got_clen' = TRUE
                /\ pc' = "body"
                /\ UNCHANGED <<opt, runs, file, fd, pos, beg_range, chunked, redir_limit,
                               version, why, torn>>
             \/ "padded" \in ServerMay /\ Complete(TRUE)

(* The process is killed, or interrupted by the user, at any point. *)
Killed ==
    /\ pc \notin {"none", "done", "dead"}
    /\ Die("killed") /\ UNCHANGED resp

-----------------------------------------------------------------------------
Init ==
    /\ pc = "none" /\ opt = [c |-> FALSE, o |-> FALSE] /\ runs = 0
    /\ file = NoFile /\ fd = -1 /\ pos = 0 /\ beg_range = 0
    /\ got_clen = FALSE /\ content_len = 0 /\ chunked = FALSE
    /\ redir_limit = RedirLimit
    /\ resp = Response(0, <<>>, <<>>) /\ version = 1 /\ why = "none"
    /\ torn = FALSE

Download ==
    \/ EstablishSession \/ ReadInterim \/ ReadResponse \/ ReadHeader \/ HeadersEnd
    \/ CopyData \/ EndOfData \/ NextChunk \/ NoLine \/ TornLine

Next == Start \/ Download \/ Killed \/ ServerCuts \/ ServerUpdates

Spec == Init /\ [][Next]_vars

(* wget goes on; a server that answers goes on or breaks off. *)
FairSpec == Spec /\ WF_vars(Download)

-----------------------------------------------------------------------------
(* Properties *)

Bytes == {<<0, 0>>, <<0, 1>>} \cup UNION {{<<v, i>> : i \in 1..Length[v]} : v \in Versions}

(* Every variable keeps its type; the file offset never points behind the  *)
(* end of the file, and redir_limit never reaches zero.                    *)
TypeOK ==
    /\ pc \in {"none", "request", "status", "headers", "body", "chunk", "done", "dead"}
    /\ opt \in [c : BOOLEAN, o : BOOLEAN]
    /\ runs \in 0..MaxRuns
    /\ file \in Seq(Bytes)
    /\ fd \in {-1, 1}
    /\ pos \in 0..Len(file) /\ beg_range \in Nat
    /\ got_clen \in BOOLEAN /\ content_len \in Nat /\ chunked \in BOOLEAN
    /\ redir_limit \in 1..RedirLimit
    /\ resp.body \in Seq(Bytes) /\ resp.chunk \in 0..Len(resp.body)
    /\ version \in Versions
    /\ why \in {"none", "refused", "cut", "redirections", "exists", "premature",
               "reset", "killed"}
    /\ torn \in BOOLEAN

(* Whatever happens (runs that died, were killed or restarted with -c, a   *)
(* server that ignores Range or has another version by now), a byte of the *)
(* file is at the place it has in the document.                            *)
InPlace == Exists => \A i \in 1..Len(file) : file[i][2] = i

(* A run that ends with success on a framed response leaves exactly the    *)
(* document that was served, nothing of what was there before, wherever    *)
(* the connection broke off.  Two things are excepted: a run that          *)
(* continued a file which held something else, and a run that followed a   *)
(* piece of a Location, or took the zeros before the size of a chunk for   *)
(* the size of the last one, at a connection that broke off in that line.  *)
Served(v) == \E i \in 1..Len(file) : file[i][1] = v
CompleteFile ==
    pc = "done" /\ resp.framed /\ ~torn =>
        \/ \E v \in Versions : file = Document(v)
        \/ beg_range # 0 /\ Cardinality({v \in Versions \cup {0} : Served(v)}) > 1

(* wget blames the connection only when the connection broke off. *)
BlameIsRight == why \in {"premature", "reset"} => resp.cut

(* Every download ends, however the server redirects. *)
Terminates == (pc = "request") ~> (pc \in {"done", "dead"})
=============================================================================
