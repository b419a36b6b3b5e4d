---------------------------- MODULE Wget_proofs ----------------------------
(***************************************************************************)
(* What wget leaves in the output file, for documents, buffers, numbers of *)
(* runs and of redirections of any size.                                   *)
(***************************************************************************)
EXTENDS Wget, WshSequences, FiniteSetTheorems

-----------------------------------------------------------------------------
(* The document and the responses *)

HdrNames == {"length", "chunked", "location"}
Interims == 0..MaxInterim
Statuses == {0, 200, 206, 302, 404, 416}

RespType ==
    [status : Statuses, hdrs : Seq(HdrNames), body : Seq(Bytes),
     chunk : Nat, cut : BOOLEAN, part : BOOLEAN, interim : Interims, framed : BOOLEAN]

(* What a file can come from: a version of the document, or, as number 0,  *)
(* the page a server has at a URL that was cut short.                      *)
Sources == Versions \cup {0}
Size(v) == IF v = 0 THEN 1 ELSE Length[v]

(* The bytes b are the end of source v, from offset p on. *)
Rest(b, p, v) == p + Len(b) = Size(v) /\ \A j \in 1..Len(b) : b[j] = <<v, p + j>>

FrameHdrs == {<<>>, <<"length">>, <<"chunked">>}
HasLocation(h) == h \in {<<"location">>, <<"location", "length">>, <<"length", "location">>}

(* A version is the rest of itself from its start. *)
LEMMA DocumentIs ==
    ASSUME NEW v \in Versions
    PROVE  /\ Length[v] \in Nat /\ Document(v) \in Seq(Bytes)
           /\ Len(Document(v)) = Length[v] /\ Rest(Document(v), 0, v)
           /\ v # 0 /\ Size(v) = Length[v]
<1>1. Length[v] \in Nat /\ v # 0 /\ Size(v) = Length[v]
  BY LengthAssumption DEF Versions, Size
<1>2. \A i \in 1..Length[v] : <<v, i>> \in Bytes
  BY DEF Bytes
<1>3. Document(v) \in [1..Length[v] -> Bytes]
  BY <1>2 DEF Document
<1>4. Document(v) \in Seq(Bytes) /\ Len(Document(v)) = Length[v]
  BY <1>1, <1>3, FunctionIsSeq
<1>5. \A j \in 1..Length[v] : Document(v)[j] = <<v, 0 + j>>
  BY <1>1 DEF Document
<1> QED
  BY <1>1, <1>4, <1>5 DEF Rest

(* The page is the rest of itself from its start. *)
LEMMA PageIs == Page \in Seq(Bytes) /\ Rest(Page, 0, 0)
<1>1. Len(Page) = 1 /\ Page[1] = <<0, 1>>
  BY DEF Page
<1>2. Page \in Seq(Bytes)
  BY DEF Page, Bytes
<1>3. \A j \in 1..1 : Page[j] = <<0, 0 + j>>
  BY <1>1
<1> QED
  BY <1>1, <1>2, <1>3 DEF Rest, Size

(* What is left of the rest of a source once n bytes of it were read. *)
LEMMA RestOfRest ==
    ASSUME NEW v \in Sources, NEW b \in Seq(Bytes), NEW p \in Nat, Rest(b, p, v),
           NEW n \in 0..Len(b)
    PROVE  Rest(SubSeq(b, n + 1, Len(b)), p + n, v)
<1> DEFINE m == Len(b)
           c == SubSeq(b, n + 1, m)
<1>1. m \in Nat /\ n \in Nat /\ n <= m
  OBVIOUS
<1>2. /\ c \in Seq(Bytes) /\ Len(c) = IF n + 1 <= m THEN m - (n + 1) + 1 ELSE 0
      /\ \A i \in 1..(m - (n + 1) + 1) : c[i] = b[n + 1 + i - 1]
  <2>1. n + 1 \in Nat \ {0} /\ m \in Int /\ m <= Len(b)
    BY <1>1
  <2> QED
    BY <2>1, Part
<1>3. p + m = Size(v) /\ \A j \in 1..m : b[j] = <<v, p + j>>
  BY DEF Rest
<1> HIDE DEF m, c
<1>4. Len(c) = m - n
  BY <1>1, <1>2
<1>5. p + n + Len(c) = Size(v)
  BY <1>1, <1>3, <1>4
<1>6. \A j \in 1..(m - n) : c[j] = <<v, p + n + j>>
  <2> SUFFICES ASSUME NEW j \in 1..(m - n) PROVE c[j] = <<v, p + n + j>>
    OBVIOUS
  <2>1. j \in 1..(m - (n + 1) + 1) /\ n + 1 + j - 1 = n + j /\ n + j \in 1..m
        /\ p + (n + j) = p + n + j
    BY <1>1
  <2>2. c[j] = b[n + j]
    BY <1>2, <2>1
  <2>3. b[n + j] = <<v, p + (n + j)>>
    BY <1>3, <2>1
  <2> QED
    BY <2>1, <2>2, <2>3
<1> QED
  BY <1>4, <1>5, <1>6 DEF Rest, c, m

Made(r, n, h, b) ==
    /\ r \in RespType /\ r.status = n /\ r.hdrs = h /\ r.body = b
    /\ r.chunk = 0 /\ r.cut = FALSE /\ r.part = FALSE
    /\ h = <<>> => ~r.framed

(* A response has the fields it is made of; framed says that it has a      *)
(* header that frames its body.                                            *)
LEMMA ResponseIs ==
    ASSUME NEW status \in Statuses, NEW hdrs \in Seq(HdrNames), NEW body \in Seq(Bytes),
           NEW r, r = Response(status, hdrs, body)
    PROVE  Made(r, status, hdrs, body)
<1> DEFINE S == {hdrs[i] : i \in DOMAIN hdrs} \cap {"length", "chunked"}
           fr == S # {}
<1>1. fr \in BOOLEAN /\ FALSE \in BOOLEAN
  BY Zenon
<1>2. r =
        [status |-> status, hdrs |-> hdrs, body |-> body, chunk |-> 0, cut |-> FALSE,
         part |-> FALSE, interim |-> 0, framed |-> fr]
  BY DEF Response
<1>3. hdrs = <<>> => S = {}
  OBVIOUS
<1>4. hdrs = <<>> => ~fr
  BY <1>3
<1>5. 0 \in Interims
  BY RunsAssumption DEF Interims
<1> HIDE DEF fr
<1> QED
  BY <1>1, <1>2, <1>4, <1>5 DEF RespType, Made

(* The headers of the responses. *)
LEMMA HeadersAre ==
    /\ Framings \subseteq FrameHdrs /\ FrameHdrs \subseteq Seq(HdrNames)
    /\ Redirections \subseteq Seq(HdrNames)
    /\ "no_location" \notin ServerMay => \A h \in Redirections : HasLocation(h)
<1>1. /\ "length" \in HdrNames /\ "chunked" \in HdrNames /\ "location" \in HdrNames
  BY DEF HdrNames
<1>2. FrameHdrs \subseteq Seq(HdrNames)
  BY <1>1 DEF FrameHdrs
<1>3. /\ <<"location">> \in Seq(HdrNames) /\ <<"length">> \in Seq(HdrNames)
      /\ <<"location", "length">> \in Seq(HdrNames)
      /\ <<"length", "location">> \in Seq(HdrNames)
  BY <1>1
<1>4. Framings \subseteq FrameHdrs
  BY DEF Framings, FrameHdrs
<1>5. Redirections \subseteq Seq(HdrNames)
  BY <1>3 DEF Redirections
<1>6. "no_location" \notin ServerMay => \A h \in Redirections : HasLocation(h)
  BY DEF Redirections, HasLocation
<1> QED
  BY <1>2, <1>4, <1>5, <1>6

(* What the server may answer. *)
LEMMA ResponsesAre ==
    ASSUME NEW r \in Responses, version \in Versions, beg_range \in Nat
    PROVE  /\ r \in RespType /\ r.chunk = 0 /\ r.cut = FALSE /\ r.status # 0
           /\ r.status = 302 => r.hdrs \in Redirections
           /\ r.status # 302 => r.hdrs \in FrameHdrs
           /\ r.status = 200 => Rest(r.body, 0, version) \/ (torn /\ Rest(r.body, 0, 0))
           /\ r.status = 206 => Rest(r.body, beg_range, version) /\ beg_range < Length[version]
           /\ r.hdrs = <<>> => ~r.framed
<1> DEFINE d == Document(version)
           e == SubSeq(d, beg_range + 1, Length[version])
<1>1. /\ Length[version] \in Nat /\ d \in Seq(Bytes) /\ Len(d) = Length[version]
      /\ Rest(d, 0, version)
  BY DocumentIs
<1>2. beg_range < Length[version] => e \in Seq(Bytes) /\ Rest(e, beg_range, version)
  <2> SUFFICES ASSUME beg_range < Length[version]
               PROVE  e \in Seq(Bytes) /\ Rest(e, beg_range, version)
    OBVIOUS
  <2> HIDE DEF d
  <2>1. beg_range \in 0..Len(d) /\ 0 \in Nat /\ 0 + beg_range = beg_range
    BY <1>1
  <2>2. e = SubSeq(d, beg_range + 1, Len(d))
    BY <1>1
  <2>3. Rest(e, 0 + beg_range, version)
    BY <1>1, <2>1, <2>2, RestOfRest DEF Sources
  <2>4. e \in Seq(Bytes)
    <3>1. beg_range + 1 \in Nat \ {0} /\ Len(d) \in Int /\ Len(d) <= Len(d)
      BY <1>1
    <3> QED
      BY <1>1, <2>2, <3>1, Part
  <2> QED
    BY <2>1, <2>3, <2>4
<1> HIDE DEF d, e
<1>3. Page \in Seq(Bytes) /\ <<>> \in Seq(Bytes) /\ <<>> \in Seq(HdrNames)
      /\ <<"length">> \in Seq(HdrNames)
  BY HeadersAre DEF Page, Bytes, FrameHdrs
<1>4. \/ \E h \in Framings : r = Response(200, h, d)
      \/ \E h \in Redirections : r = Response(302, h, Page)
      \/ beg_range < Length[version] /\ \E h \in Framings : r = Response(206, h, e)
      \/ r = Response(416, <<>>, <<>>)
      \/ r = Response(404, <<"length">>, Page)
      \/ torn /\ r = Response(200, <<"length">>, Page)
  BY DEF Responses, Answers, d, e
<1>5. \A n \in Statuses : \A h \in Seq(HdrNames) : \A b \in Seq(Bytes) :
        r = Response(n, h, b) => Made(r, n, h, b)
  BY ResponseIs, Zenon
<1>6. CASE \E h \in Framings : r = Response(200, h, d)
  <2>1. PICK h \in Framings : r = Response(200, h, d)
    BY <1>6
  <2>2. h \in FrameHdrs /\ h \in Seq(HdrNames) /\ 200 \in Statuses
    BY HeadersAre DEF Statuses
  <2>3. Made(r, 200, h, d)
    BY <1>1, <1>5, <2>1, <2>2
  <2> QED
    BY <1>1, <2>2, <2>3 DEF Made
<1>7. CASE \E h \in Redirections : r = Response(302, h, Page)
  <2>1. PICK h \in Redirections : r = Response(302, h, Page)
    BY <1>7
  <2>2. h \in Seq(HdrNames) /\ 302 \in Statuses
    BY HeadersAre DEF Statuses
  <2>3. Made(r, 302, h, Page)
    BY <1>3, <1>5, <2>1, <2>2
  <2> QED
    BY <2>3 DEF Made
<1>8. CASE beg_range < Length[version] /\ \E h \in Framings : r = Response(206, h, e)
  <2>1. PICK h \in Framings : r = Response(206, h, e)
    BY <1>8
  <2>2. h \in FrameHdrs /\ h \in Seq(HdrNames) /\ 206 \in Statuses
    BY HeadersAre DEF Statuses
  <2>3. Made(r, 206, h, e)
    BY <1>2, <1>5, <1>8, <2>1, <2>2
  <2> QED
    BY <1>2, <1>8, <2>2, <2>3 DEF Made
<1>9. CASE r = Response(416, <<>>, <<>>)
  <2>1. 416 \in Statuses /\ <<>> \in FrameHdrs
    BY DEF Statuses, FrameHdrs
  <2>2. Made(r, 416, <<>>, <<>>)
    BY <1>3, <1>5, <1>9, <2>1
  <2> QED
    BY <2>1, <2>2 DEF Made
<1>10. CASE r = Response(404, <<"length">>, Page)
  <2>1. 404 \in Statuses /\ <<"length">> \in FrameHdrs
    BY DEF Statuses, FrameHdrs
  <2>2. Made(r, 404, <<"length">>, Page)
    BY <1>3, <1>5, <1>10, <2>1
  <2> QED
    BY <2>1, <2>2 DEF Made
<1>11. CASE torn /\ r = Response(200, <<"length">>, Page)
  <2>1. 200 \in Statuses /\ <<"length">> \in FrameHdrs
    BY DEF Statuses, FrameHdrs
  <2>2. Made(r, 200, <<"length">>, Page)
    BY <1>3, <1>5, <1>11, <2>1
  <2> QED
    <3>1. /\ r \in RespType /\ r.status = 200 /\ r.hdrs = <<"length">> /\ r.body = Page
          /\ r.chunk = 0 /\ r.cut = FALSE /\ r.hdrs # <<>>
      BY <2>2 DEF Made
    <3>2. torn /\ Rest(r.body, 0, 0)
      BY <1>11, <3>1, PageIs
    <3> QED
      BY <2>1, <3>1, <3>2
<1> QED
  BY <1>4, <1>6, <1>7, <1>8, <1>9, <1>10, <1>11

(* The parts of a response that change; a response is never another one. *)
SameResponse(r, q) == q \in RespType /\ q.status = r.status /\ q.framed = r.framed

WithCut(r, p) == [r EXCEPT !.cut = TRUE, !.part = p]
WithLine(r) == [r EXCEPT !.part = FALSE]
WithInterim(r, i) == [r EXCEPT !.interim = i]
WithHdrs(r, h) == [r EXCEPT !.hdrs = h, !.part = FALSE]
WithChunk(r, n) == [r EXCEPT !.chunk = n, !.part = FALSE]
WithBody(r, b, n) == [r EXCEPT !.body = b, !.chunk = n]

(* The connection is cut. *)
LEMMA ResponseCut ==
    ASSUME NEW r \in RespType, NEW p \in BOOLEAN, NEW q, q = WithCut(r, p)
    PROVE  /\ SameResponse(r, q) /\ q.hdrs = r.hdrs /\ q.body = r.body
           /\ q.chunk = r.chunk /\ q.cut = TRUE
<1>1. TRUE \in BOOLEAN
  BY Zenon
<1> QED
  BY <1>1 DEF RespType, SameResponse, WithCut

(* What was there of a line is read. *)
LEMMA ResponseLine ==
    ASSUME NEW r \in RespType, NEW q, q = WithLine(r)
    PROVE  /\ SameResponse(r, q) /\ q.hdrs = r.hdrs /\ q.body = r.body
           /\ q.chunk = r.chunk /\ q.cut = r.cut /\ ~q.part
<1>1. FALSE \in BOOLEAN
  BY Zenon
<1> QED
  BY <1>1 DEF RespType, SameResponse, WithLine

(* A 100 Continue is read. *)
LEMMA ResponseInterim ==
    ASSUME NEW r \in RespType, NEW i \in Interims, NEW q, q = WithInterim(r, i)
    PROVE  /\ SameResponse(r, q) /\ q.hdrs = r.hdrs /\ q.body = r.body
           /\ q.chunk = r.chunk /\ q.cut = r.cut /\ q.part = r.part
BY DEF RespType, SameResponse, WithInterim

(* A header is read. *)
LEMMA ResponseHdrs ==
    ASSUME NEW r \in RespType, NEW h \in Seq(HdrNames), NEW q, q = WithHdrs(r, h)
    PROVE  /\ SameResponse(r, q) /\ q.hdrs = h /\ q.body = r.body
           /\ q.chunk = r.chunk /\ q.cut = r.cut /\ ~q.part
<1>1. FALSE \in BOOLEAN
  BY Zenon
<1> QED
  BY <1>1 DEF RespType, SameResponse, WithHdrs

(* A chunk is begun. *)
LEMMA ResponseChunk ==
    ASSUME NEW r \in RespType, NEW n \in Nat, NEW q, q = WithChunk(r, n)
    PROVE  /\ SameResponse(r, q) /\ q.hdrs = r.hdrs /\ q.body = r.body
           /\ q.chunk = n /\ q.cut = r.cut /\ ~q.part
<1>1. FALSE \in BOOLEAN
  BY Zenon
<1> QED
  BY <1>1 DEF RespType, SameResponse, WithChunk

(* Bytes of the body are read. *)
LEMMA ResponseBody ==
    ASSUME NEW r \in RespType, NEW b \in Seq(Bytes), NEW n \in Nat,
           NEW q, q = WithBody(r, b, n)
    PROVE  /\ SameResponse(r, q) /\ q.hdrs = r.hdrs /\ q.body = b
           /\ q.chunk = n /\ q.cut = r.cut
BY DEF RespType, SameResponse, WithBody

-----------------------------------------------------------------------------
(* Types: until the body begins the offset is the start of the range that  *)
(* was asked for, and 0 while there is no output file.                     *)

Asking == {"request", "status", "headers"}

TInv ==
    /\ TypeOK /\ resp \in RespType
    /\ pc \in Asking => pos = beg_range
    /\ pc \in Asking /\ fd = -1 => pos = 0

(* wget starts. *)
LEMMA TInvInit == Init => TInv
<1> SUFFICES ASSUME Init PROVE TInv
  OBVIOUS
<1>1. 0 \in Statuses /\ <<>> \in Seq(HdrNames) /\ <<>> \in Seq(Bytes)
  BY DEF Statuses
<1>2. Made(resp, 0, <<>>, <<>>)
  BY <1>1, ResponseIs DEF Init
<1>3. resp \in RespType /\ resp.body = <<>> /\ resp.chunk = 0
  BY <1>2 DEF Made
<1>4. file \in Seq(Bytes) /\ Len(file) = 1
  BY DEF Init, NoFile, Bytes
<1>5. /\ opt \in [c : BOOLEAN, o : BOOLEAN] /\ got_clen \in BOOLEAN /\ chunked \in BOOLEAN
      /\ torn \in BOOLEAN
  BY Zenon DEF Init
<1>6. version \in Versions
  BY LengthAssumption DEF Init, Versions
<1>7. /\ pc \in {"none", "request", "status", "headers", "body", "chunk", "done", "dead"}
      /\ runs \in 0..MaxRuns /\ fd \in {-1, 1} /\ pos \in 0..Len(file) /\ beg_range \in Nat
      /\ content_len \in Nat /\ redir_limit \in 1..RedirLimit
      /\ why \in {"none", "refused", "cut", "redirections", "exists", "premature", "reset", "killed"}
  BY <1>4, SizesAssumption, RunsAssumption DEF Init
<1>8. resp.body \in Seq(Bytes) /\ resp.chunk \in 0..Len(resp.body)
  BY <1>3
<1>9. pc \notin Asking
  BY DEF Init, Asking
<1> QED
  BY <1>3, <1>4, <1>5, <1>6, <1>7, <1>8, <1>9 DEF TInv, TypeOK

(* What every action starts from. *)
LEMMA TInvParts ==
    ASSUME TInv
    PROVE  /\ opt \in [c : BOOLEAN, o : BOOLEAN]
           /\ runs \in 0..MaxRuns /\ file \in Seq(Bytes) /\ Len(file) \in Nat
           /\ fd \in {-1, 1} /\ pos \in Nat /\ pos <= Len(file) /\ beg_range \in Nat
           /\ got_clen \in BOOLEAN /\ content_len \in Nat /\ chunked \in BOOLEAN
           /\ redir_limit \in 1..RedirLimit /\ version \in Versions
           /\ resp \in RespType /\ resp.body \in Seq(Bytes) /\ Len(resp.body) \in Nat
           /\ resp.chunk \in Nat /\ resp.chunk <= Len(resp.body)
           /\ resp.hdrs \in Seq(HdrNames) /\ torn \in BOOLEAN
           /\ pc \in Asking => pos = beg_range
           /\ pc \in Asking /\ fd = -1 => pos = 0
<1>1. TypeOK /\ resp \in RespType
  BY DEF TInv
<1>2. resp.hdrs \in Seq(HdrNames)
  BY <1>1 DEF RespType
<1> QED
  BY <1>1, <1>2 DEF TInv, TypeOK

(* A step that leaves the rest of the state alone. *)
LEMMA TInvMade ==
    ASSUME TInv, resp' \in RespType, resp'.chunk \in 0..Len(resp'.body),
           pc' \in {"none", "request", "status", "headers", "body", "chunk", "done", "dead"},
           opt' \in [c : BOOLEAN, o : BOOLEAN], runs' \in 0..MaxRuns,
           file' \in Seq(Bytes), fd' \in {-1, 1}, pos' \in 0..Len(file'), beg_range' \in Nat,
           got_clen' \in BOOLEAN, content_len' \in Nat, chunked' \in BOOLEAN,
           redir_limit' \in 1..RedirLimit, version' \in Versions,
           why' \in {"none", "refused", "cut", "redirections", "exists", "premature", "reset", "killed"},
           torn' \in BOOLEAN,
           pc' \in Asking => pos' = beg_range',
           pc' \in Asking /\ fd' = -1 => pos' = 0
    PROVE  TInv'
<1>1. resp'.body \in Seq(Bytes)
  BY DEF RespType
<1> QED
  BY <1>1 DEF TInv, TypeOK

Reasons == {"refused", "cut", "redirections", "exists", "premature", "reset", "killed"}

(* A run that dies leaves the file as it is. *)
LEMMA TInvDies ==
    ASSUME TInv, NEW reason \in Reasons, Die(reason),
           resp' \in RespType, resp'.chunk \in 0..Len(resp'.body)
    PROVE  TInv'
<1>1. /\ pc' = "dead" /\ why' = reason
      /\ UNCHANGED <<opt, runs, file, fd, pos, beg_range, got_clen, content_len,
                     chunked, redir_limit, version, torn>>
  BY DEF Die
<1>2. pc' \notin Asking /\ pos' \in 0..Len(file')
  BY <1>1, TInvParts DEF Asking
<1>3. why' \in {"none", "refused", "cut", "redirections", "exists", "premature", "reset", "killed"}
  BY <1>1 DEF Reasons
<1> QED
  BY <1>1, <1>2, <1>3, TInvParts, TInvMade

(* A step that only moves pc and changes what the server has to send. *)
LEMMA TInvMoves ==
    ASSUME TInv, resp' \in RespType, resp'.chunk \in 0..Len(resp'.body),
           pc' \in {"status", "headers", "body", "chunk"},
           pc' \in {"status", "headers"} => pc \in Asking,
           got_clen' \in BOOLEAN, content_len' \in Nat, chunked' \in BOOLEAN,
           UNCHANGED <<opt, runs, file, fd, pos, beg_range, redir_limit, version, why, torn>>
    PROVE  TInv'
<1>1. pc' \in Asking => pc \in Asking
  BY DEF Asking
<1>2. /\ pc' \in {"none", "request", "status", "headers", "body", "chunk", "done", "dead"}
      /\ why \in {"none", "refused", "cut", "redirections", "exists", "premature", "reset", "killed"}
  BY DEF TInv, TypeOK
<1>3. pos' \in 0..Len(file')
  BY TInvParts
<1> QED
  BY <1>1, <1>2, <1>3, TInvParts, TInvMade

(* A complete download cuts the file at the offset. *)
LEMMA TInvComplete ==
    ASSUME TInv, NEW t \in BOOLEAN, Complete(t),
           resp' \in RespType, resp'.chunk \in 0..Len(resp'.body)
    PROVE  /\ TInv' /\ Len(file') = pos /\ pos' = pos
           /\ \A i \in 1..pos : file'[i] = file[i]
<1>1. /\ pc' = "done" /\ file' = SubSeq(file, 1, pos)
      /\ content_len' = 0 /\ chunked' = FALSE /\ got_clen' = TRUE /\ fd' = -1
      /\ UNCHANGED <<opt, runs, pos, beg_range, redir_limit, version, why>>
      /\ torn' = (torn \/ t)
  BY DEF Complete, Truncated
<1>2. file' \in Seq(Bytes) /\ Len(file') = pos /\ \A i \in 1..pos : file'[i] = file[i]
  <2>1. 1 \in Nat \ {0} /\ pos \in Int
    BY TInvParts
  <2> QED
    BY <1>1, <2>1, TInvParts, Part
<1>3. chunked' \in BOOLEAN /\ got_clen' \in BOOLEAN /\ torn' \in BOOLEAN
  BY <1>1, Zenon
<1>4. pc' \notin Asking /\ pos' \in 0..Len(file')
  BY <1>1, <1>2, TInvParts DEF Asking
<1>5. why' \in {"none", "refused", "cut", "redirections", "exists", "premature", "reset", "killed"}
  BY <1>1 DEF TInv, TypeOK
<1>6. TInv'
  BY <1>1, <1>2, <1>3, <1>4, <1>5, TInvParts, TInvMade
<1> QED
  BY <1>1, <1>2, <1>6

(* What one fread and the write of what it returned do. *)
Copied(n) ==
    /\ n \in 1..Len(resp.body)
    /\ file' \in Seq(Bytes) /\ pos' = pos + n /\ pos' <= Len(file')
    /\ \A i \in 1..pos : file'[i] = file[i]
    /\ \A i \in (pos + 1)..(pos + n) : file'[i] = resp.body[i - pos]
    /\ \A i \in (pos + n + 1)..Len(file') : i \in 1..Len(file) /\ file'[i] = file[i]
    /\ resp' \in RespType /\ resp'.body = SubSeq(resp.body, n + 1, Len(resp.body))
    /\ Len(resp'.body) = Len(resp.body) - n /\ resp'.chunk \in 0..Len(resp'.body)
    /\ resp'.status = resp.status /\ resp'.framed = resp.framed
    /\ content_len' \in Nat
    /\ got_clen => content_len' = content_len - n
    /\ ~got_clen => content_len' = content_len
    /\ UNCHANGED <<pc, opt, runs, fd, beg_range, got_clen, chunked, redir_limit,
                   version, why, torn>>

(* CopyData copies some bytes of the body to the file. *)
LEMMA CopyCopies == TInv /\ CopyData => pc = "body" /\ \E n \in Nat : Copied(n)
<1> SUFFICES ASSUME TInv, CopyData PROVE pc = "body" /\ \E n \in Nat : Copied(n)
  OBVIOUS
<1>1. PICK n \in 1..MinOf(Rdsz, Available) :
          /\ file' = Written(SubSeq(resp.body, 1, n))
          /\ pos' = pos + n
          /\ content_len' = Left(n)
          /\ resp' = [resp EXCEPT !.body = SubSeq(@, n + 1, Len(@)),
                                  !.chunk = IF chunked THEN @ - n ELSE 0]
  BY DEF CopyData
<1>2. /\ pc = "body"
      /\ UNCHANGED <<pc, opt, runs, fd, beg_range, got_clen, chunked, redir_limit,
                     version, why, torn>>
  BY DEF CopyData
<1> DEFINE m == Len(resp.body)
           a == IF chunked THEN resp.chunk - n ELSE 0
           b == SubSeq(resp.body, 1, n)
           c == SubSeq(resp.body, n + 1, m)
<1>3. Rdsz \in Nat /\ Available \in Nat /\ Available <= m
  BY TInvParts, SizesAssumption DEF Rdsz, Available, MinOf
<1>4. n \in Nat \ {0} /\ n <= Rdsz /\ n <= Available /\ n <= m
  BY <1>3, TInvParts DEF MinOf
<1>5. chunked => n <= resp.chunk
  BY <1>4, TInvParts DEF Available
<1>6. b \in Seq(Bytes) /\ Len(b) = n /\ \A i \in 1..n : b[i] = resp.body[i]
  <2>1. 1 \in Nat \ {0} /\ n \in Int
    BY <1>4
  <2> QED
    BY <1>4, <2>1, TInvParts, Part
<1>7. c \in Seq(Bytes) /\ Len(c) = m - n
  <2>1. n + 1 \in Nat \ {0} /\ m \in Int /\ m <= Len(resp.body)
    BY <1>4, TInvParts
  <2>2. c \in Seq(Bytes) /\ Len(c) = IF n + 1 <= m THEN m - (n + 1) + 1 ELSE 0
    BY <2>1, TInvParts, Part
  <2> HIDE DEF c
  <2> QED
    BY <1>4, <2>1, <2>2
<1>8. a \in Nat /\ a <= m - n
  BY <1>4, <1>5, TInvParts
<1>9. resp' = WithBody(resp, c, a) /\ resp \in RespType
  BY <1>1, TInvParts DEF WithBody
<1> HIDE DEF a, c
<1>10. /\ resp' \in RespType /\ resp'.body = c /\ resp'.chunk = a
       /\ resp'.status = resp.status /\ resp'.framed = resp.framed
  <2>1. c \in Seq(Bytes) /\ a \in Nat
    BY <1>7, <1>8
  <2> HIDE DEF m, b
  <2>2. \A q : q = WithBody(resp, c, a)
               => SameResponse(resp, q) /\ q.body = c /\ q.chunk = a
    BY <1>9, <2>1, ResponseBody
  <2>3. SameResponse(resp, resp') /\ resp'.body = c /\ resp'.chunk = a
    BY <1>9, <2>2
  <2> QED
    BY <2>3 DEF SameResponse
<1>11. resp'.chunk \in 0..Len(resp'.body) /\ Len(resp'.body) = m - n
  BY <1>7, <1>8, <1>10
<1>12. /\ got_clen => content_len' = content_len - n /\ n <= content_len
       /\ ~got_clen => content_len' = content_len
  BY <1>1, <1>4, TInvParts, SizesAssumption DEF Left, Rdsz, MinOf
<1>13. content_len' \in Nat
  BY <1>4, <1>12, TInvParts
<1>14. file' = SubSeq(file, 1, pos) \o b \o SubSeq(file, pos + Len(b) + 1, Len(file))
  BY <1>1 DEF Written
<1> HIDE DEF b, m
<1>15. /\ file' \in Seq(Bytes) /\ pos + Len(b) <= Len(file')
       /\ \A i \in 1..pos : file'[i] = file[i]
       /\ \A i \in (pos + 1)..(pos + Len(b)) : file'[i] = b[i - pos]
       /\ \A i \in (pos + Len(b) + 1)..Len(file') : i \in 1..Len(file) /\ file'[i] = file[i]
  <2>1. pos \in 0..Len(file) /\ file \in Seq(Bytes) /\ b \in Seq(Bytes)
    BY <1>6, TInvParts
  <2>2. file' \in Seq(Bytes) /\ Overwrites(file', file, pos, b)
    BY <1>14, <2>1, Overwritten, Zenon
  <2> QED
    BY <2>2 DEF Overwrites
<1>16. \A i \in (pos + 1)..(pos + n) : file'[i] = resp.body[i - pos]
  <2>1. \A i \in (pos + 1)..(pos + n) : i - pos \in 1..n
    BY <1>4, TInvParts, SMTT(30)
  <2> QED
    BY <1>6, <1>15, <2>1
<1>17. n \in 1..Len(resp.body) /\ resp'.body = SubSeq(resp.body, n + 1, Len(resp.body))
  BY <1>4, <1>10 DEF c, m
<1>18. Copied(n)
  BY <1>1, <1>2, <1>6, <1>10, <1>11, <1>12, <1>13, <1>15, <1>16, <1>17 DEF Copied, m
<1> QED
  BY <1>2, <1>4, <1>18

(* The two ends of a download, told apart by what is torn. *)
LEMMA TInvCompletes ==
    ASSUME TInv, Complete(TRUE) \/ Complete(FALSE),
           resp' \in RespType, resp'.chunk \in 0..Len(resp'.body)
    PROVE  TInv'
<1>1. TRUE \in BOOLEAN /\ FALSE \in BOOLEAN
  BY Zenon
<1>2. \A t \in BOOLEAN : Complete(t) => TInv'
  BY TInvComplete
<1> QED
  BY <1>1, <1>2

(* A redirection is followed, or is one too many. *)
LEMMA TInvRedirect ==
    ASSUME TInv, Redirect(TRUE) \/ Redirect(FALSE), pc = "headers",
           resp' \in RespType, resp'.chunk \in 0..Len(resp'.body)
    PROVE  TInv'
<1>1. CASE redir_limit = 1
  BY <1>1, TInvDies DEF Redirect, Reasons
<1>2. CASE redir_limit # 1
  <2>1. /\ redir_limit' = redir_limit - 1 /\ pc' = "request"
        /\ UNCHANGED <<opt, runs, file, fd, pos, beg_range, got_clen, content_len,
                       chunked, version, why>>
    BY <1>2 DEF Redirect
  <2>2. redir_limit' \in 1..RedirLimit
    <3>1. redir_limit \in 1..RedirLimit /\ RedirLimit \in Nat
      BY TInvParts, SizesAssumption
    <3>2. redir_limit' = redir_limit - 1
      BY <2>1
    <3> QED
      BY <1>2, <3>1, <3>2
  <2>3. why' \in {"none", "refused", "cut", "redirections", "exists", "premature", "reset", "killed"}
    BY <2>1 DEF TInv, TypeOK
  <2>4. pc \in Asking /\ pos' \in 0..Len(file')
    BY <2>1, TInvParts DEF Asking
  <2>5. torn' \in BOOLEAN
    <3>1. torn' = (torn \/ TRUE) \/ torn' = (torn \/ FALSE)
      BY <1>2 DEF Redirect
    <3> QED
      BY <3>1, Zenon
  <2> QED
    BY <2>1, <2>2, <2>3, <2>4, <2>5, TInvParts, TInvMade
<1> QED
  BY <1>1, <1>2

(* The interim responses a server sends, and what is left after one. *)
LEMMA InterimsAre == (IF "continue" \in ServerMay THEN 0..MaxInterim ELSE {0}) \subseteq Interims
BY RunsAssumption DEF Interims

(* One interim response less. *)
LEMMA InterimLeft ==
    ASSUME NEW r \in RespType, r.interim > 0
    PROVE  r.interim - 1 \in Interims
<1>1. r.interim \in 0..MaxInterim
  BY DEF RespType, Interims
<1> QED
  BY <1>1, RunsAssumption DEF Interims

(* Every step of wget and of its server. *)
LEMMA TInvStep == TInv /\ [Next]_vars => TInv'
<1> SUFFICES ASSUME TInv, [Next]_vars PROVE TInv'
  OBVIOUS
<1>0. resp.chunk \in 0..Len(resp.body)
  BY TInvParts
<1>l. \A q : q = LineRead => q \in RespType /\ q.chunk \in 0..Len(q.body)
  <2>1. resp \in RespType /\ LineRead = WithLine(resp)
    BY TInvParts DEF LineRead, WithLine
  <2> QED
    BY <1>0, <2>1, ResponseLine DEF SameResponse
<1>1. CASE Start
  <2>1. PICK c \in BOOLEAN, o \in BOOLEAN :
            /\ opt' = [c |-> c, o |-> o]
            /\ fd' = IF c /\ Exists THEN 1 ELSE -1
            /\ beg_range' = IF c /\ Exists THEN Len(file) ELSE 0
            /\ pos' = IF c /\ Exists THEN Len(file) ELSE 0
    BY <1>1 DEF Start
  <2>2. /\ runs < MaxRuns /\ runs' = runs + 1 /\ content_len' = 0
        /\ redir_limit' = RedirLimit /\ pc' = "request" /\ why' = "none"
        /\ UNCHANGED <<file, resp, version>>
    BY <1>1 DEF Start
  <2>3. got_clen' \in BOOLEAN /\ chunked' \in BOOLEAN /\ torn' \in BOOLEAN
    BY <1>1, Zenon DEF Start
  <2>4. opt' \in [c : BOOLEAN, o : BOOLEAN]
    BY <2>1
  <2>5. runs' \in 0..MaxRuns /\ redir_limit' \in 1..RedirLimit
    BY <2>2, TInvParts, RunsAssumption, SizesAssumption
  <2>6. /\ fd' \in {-1, 1} /\ pos' \in 0..Len(file') /\ beg_range' \in Nat
        /\ pos' = beg_range' /\ (fd' = -1 => pos' = 0)
    BY <2>1, <2>2, TInvParts
  <2> QED
    BY <1>0, <2>2, <2>3, <2>4, <2>5, <2>6, TInvParts, TInvMade
<1>2. CASE EstablishSession
  <2>1. PICK r \in Responses, i \in Interims : resp' = [r EXCEPT !.interim = i]
    BY <1>2, InterimsAre DEF EstablishSession
  <2>2. i \in Interims /\ got_clen' \in BOOLEAN /\ chunked' \in BOOLEAN
    <3>1. got_clen' = FALSE /\ chunked' = FALSE
      BY <1>2 DEF EstablishSession
    <3>4. got_clen' \in BOOLEAN
      BY <3>1, Zenon
    <3>5. chunked' \in BOOLEAN
      BY <3>1, Zenon
    <3> QED
      BY <3>4, <3>5
  <2>3. r \in RespType /\ r.chunk = 0 /\ r.body \in Seq(Bytes)
    BY TInvParts, ResponsesAre DEF RespType
  <2>4. resp' \in RespType /\ resp'.chunk = 0 /\ resp'.body = r.body
    <3>1. resp' = WithInterim(r, i)
      BY <2>1 DEF WithInterim
    <3>2. i \in Interims /\ r \in RespType
      BY <2>2, <2>3
    <3>3. resp' \in RespType /\ resp'.chunk = r.chunk /\ resp'.body = r.body
      BY <3>1, <3>2, ResponseInterim DEF SameResponse
    <3> QED
      BY <2>3, <3>3
  <2>5. resp'.chunk \in 0..Len(resp'.body)
    BY <2>3, <2>4
  <2>6. pc = "request" /\ pc' = "status" /\ content_len' \in Nat
        /\ UNCHANGED <<opt, runs, file, fd, pos, beg_range, redir_limit, version, why, torn>>
    BY <1>2, TInvParts DEF EstablishSession
  <2> QED
    BY <2>2, <2>4, <2>5, <2>6, TInvMoves DEF Asking
<1>3. CASE ReadInterim
  <2> DEFINE i == resp.interim - 1
  <2>1. i \in Interims
    BY <1>3, TInvParts, InterimLeft DEF ReadInterim
  <2>2. /\ pc = "status" /\ resp' = [resp EXCEPT !.interim = i]
        /\ UNCHANGED <<pc, opt, runs, file, fd, pos, beg_range, got_clen, content_len,
                       chunked, redir_limit, version, why, torn>>
    BY <1>3 DEF ReadInterim
  <2>3. resp' \in RespType /\ resp'.chunk \in 0..Len(resp'.body)
    <3>1. resp' = WithInterim(resp, i) /\ resp \in RespType
      BY <2>2, TInvParts DEF WithInterim
    <3> HIDE DEF i
    <3>2. resp' \in RespType /\ resp'.chunk = resp.chunk /\ resp'.body = resp.body
      BY <2>1, <3>1, ResponseInterim, Zenon DEF SameResponse
    <3> QED
      BY <1>0, <3>2
  <2> QED
    BY <2>2, <2>3, TInvParts, TInvMoves DEF Asking
<1>4. CASE ReadResponse
  <2>0. resp' \in RespType /\ resp'.chunk \in 0..Len(resp'.body)
    BY <1>4, <1>l DEF ReadResponse
  <2>1. CASE /\ resp.status = 200
             /\ IF beg_range # 0 THEN ResetBegRange ELSE UNCHANGED <<beg_range, pos>>
             /\ pc' = "headers"
             /\ UNCHANGED <<opt, runs, file, fd, got_clen, content_len, chunked,
                            redir_limit, version, why, torn>>
    <3>1. pc = "status" /\ pos = beg_range
      BY <1>4, TInvParts DEF ReadResponse, Asking
    <3>2. beg_range' = 0 /\ pos' = 0
      BY <2>1, <3>1 DEF ResetBegRange
    <3>3. 0 \in 0..Len(file') /\ 0 \in Nat
      BY <2>1, TInvParts
    <3>4. why' \in {"none", "refused", "cut", "redirections", "exists", "premature", "reset", "killed"}
      BY <2>1 DEF TInv, TypeOK
    <3> QED
      BY <2>0, <2>1, <3>2, <3>3, <3>4, TInvParts, TInvMade
  <2>2. CASE /\ pc' = "headers"
             /\ UNCHANGED <<opt, runs, file, fd, pos, beg_range, got_clen, content_len,
                            chunked, redir_limit, version, why, torn>>
    <3>1. pc \in Asking
      BY <1>4 DEF ReadResponse, Asking
    <3> QED
      BY <2>0, <2>2, <3>1, TInvParts, TInvMoves
  <2>3. CASE Die("refused")
    BY <2>0, <2>3, TInvParts, TInvDies DEF Reasons
  <2> QED
    BY <1>4, <2>1, <2>2, <2>3 DEF ReadResponse
<1>5. CASE NoLine
  BY <1>0, <1>5, TInvParts, TInvDies DEF NoLine, Reasons
<1>6. CASE ReadHeader
  <2>1. pc = "headers" /\ resp.hdrs # <<>> /\ resp' = [resp EXCEPT !.hdrs = Tail(resp.hdrs), !.part = FALSE]
    BY <1>6 DEF ReadHeader
  <2>2. Tail(resp.hdrs) \in Seq(HdrNames)
    BY <2>1, TInvParts, HeadTailProperties
  <2>3. resp' \in RespType /\ resp'.chunk \in 0..Len(resp'.body)
    <3> DEFINE h == Tail(resp.hdrs)
    <3>1. h \in Seq(HdrNames) /\ resp' = WithHdrs(resp, h) /\ resp \in RespType
      BY <2>1, <2>2, TInvParts DEF WithHdrs
    <3> HIDE DEF h
    <3>2. \A q : q = WithHdrs(resp, h)
                 => SameResponse(resp, q) /\ q.chunk = resp.chunk /\ q.body = resp.body
      BY <3>1, ResponseHdrs
    <3>3. resp' \in RespType /\ resp'.chunk = resp.chunk /\ resp'.body = resp.body
      <4>1. SameResponse(resp, resp') /\ resp'.chunk = resp.chunk /\ resp'.body = resp.body
        BY <3>1, <3>2
      <4> QED
        BY <4>1 DEF SameResponse
    <3> QED
      BY <1>0, <3>3
  <2>4. CASE /\ content_len' = Len(resp.body) /\ got_clen' = TRUE
             /\ UNCHANGED <<pc, opt, runs, file, fd, pos, beg_range, chunked,
                            redir_limit, version, why, torn>>
    <3>1. got_clen' \in BOOLEAN
      BY <2>4, Zenon
    <3> QED
      BY <2>1, <2>3, <2>4, <3>1, TInvParts, TInvMoves DEF Asking
  <2>5. CASE /\ chunked' = TRUE
             /\ UNCHANGED <<pc, opt, runs, file, fd, pos, beg_range, got_clen,
                            content_len, redir_limit, version, why, torn>>
    <3>1. chunked' \in BOOLEAN
      BY <2>5, Zenon
    <3> QED
      BY <2>1, <2>3, <2>5, <3>1, TInvParts, TInvMoves DEF Asking
  <2>6. CASE Redirect(FALSE)
    BY <2>1, <2>3, <2>6, TInvRedirect
  <2> QED
    BY <1>6, <2>4, <2>5, <2>6 DEF ReadHeader
<1>7. CASE HeadersEnd
  <2>1. pc = "headers" /\ resp' \in RespType /\ resp'.chunk \in 0..Len(resp'.body)
    BY <1>7, <1>l DEF HeadersEnd
  <2>2. CASE fd = -1 /\ Exists /\ ~opt.o
    <3>1. Die("exists")
      BY <1>7, <2>2 DEF HeadersEnd
    <3> QED
      BY <1>0, <2>1, <3>1, TInvParts, TInvDies DEF Reasons
  <2>3. CASE ~(fd = -1 /\ Exists /\ ~opt.o)
    <3>1. /\ fd' = 1 /\ file' = IF fd = -1 THEN <<>> ELSE file
          /\ pc' = IF chunked THEN "chunk" ELSE "body"
          /\ UNCHANGED <<opt, runs, pos, beg_range, got_clen, content_len, chunked,
                         redir_limit, version, why, torn>>
      BY <1>7, <2>3 DEF HeadersEnd
    <3>2. file' \in Seq(Bytes) /\ pos' \in 0..Len(file')
      <4>1. CASE fd = -1
        <5>1. pos' = 0 /\ file' = <<>>
          BY <2>1, <3>1, <4>1, TInvParts DEF Asking
        <5> QED
          BY <5>1
      <4>2. CASE fd # -1
        <5>1. file' = file /\ pos' = pos
          BY <3>1, <4>2
        <5>2. file \in Seq(Bytes) /\ pos \in 0..Len(file)
          BY TInvParts
        <5> QED
          BY <5>1, <5>2, Zenon
      <4> QED
        BY <4>1, <4>2
    <3>3. pc' \notin Asking /\ pc' \in {"chunk", "body"}
      BY <3>1 DEF Asking
    <3>4. why' \in {"none", "refused", "cut", "redirections", "exists", "premature", "reset", "killed"}
      BY <3>1 DEF TInv, TypeOK
    <3> QED
      BY <1>0, <2>1, <3>1, <3>2, <3>3, <3>4, TInvParts, TInvMade
  <2> QED
    BY <2>2, <2>3
<1>8. CASE CopyData
  <2>1. PICK n \in Nat : Copied(n)
    BY <1>8, CopyCopies
  <2>2. pc' = "body" /\ "body" \notin Asking
    BY <1>8, <2>1, CopyCopies DEF Copied, Asking
  <2>3. pos' \in 0..Len(file')
    <3>1. pos' = pos + n /\ pos' <= Len(file') /\ file' \in Seq(Bytes)
      BY <2>1 DEF Copied
    <3>2. pos \in Nat /\ Len(file') \in Nat
      BY <3>1, TInvParts
    <3> QED
      BY <3>1, <3>2
  <2>4. why' \in {"none", "refused", "cut", "redirections", "exists", "premature", "reset", "killed"}
    BY <2>1 DEF TInv, TypeOK, Copied
  <2> QED
    BY <2>1, <2>2, <2>3, <2>4, TInvParts, TInvMade DEF Copied
<1>9. CASE EndOfData
  <2>1. CASE /\ pc' = "chunk"
             /\ UNCHANGED <<opt, runs, file, fd, pos, beg_range, got_clen, content_len,
                            chunked, redir_limit, version, resp, why, torn>>
    BY <1>0, <2>1, TInvParts, TInvMoves
  <2>2. CASE Die("premature") /\ UNCHANGED resp
    BY <1>0, <2>2, TInvParts, TInvDies DEF Reasons
  <2>3. CASE Complete(FALSE) /\ UNCHANGED resp
    BY <1>0, <2>3, TInvParts, TInvCompletes
  <2>4. CASE Die("reset") /\ UNCHANGED resp
    BY <1>0, <2>4, TInvParts, TInvDies DEF Reasons
  <2> QED
    BY <1>9, <2>1, <2>2, <2>3, <2>4 DEF EndOfData
<1>10. CASE NextChunk
  <2>1. CASE Complete(FALSE) /\ resp' = LineRead
    BY <1>l, <2>1, TInvCompletes
  <2>2. CASE \E n \in 1..Len(resp.body) :
                /\ content_len' = n /\ got_clen' = TRUE
                /\ resp' = [resp EXCEPT !.chunk = n, !.part = FALSE]
                /\ pc' = "body"
                /\ UNCHANGED <<opt, runs, file, fd, pos, beg_range, chunked, redir_limit,
                               version, why, torn>>
    <3>1. PICK n \in 1..Len(resp.body) :
                /\ content_len' = n /\ got_clen' = TRUE
                /\ resp' = [resp EXCEPT !.chunk = n, !.part = FALSE]
                /\ pc' = "body"
                /\ UNCHANGED <<opt, runs, file, fd, pos, beg_range, chunked, redir_limit,
                               version, why, torn>>
      BY <2>2
    <3>2. got_clen' \in BOOLEAN
      BY <3>1, Zenon
    <3>3. n \in Nat /\ n \in 0..Len(resp.body) /\ resp \in RespType
      BY TInvParts
    <3>4. resp' \in RespType /\ resp'.chunk = n /\ resp'.body = resp.body
      <4>1. resp' = WithChunk(resp, n)
        BY <3>1 DEF WithChunk
      <4>2. \A q : q = WithChunk(resp, n)
                   => SameResponse(resp, q) /\ q.chunk = n /\ q.body = resp.body
        BY <3>3, ResponseChunk
      <4>3. SameResponse(resp, resp') /\ resp'.chunk = n /\ resp'.body = resp.body
        BY <4>1, <4>2
      <4> QED
        BY <4>3 DEF SameResponse
    <3> QED
      BY <3>1, <3>2, <3>3, <3>4, TInvParts, TInvMoves
  <2> QED
    BY <1>10, <2>1, <2>2 DEF NextChunk
<1>11. CASE Killed
  BY <1>0, <1>11, TInvParts, TInvDies DEF Killed, Reasons
<1>12. CASE ServerCuts
  <2>1. PICK p \in BOOLEAN : resp' = [resp EXCEPT !.cut = TRUE, !.part = p]
    BY <1>12 DEF ServerCuts
  <2>3. /\ pc \in {"status", "headers", "body", "chunk"}
        /\ UNCHANGED <<pc, opt, runs, file, fd, pos, beg_range, got_clen, content_len,
                       chunked, redir_limit, version, why, torn>>
    BY <1>12 DEF ServerCuts
  <2>2. resp' \in RespType /\ resp'.chunk \in 0..Len(resp'.body)
    <3>1. resp' = WithCut(resp, p) /\ resp \in RespType
      BY <2>1, TInvParts DEF WithCut
    <3>2. resp' \in RespType /\ resp'.chunk = resp.chunk /\ resp'.body = resp.body
      BY <3>1, ResponseCut, Zenon DEF SameResponse
    <3> QED
      BY <1>0, <3>2
  <2> QED
    BY <2>2, <2>3, TInvParts, TInvMoves DEF Asking
<1>13. CASE ServerUpdates
  <2>1. /\ version' \in Versions
        /\ UNCHANGED <<pc, opt, runs, file, fd, pos, beg_range, got_clen, content_len,
                       chunked, redir_limit, resp, why, torn>>
    BY <1>13 DEF ServerUpdates
  <2> QED
    BY <2>1 DEF TInv, TypeOK
<1>15. CASE TornLine
  <2>1. CASE /\ resp' = LineRead
             /\ Die("refused") \/ Die("cut")
    BY <1>l, <2>1, TInvDies DEF Reasons
  <2>2. CASE /\ pc = "headers" /\ resp.hdrs # <<>>
             /\ resp' = [resp EXCEPT !.hdrs = Tail(resp.hdrs), !.part = FALSE]
             /\ \/ Die("refused")
                \/ /\ content_len' \in 1..Len(resp.body) /\ got_clen' = TRUE
                   /\ UNCHANGED <<pc, opt, runs, file, fd, pos, beg_range, chunked,
                                  redir_limit, version, why, torn>>
                \/ Redirect(TRUE)
    <3>1. Tail(resp.hdrs) \in Seq(HdrNames)
      BY <2>2, TInvParts, HeadTailProperties
    <3>2. resp' \in RespType /\ resp'.chunk \in 0..Len(resp'.body)
      <4> DEFINE h == Tail(resp.hdrs)
      <4>1. h \in Seq(HdrNames) /\ resp' = WithHdrs(resp, h) /\ resp \in RespType
        BY <2>2, <3>1, TInvParts DEF WithHdrs
      <4> HIDE DEF h
      <4>2. \A q : q = WithHdrs(resp, h)
                   => SameResponse(resp, q) /\ q.chunk = resp.chunk /\ q.body = resp.body
        BY <4>1, ResponseHdrs
      <4>3. resp' \in RespType /\ resp'.chunk = resp.chunk /\ resp'.body = resp.body
        <5>1. SameResponse(resp, resp') /\ resp'.chunk = resp.chunk /\ resp'.body = resp.body
          BY <4>1, <4>2
        <5> QED
          BY <5>1 DEF SameResponse
      <4> QED
        BY <1>0, <4>3
    <3>3. CASE Die("refused")
      BY <3>2, <3>3, TInvDies DEF Reasons
    <3>4. CASE /\ content_len' \in 1..Len(resp.body) /\ got_clen' = TRUE
               /\ UNCHANGED <<pc, opt, runs, file, fd, pos, beg_range, chunked,
                              redir_limit, version, why, torn>>
      <4>1. got_clen' \in BOOLEAN /\ content_len' \in Nat
        <5>1. got_clen' \in BOOLEAN
          BY <3>4, Zenon
        <5> QED
          BY <3>4, <5>1, TInvParts
      <4> QED
        BY <2>2, <3>2, <3>4, <4>1, TInvParts, TInvMoves DEF Asking
    <3>5. CASE Redirect(TRUE)
      BY <2>2, <3>2, <3>5, TInvRedirect
    <3> QED
      BY <2>2, <3>3, <3>4, <3>5
  <2>3. CASE /\ resp' = LineRead
             /\ content_len' \in 1..Len(resp.body) /\ got_clen' = TRUE
             /\ pc' = "body"
             /\ UNCHANGED <<opt, runs, file, fd, pos, beg_range, chunked, redir_limit,
                            version, why, torn>>
    <3>1. got_clen' \in BOOLEAN /\ content_len' \in Nat
      <4>1. got_clen' \in BOOLEAN
        BY <2>3, Zenon
      <4> QED
        BY <2>3, <4>1, TInvParts
    <3> QED
      BY <1>l, <2>3, <3>1, TInvParts, TInvMoves
  <2>4. CASE Complete(TRUE) /\ resp' = LineRead
    BY <1>l, <2>4, TInvCompletes
  <2> QED
    BY <1>15, <2>1, <2>2, <2>3, <2>4 DEF TornLine
<1>14. CASE UNCHANGED vars
  BY <1>14 DEF vars, TInv, TypeOK
<1> QED
  BY <1>1, <1>2, <1>3, <1>4, <1>5, <1>6, <1>7, <1>8, <1>9, <1>10, <1>11, <1>12, <1>13, <1>14, <1>15
     DEF Next, Download

-----------------------------------------------------------------------------
(* The file: its bytes are where the document has them; what was written   *)
(* by this run is of the source the server is sending, and what the server *)
(* still has to send is the rest of that source from the offset on.  The   *)
(* source is a version of the document unless the URL was torn.            *)

Placed(f) == \A i \in 1..Len(f) : \E v \in Sources : f[i] = <<v, i>>
Since(f, b, p, v) == \A i \in (b + 1)..p : f[i] = <<v, i>>

Progress(v) ==
    /\ Rest(resp.body, pos, v) /\ beg_range <= pos /\ Since(file, beg_range, pos, v)
    /\ beg_range # 0 => beg_range < Size(v)
    /\ v = 0 => torn

(* Bytes that are copied are put where they belong. *)
LEMMA CopyInPlace ==
    ASSUME TInv, NEW n, Copied(n), Placed(file), NEW v \in Sources, Progress(v)
    PROVE  /\ Placed(file')
           /\ Rest(resp'.body, pos', v) /\ beg_range' <= pos'
           /\ Since(file', beg_range', pos', v)
           /\ beg_range' # 0 => beg_range' < Size(v)
           /\ v = 0 => torn'
<1> DEFINE m == Len(resp.body)
           l == Len(file')
<1>1. pos \in Nat /\ beg_range \in Nat /\ m \in Nat /\ n \in Nat \ {0} /\ n <= m
      /\ pos <= Len(file) /\ Len(file) \in Nat
  <2>1. n \in 1..Len(resp.body)
    BY DEF Copied
  <2>2. Len(resp.body) \in Nat
    BY TInvParts
  <2>3. n \in Nat \ {0} /\ n <= Len(resp.body)
    BY <2>1, <2>2
  <2> QED
    BY <2>2, <2>3, TInvParts
<1>2. l \in Nat /\ pos' = pos + n /\ pos + n <= l /\ beg_range' = beg_range
  BY DEF Copied
<1>3. /\ \A i \in 1..pos : file'[i] = file[i]
      /\ \A i \in (pos + 1)..(pos + n) : file'[i] = resp.body[i - pos]
      /\ \A i \in (pos + n + 1)..l : i \in 1..Len(file) /\ file'[i] = file[i]
  BY DEF Copied
<1>4. \A i \in (pos + 1)..(pos + n) : file'[i] = <<v, i>>
  <2> SUFFICES ASSUME NEW i \in (pos + 1)..(pos + n) PROVE file'[i] = <<v, i>>
    OBVIOUS
  <2>1. i - pos \in 1..m /\ pos + (i - pos) = i
    BY <1>1
  <2>2. resp.body[i - pos] = <<v, pos + (i - pos)>>
    BY <2>1 DEF Progress, Rest
  <2> QED
    BY <1>3, <2>1, <2>2
<1>5. Placed(file')
  <2> SUFFICES ASSUME NEW i \in 1..l PROVE \E w \in Sources : file'[i] = <<w, i>>
    BY DEF Placed
  <2>1. CASE i \in 1..pos
    <3>1. i \in 1..Len(file)
      BY <1>1, <2>1
    <3> QED
      BY <1>3, <2>1, <3>1 DEF Placed
  <2>2. CASE i \in (pos + 1)..(pos + n)
    BY <1>4, <2>2
  <2>3. CASE i \in (pos + n + 1)..l
    BY <1>3, <2>3 DEF Placed
  <2>4. i \in 1..pos \/ i \in (pos + 1)..(pos + n) \/ i \in (pos + n + 1)..l
    BY <1>1, <1>2
  <2> QED
    BY <2>1, <2>2, <2>3, <2>4
<1>6. Rest(resp'.body, pos', v)
  <2>1. /\ resp.body \in Seq(Bytes) /\ n \in 0..Len(resp.body)
        /\ resp'.body = SubSeq(resp.body, n + 1, Len(resp.body))
    BY <1>1, TInvParts DEF Copied
  <2>2. Rest(resp.body, pos, v) /\ pos \in Nat
    BY <1>1 DEF Progress
  <2>3. Rest(SubSeq(resp.body, n + 1, Len(resp.body)), pos + n, v)
    BY <2>1, <2>2, RestOfRest
  <2> QED
    BY <1>2, <2>1, <2>3
<1>7. beg_range <= pos /\ Since(file, beg_range, pos, v) /\ (beg_range # 0 => beg_range < Size(v))
      /\ (v = 0 => torn) /\ torn' = torn
  BY DEF Progress, Copied
<1>8. Since(file', beg_range, pos + n, v)
  <2> SUFFICES ASSUME NEW i \in (beg_range + 1)..(pos + n) PROVE file'[i] = <<v, i>>
    BY DEF Since
  <2>1. CASE i <= pos
    <3>1. i \in (beg_range + 1)..pos /\ i \in 1..pos
      BY <1>1, <2>1
    <3> QED
      BY <1>3, <1>7, <3>1 DEF Since
  <2>2. CASE ~(i <= pos)
    <3>1. i \in (pos + 1)..(pos + n)
      BY <1>1, <2>2
    <3> QED
      BY <1>4, <3>1
  <2> QED
    BY <2>1, <2>2
<1>9. beg_range <= pos + n
  BY <1>1, <1>7
<1> QED
  BY <1>2, <1>5, <1>6, <1>7, <1>8, <1>9

(* Two versions in a file are more than one. *)
LEMMA TwoServed ==
    ASSUME NEW S, S \subseteq Sources, NEW u \in S, NEW v \in S, u # v
    PROVE  Cardinality(S) > 1
<1>1. IsFiniteSet(Sources)
  <2>1. Len(Length) \in Int
    BY LengthAssumption
  <2>2. IsFiniteSet(Versions)
    BY <2>1, FS_Interval DEF Versions
  <2> QED
    BY <2>2, FS_AddElement DEF Sources
<1>2. IsFiniteSet(S)
  BY <1>1, FS_Subset
<1>3. Cardinality({u, v}) = 2 /\ IsFiniteSet({u, v})
  <2>1. IsFiniteSet({u}) /\ Cardinality({u}) = 1
    BY FS_Singleton
  <2>2. /\ IsFiniteSet({u} \cup {v})
        /\ Cardinality({u} \cup {v}) = IF v \in {u} THEN Cardinality({u}) ELSE Cardinality({u}) + 1
    BY <2>1, FS_AddElement
  <2>3. {u} \cup {v} = {u, v} /\ v \notin {u}
    OBVIOUS
  <2> QED
    BY <2>1, <2>2, <2>3
<1>4. Cardinality({u, v}) <= Cardinality(S)
  <2>1. {u, v} \in SUBSET S
    OBVIOUS
  <2> QED
    BY <1>2, <2>1, FS_Subset
<1>5. Cardinality(S) \in Nat
  BY <1>2, FS_CardinalityType
<1> QED
  BY <1>3, <1>4, <1>5

(* A download that ends well, by the size of a chunk or a piece of it. *)
Completes == Complete(TRUE) \/ Complete(FALSE)

(* It cuts the file at the offset. *)
LEMMA CompletesCuts ==
    ASSUME TInv, TInv', Completes
    PROVE  /\ Len(file') = pos /\ pos' = pos /\ \A i \in 1..pos : file'[i] = file[i]
           /\ pc' = "done" /\ fd' = -1 /\ beg_range' = beg_range /\ (torn => torn')
<1>1. /\ pc' = "done" /\ fd' = -1 /\ file' = SubSeq(file, 1, pos)
      /\ UNCHANGED <<pos, beg_range>>
  BY DEF Completes, Complete, Truncated
<1>2. torn => torn'
  BY DEF Completes, Complete
<1>3. 1 \in Nat \ {0} /\ pos \in Int
  BY TInvParts
<1>4. Len(file') = pos /\ \A i \in 1..pos : file'[i] = file[i]
  BY <1>1, <1>3, TInvParts, Part
<1> QED
  BY <1>1, <1>2, <1>4

(* The file of a complete download. *)
LEMMA CompleteIsDocument ==
    ASSUME TInv, TInv', Completes, Placed(file), NEW v \in Sources, Progress(v),
           resp.body = <<>>
    PROVE  Placed(file') /\ CompleteFile'
<1>1. /\ Len(file') = pos /\ file' \in Seq(Bytes)
      /\ \A i \in 1..pos : file'[i] = file[i]
  BY CompletesCuts, TInvParts DEF TInv, TypeOK
<1>2. beg_range' = beg_range /\ pos \in Nat /\ beg_range \in Nat /\ pos <= Len(file)
      /\ Len(file) \in Nat
  BY TInvParts, CompletesCuts
<1>3. pos = Size(v)
  <2>1. pos + Len(resp.body) = Size(v) /\ Len(resp.body) = 0
    BY DEF Progress, Rest
  <2> QED
    BY <1>2, <2>1
<1>4. \A i \in 1..pos : i \in 1..Len(file)
  BY <1>2
<1>5. Placed(file')
  BY <1>1, <1>4, Zenon DEF Placed
<1>6. \A i \in (beg_range + 1)..pos : file[i] = <<v, i>>
  BY DEF Progress, Since
<1>7. beg_range # 0 => beg_range < pos
  BY <1>3 DEF Progress
<1>10. CASE v = 0
  BY <1>5, <1>10, CompletesCuts DEF Progress, CompleteFile
<1>8. CASE v # 0 /\ \A i \in 1..pos : file'[i] = <<v, i>>
  <2>0. v \in Versions
    BY <1>8 DEF Sources
  <2>1. /\ Document(v) \in Seq(Bytes) /\ Len(Document(v)) = pos
        /\ \A i \in 1..pos : Document(v)[i] = <<v, i>>
    BY <1>3, <2>0, DocumentIs DEF Document
  <2>2. file' = Document(v)
    BY <1>1, <1>8, <2>1, SeqEqual
  <2> QED
    BY <1>5, <2>0, <2>2 DEF CompleteFile
<1>9. CASE ~\A i \in 1..pos : file'[i] = <<v, i>>
  <2>1. PICK i \in 1..pos : file'[i] # <<v, i>>
    BY <1>9
  <2>2. PICK u \in Sources : file'[i] = <<u, i>>
    BY <1>1, <1>5 DEF Placed
  <2>3. u # v
    BY <2>1, <2>2
  <2>4. ~(i \in (beg_range + 1)..pos)
    BY <1>1, <1>6, <2>1
  <2>5. beg_range # 0
    BY <1>2, <2>4
  <2>6. beg_range + 1 \in 1..pos /\ beg_range + 1 \in (beg_range + 1)..pos
    BY <1>2, <1>7, <2>5
  <2>7. file'[beg_range + 1] = <<v, beg_range + 1>>
    BY <1>1, <1>6, <2>6
  <2>8. file'[i][1] = u /\ file'[beg_range + 1][1] = v
    BY <2>2, <2>7
  <2> DEFINE S == {w \in Versions \cup {0} : \E j \in 1..Len(file') : file'[j][1] = w}
  <2>9. u \in S /\ v \in S /\ S \subseteq Sources
    BY <1>1, <2>6, <2>8 DEF Sources
  <2> HIDE DEF S
  <2>10. Cardinality(S) > 1
    BY <2>3, <2>9, TwoServed
  <2> QED
    BY <1>2, <1>5, <2>5, <2>10 DEF CompleteFile, Served, S
<1> QED
  BY <1>8, <1>9, <1>10

-----------------------------------------------------------------------------
(* The inductive invariant of the file.  Before the body, what the server  *)
(* answered decides what may follow; a redirection never gets to a body,   *)
(* because its Location is among the headers still to be read.  Once a     *)
(* piece of a header was read, no line comes any more.                     *)

FileOK == (file = NoFile \/ Placed(file)) /\ (fd = 1 => Placed(file))

Answer(r, b) ==
    /\ r.status = 302 => HasLocation(r.hdrs)
    /\ r.status \in {200, 206} => r.hdrs \in FrameHdrs /\ (r.hdrs = <<>> => ~r.framed)
    /\ r.status = 200 => \E v \in Sources : Rest(r.body, 0, v) /\ (v = 0 => torn)
    /\ r.status = 206 =>
          \E v \in Sources : Rest(r.body, b, v) /\ b < Size(v) /\ (v = 0 => torn)

Sending ==
    /\ \E v \in Sources : Progress(v)
    /\ got_clen /\ ~chunked => content_len = Len(resp.body)

Framing == resp.hdrs \in FrameHdrs /\ (resp.hdrs = <<>> /\ resp.framed => got_clen \/ chunked)

AtStatus == pc = "status" => ~got_clen /\ ~chunked /\ Answer(resp, beg_range)
AtHeaders == pc = "headers" /\ Line => HasLocation(resp.hdrs) \/ (Framing /\ Sending)
AtBody ==
    pc \in {"body", "chunk"} =>
        /\ fd = 1 /\ Sending
        /\ resp.framed => got_clen \/ chunked
        /\ pc = "chunk" => chunked

WInv == TInv /\ FileOK /\ AtStatus /\ AtHeaders /\ AtBody /\ CompleteFile

(* The places where nothing but the file matters. *)
LEMMA WInvRests ==
    ASSUME TInv', FileOK', pc' \in {"none", "request", "dead"}
    PROVE  WInv'
BY DEF WInv, AtStatus, AtHeaders, AtBody, CompleteFile

(* A step that changes neither the download nor what is sent of it. *)
LEMMA WInvSame ==
    ASSUME WInv, TInv', resp'.status = resp.status, resp'.hdrs = resp.hdrs,
           resp'.body = resp.body, resp'.framed = resp.framed,
           Line' => Line,
           UNCHANGED <<pc, file, fd, pos, beg_range, got_clen, content_len, chunked, torn>>
    PROVE  WInv'
<1>1. FileOK'
  BY DEF WInv, FileOK
<1>2. \A v \in Sources : Progress(v) => Progress(v)'
  BY DEF Progress
<1>3. Sending => Sending'
  BY <1>2 DEF Sending
<1>4. AtStatus'
  BY DEF WInv, AtStatus, Answer
<1>5. AtHeaders'
  BY <1>3 DEF WInv, AtHeaders, Framing
<1>6. AtBody'
  BY <1>3 DEF WInv, AtBody
<1>7. CompleteFile'
  BY DEF WInv, CompleteFile, Served
<1> QED
  BY <1>1, <1>4, <1>5, <1>6, <1>7 DEF WInv

(* A run that dies leaves the file. *)
LEMMA WInvDies ==
    ASSUME WInv, TInv', NEW reason, Die(reason)
    PROVE  WInv'
<1>1. pc' = "dead" /\ UNCHANGED <<file, fd>>
  BY DEF Die
<1>2. FileOK'
  BY <1>1 DEF WInv, FileOK
<1> QED
  BY <1>1, <1>2, WInvRests

(* A complete download. *)
LEMMA WInvComplete ==
    ASSUME WInv, TInv', Completes, pc \in {"body", "chunk"}, resp'.framed = resp.framed,
           resp.framed => resp.body = <<>> \/ torn'
    PROVE  WInv'
<1>1. pc' = "done" /\ fd' = -1
  BY CompletesCuts DEF WInv
<1>2. TInv /\ Placed(file)
  BY DEF WInv, FileOK, AtBody
<1>3. Placed(file') /\ CompleteFile'
  <2>1. CASE resp.framed /\ ~torn'
    <3>1. PICK v \in Sources : Progress(v)
      BY DEF WInv, AtBody, Sending
    <3> QED
      BY <1>2, <2>1, <3>1, CompleteIsDocument
  <2>2. CASE ~resp.framed \/ torn'
    <3>1. Len(file') = pos /\ \A i \in 1..pos : file'[i] = file[i]
      BY <1>2, CompletesCuts
    <3>2. \A i \in 1..pos : i \in 1..Len(file)
      BY <1>2, TInvParts
    <3>3. Placed(file')
      BY <1>2, <3>1, <3>2, Zenon DEF Placed
    <3> QED
      BY <1>1, <2>2, <3>3 DEF CompleteFile
  <2> QED
    BY <2>1, <2>2
<1>4. FileOK'
  BY <1>1, <1>3 DEF FileOK
<1> QED
  BY <1>1, <1>3, <1>4 DEF WInv, AtStatus, AtHeaders, AtBody

(* The headers of a redirection are not all read before its Location. *)
LEMMA Locations ==
    ASSUME NEW h, HasLocation(h)
    PROVE  h # <<>> /\ Head(h) # "chunked" /\ (Head(h) = "length" => HasLocation(Tail(h)))
<1>1. CASE h = <<"location">>
  BY <1>1
<1>2. CASE h = <<"location", "length">>
  BY <1>2
<1>3. CASE h = <<"length", "location">>
  <2>1. Head(h) = "length" /\ Tail(h) = <<"location">> /\ h # <<>>
    BY <1>3
  <2> QED
    BY <2>1 DEF HasLocation
<1> QED
  BY <1>1, <1>2, <1>3 DEF HasLocation

(* A response has at most one header that frames it. *)
LEMMA FrameHeaders ==
    ASSUME NEW h \in FrameHdrs, h # <<>>
    PROVE  Tail(h) = <<>> /\ Head(h) \in {"length", "chunked"}
<1>1. CASE h = <<"length">>
  BY <1>1
<1>2. CASE h = <<"chunked">>
  BY <1>2
<1> QED
  BY <1>1, <1>2 DEF FrameHdrs

(* One header is read: it is the framing of the document, or it leaves the *)
(* Location still to come.                                                 *)
LEMMA WInvHeader ==
    ASSUME WInv, TInv', ReadHeader
    PROVE  WInv'
<1>1. /\ pc = "headers" /\ resp.hdrs # <<>> /\ TInv /\ Line
      /\ resp' = WithHdrs(resp, Tail(resp.hdrs))
      /\ FileOK
  BY DEF ReadHeader, WInv, WithHdrs
<1>2. /\ SameResponse(resp, resp') /\ resp'.hdrs = Tail(resp.hdrs) /\ resp'.body = resp.body
      /\ resp'.framed = resp.framed
  <2> DEFINE h == Tail(resp.hdrs)
  <2>1. resp' = WithHdrs(resp, h) /\ resp \in RespType /\ h \in Seq(HdrNames)
    BY <1>1, TInvParts, HeadTailProperties
  <2> HIDE DEF h
  <2>2. \A q : q = WithHdrs(resp, h)
               => SameResponse(resp, q) /\ q.hdrs = h /\ q.body = resp.body
    BY <2>1, ResponseHdrs
  <2>3. SameResponse(resp, resp') /\ resp'.hdrs = h /\ resp'.body = resp.body
    BY <2>1, <2>2
  <2> QED
    BY <2>3 DEF h, SameResponse
<1>3. HasLocation(resp.hdrs) \/ (Framing /\ Sending)
  BY <1>1 DEF WInv, AtHeaders
<1>4. CASE /\ Head(resp.hdrs) \in {"length", "chunked"}
           /\ UNCHANGED <<pc, opt, runs, file, fd, pos, beg_range, redir_limit, version, why, torn>>
           /\ \/ Head(resp.hdrs) = "length" /\ content_len' = Len(resp.body)
                 /\ got_clen' = TRUE /\ UNCHANGED chunked
              \/ Head(resp.hdrs) = "chunked" /\ chunked' = TRUE
                 /\ UNCHANGED <<got_clen, content_len>>
  <2>1. FileOK' /\ pc' = "headers"
    BY <1>1, <1>4 DEF FileOK
  <2>2. CASE HasLocation(resp.hdrs)
    <3>1. HasLocation(resp'.hdrs)
      BY <1>2, <1>4, <2>2, Locations
    <3> QED
      BY <2>1, <3>1 DEF WInv, AtStatus, AtHeaders, AtBody, CompleteFile
  <2>3. CASE Framing /\ Sending
    <3>1. got_clen' \/ chunked'
      BY <1>4
    <3>2. resp'.hdrs = <<>>
      BY <1>1, <1>2, <2>3, FrameHeaders DEF Framing
    <3>3. Framing'
      BY <3>1, <3>2 DEF Framing, FrameHdrs
    <3>4. \A v \in Sources : Progress(v) => Progress(v)'
      BY <1>2, <1>4 DEF Progress
    <3>5. got_clen' /\ ~chunked' => content_len' = Len(resp'.body)
      BY <1>2, <1>4
    <3>6. Sending'
      BY <2>3, <3>4, <3>5 DEF Sending
    <3> QED
      BY <2>1, <3>3, <3>6 DEF WInv, AtStatus, AtHeaders, AtBody, CompleteFile
  <2> QED
    BY <1>3, <2>2, <2>3
<1>5. CASE Redirect(FALSE)
  <2>1. UNCHANGED <<file, fd>> /\ pc' \in {"request", "dead"}
    BY <1>5 DEF Redirect, Die
  <2>2. FileOK'
    BY <1>1, <2>1 DEF FileOK
  <2> QED
    BY <2>1, <2>2, WInvRests
<1> QED
  BY <1>4, <1>5 DEF ReadHeader

(* The file and the framing are right in every reachable state of a        *)
(* download whose redirections name a Location.                            *)
LEMMA WInvStep ==
    ASSUME "no_location" \notin ServerMay
    PROVE  WInv /\ [Next]_vars => WInv'
<1> SUFFICES ASSUME WInv, [Next]_vars PROVE WInv'
  OBVIOUS
<1>0. TInv /\ TInv'
  BY TInvStep DEF WInv
<1>1. CASE Start
  <2>1. PICK c \in BOOLEAN, o \in BOOLEAN : fd' = IF c /\ Exists THEN 1 ELSE -1
    BY <1>1 DEF Start
  <2>2. file' = file /\ pc' = "request"
    BY <1>1 DEF Start
  <2>3. FileOK'
    BY <2>1, <2>2 DEF FileOK, WInv, Exists
  <2> QED
    BY <1>0, <2>2, <2>3, WInvRests
<1>2. CASE EstablishSession
  <2>1. PICK r \in Responses, i \in Interims : resp' = WithInterim(r, i)
    BY <1>2, InterimsAre DEF EstablishSession, WithInterim
  <2>2. /\ pc' = "status" /\ got_clen' = FALSE /\ chunked' = FALSE
        /\ UNCHANGED <<file, fd, beg_range, torn>>
    BY <1>2 DEF EstablishSession
  <2>3. version \in Versions /\ beg_range \in Nat
    BY <1>0, TInvParts
  <2>4. /\ r \in RespType
        /\ r.status = 302 => r.hdrs \in Redirections
        /\ r.status # 302 => r.hdrs \in FrameHdrs
        /\ r.status = 200 => Rest(r.body, 0, version) \/ (torn /\ Rest(r.body, 0, 0))
        /\ r.status = 206 => Rest(r.body, beg_range, version) /\ beg_range < Length[version]
        /\ r.hdrs = <<>> => ~r.framed
    BY <2>3, ResponsesAre
  <2>5. r.status = 302 => HasLocation(r.hdrs)
    BY <2>4, HeadersAre
  <2>6. SameResponse(r, resp') /\ resp'.hdrs = r.hdrs /\ resp'.body = r.body
    BY <2>1, <2>4, ResponseInterim, Zenon
  <2>7. Answer(r, beg_range)
    <3>1. version \in Sources /\ version # 0 /\ Size(version) = Length[version]
          /\ 0 \in Sources
      BY <2>3, DocumentIs DEF Sources
    <3> QED
      BY <2>3, <2>4, <2>5, <3>1 DEF Answer
  <2>8. Answer(resp, beg_range)'
    BY <2>2, <2>6, <2>7 DEF Answer, SameResponse
  <2>9. FileOK'
    BY <2>2 DEF WInv, FileOK
  <2> QED
    BY <1>0, <2>2, <2>8, <2>9 DEF WInv, AtStatus, AtHeaders, AtBody, CompleteFile
<1>3. CASE ReadInterim
  <2> DEFINE i == resp.interim - 1
  <2>1. i \in Interims
    BY <1>0, <1>3, TInvParts, InterimLeft DEF ReadInterim
  <2>2. /\ resp' = WithInterim(resp, i) /\ resp \in RespType
        /\ UNCHANGED <<pc, file, fd, pos, beg_range, got_clen, content_len, chunked, torn>>
    BY <1>0, <1>3 DEF ReadInterim, WithInterim, TInv
  <2> HIDE DEF i
  <2>3. /\ SameResponse(resp, resp') /\ resp'.hdrs = resp.hdrs /\ resp'.body = resp.body
        /\ resp'.cut = resp.cut /\ resp'.part = resp.part
    BY <2>1, <2>2, ResponseInterim, Zenon
  <2> QED
    BY <1>0, <2>2, <2>3, WInvSame DEF SameResponse, Line
<1>l. /\ SameResponse(resp, LineRead) /\ LineRead.hdrs = resp.hdrs
      /\ LineRead.body = resp.body
  <2>1. resp \in RespType /\ LineRead = WithLine(resp)
    BY <1>0, TInvParts DEF LineRead, WithLine
  <2>2. \A q : q = WithLine(resp)
               => SameResponse(resp, q) /\ q.hdrs = resp.hdrs /\ q.body = resp.body
    BY <2>1, ResponseLine
  <2> QED
    BY <2>1, <2>2
<1>4. CASE ReadResponse
  <2>0. /\ resp'.status = resp.status /\ resp'.framed = resp.framed
        /\ resp'.hdrs = resp.hdrs /\ resp'.body = resp.body
    BY <1>4, <1>l DEF ReadResponse, SameResponse
  <2>1. /\ pc = "status" /\ pos = beg_range /\ beg_range \in Nat
        /\ ~got_clen /\ ~chunked /\ Answer(resp, beg_range)
    BY <1>0, <1>4, TInvParts DEF ReadResponse, Asking, WInv, AtStatus
  <2>2. CASE Die("refused")
    BY <1>0, <2>2, WInvDies
  <2>3. CASE /\ resp.status \in {200, 206, 302}
             /\ resp.status = 206 => beg_range # 0 /\ UNCHANGED <<beg_range, pos>>
             /\ resp.status = 200 => beg_range' = 0 /\ pos' = 0
             /\ pc' = "headers"
             /\ UNCHANGED <<file, fd, got_clen, content_len, chunked, torn>>
    <3>1. FileOK'
      BY <2>3 DEF WInv, FileOK
    <3>2. CASE resp.status = 302
      <4>1. HasLocation(resp'.hdrs)
        BY <2>0, <2>1, <2>3, <3>2 DEF Answer
      <4> QED
        BY <1>0, <2>3, <3>1, <4>1 DEF WInv, AtStatus, AtHeaders, AtBody, CompleteFile
    <3>3. CASE resp.status # 302
      <4>1. Framing'
        BY <2>0, <2>1, <2>3, <3>3 DEF Answer, Framing
      <4>2. PICK v \in Sources : /\ Rest(resp.body, pos', v) /\ beg_range' = pos'
                                 /\ beg_range' # 0 => beg_range' < Size(v)
                                 /\ v = 0 => torn
        <5>1. CASE resp.status = 200
          BY <2>1, <2>3, <5>1 DEF Answer
        <5>2. CASE resp.status = 206
          BY <2>1, <2>3, <5>2 DEF Answer
        <5> QED
          BY <2>3, <3>3, <5>1, <5>2
      <4>3. beg_range' \in Nat /\ pos' = beg_range' /\ beg_range' <= pos'
        BY <2>1, <2>3, <3>3
      <4>4. Since(file', beg_range', pos', v)
        <5>1. \A k \in Nat : \A i \in (k + 1)..k : FALSE
          OBVIOUS
        <5> QED
          BY <4>3, <5>1 DEF Since
      <4>5. Progress(v)'
        <5>1. Rest(resp'.body, pos', v) /\ (v = 0 => torn')
          BY <2>0, <2>3, <4>2
        <5> QED
          BY <4>2, <4>3, <4>4, <5>1 DEF Progress
      <4>6. Sending'
        BY <2>0, <2>1, <2>3, <4>5 DEF Sending
      <4> QED
        BY <1>0, <2>3, <3>1, <4>1, <4>6 DEF WInv, AtStatus, AtHeaders, AtBody, CompleteFile
    <3> QED
      BY <3>2, <3>3
  <2> QED
    BY <1>4, <2>1, <2>2, <2>3 DEF ReadResponse, ResetBegRange
<1>5. CASE NoLine
  BY <1>0, <1>5, WInvDies DEF NoLine
<1>6. CASE ReadHeader
  BY <1>0, <1>6, WInvHeader
<1>7. CASE HeadersEnd
  <2>1. /\ pc = "headers" /\ resp.hdrs = <<>> /\ Line
        /\ resp'.framed = resp.framed /\ resp'.body = resp.body
    BY <1>7, <1>l DEF HeadersEnd, SameResponse
  <2>2. CASE fd = -1 /\ Exists /\ ~opt.o
    <3>1. Die("exists")
      BY <1>7, <2>2 DEF HeadersEnd
    <3> QED
      BY <1>0, <3>1, WInvDies
  <2>3. CASE ~(fd = -1 /\ Exists /\ ~opt.o)
    <3>1. /\ fd' = 1 /\ file' = IF fd = -1 THEN <<>> ELSE file
          /\ pc' = IF chunked THEN "chunk" ELSE "body"
          /\ UNCHANGED <<pos, beg_range, got_clen, content_len, chunked, torn>>
      BY <1>7, <2>3 DEF HeadersEnd
    <3>2. Framing /\ Sending
      BY <2>1, Locations DEF WInv, AtHeaders
    <3>3. Placed(file')
      <4>1. CASE fd = -1
        BY <3>1, <4>1 DEF Placed
      <4>2. CASE fd # -1
        BY <1>0, <3>1, <4>2, TInvParts DEF WInv, FileOK
      <4> QED
        BY <4>1, <4>2
    <3>4. FileOK'
      BY <3>1, <3>3 DEF FileOK
    <3>5. pos = beg_range /\ pos \in Nat
      BY <1>0, <2>1, TInvParts DEF Asking
    <3>6. \A v \in Sources : Progress(v) => Progress(v)'
      <4> SUFFICES ASSUME NEW v \in Sources, Progress(v) PROVE Progress(v)'
        OBVIOUS
      <4>1. Since(file', beg_range, pos, v)
        <5>1. \A i \in (beg_range + 1)..pos : FALSE
          BY <3>5
        <5> QED
          BY <5>1 DEF Since
      <4> QED
        BY <2>1, <3>1, <4>1 DEF Progress
    <3>7. Sending'
      BY <2>1, <3>1, <3>2, <3>6 DEF Sending
    <3>8. AtBody'
      BY <2>1, <3>1, <3>2, <3>7 DEF AtBody, Framing
    <3> QED
      BY <1>0, <3>1, <3>4, <3>8 DEF WInv, AtStatus, AtHeaders, CompleteFile
  <2> QED
    BY <2>2, <2>3
<1>8. CASE CopyData
  <2>1. PICK n \in Nat : Copied(n)
    BY <1>0, <1>8, CopyCopies
  <2>2. pc = "body"
    BY <1>0, <1>8, CopyCopies
  <2>3. fd = 1 /\ Sending /\ Placed(file) /\ (resp.framed => got_clen \/ chunked)
    BY <2>2 DEF WInv, AtBody, FileOK
  <2>4. PICK v \in Sources : Progress(v)
    BY <2>3 DEF Sending
  <2>5. /\ Placed(file')
        /\ Rest(resp'.body, pos', v) /\ beg_range' <= pos'
        /\ Since(file', beg_range', pos', v)
        /\ beg_range' # 0 => beg_range' < Size(v)
        /\ v = 0 => torn'
    BY <1>0, <2>1, <2>3, <2>4, CopyInPlace
  <2>6. Progress(v)'
    BY <2>5 DEF Progress
  <2>7. got_clen' /\ ~chunked' => content_len' = Len(resp'.body)
    <3>1. /\ got_clen' = got_clen /\ chunked' = chunked
          /\ Len(resp'.body) = Len(resp.body) - n
          /\ got_clen => content_len' = content_len - n
      BY <2>1 DEF Copied
    <3> QED
      BY <2>3, <3>1 DEF Sending
  <2>8. Sending'
    BY <2>6, <2>7 DEF Sending
  <2>9. UNCHANGED <<pc, fd, got_clen, chunked>> /\ resp'.framed = resp.framed
    BY <2>1 DEF Copied
  <2>10. AtBody'
    BY <2>2, <2>3, <2>8, <2>9 DEF AtBody
  <2>11. FileOK'
    BY <2>5 DEF FileOK
  <2> QED
    BY <1>0, <2>2, <2>9, <2>10, <2>11 DEF WInv, AtStatus, AtHeaders, CompleteFile
<1>9. CASE EndOfData
  <2>1. pc = "body" /\ AtBody /\ Sending
    BY <1>9 DEF EndOfData, WInv, AtBody
  <2>2. CASE /\ chunked /\ pc' = "chunk"
             /\ UNCHANGED <<opt, runs, file, fd, pos, beg_range, got_clen, content_len,
                            chunked, redir_limit, version, resp, why, torn>>
    <3>1. \A v \in Sources : Progress(v) => Progress(v)'
      BY <2>2 DEF Progress
    <3>2. Sending'
      BY <2>1, <2>2, <3>1 DEF Sending
    <3>3. AtBody'
      BY <2>1, <2>2, <3>2 DEF AtBody
    <3>4. FileOK'
      BY <2>2 DEF WInv, FileOK
    <3> QED
      BY <1>0, <2>2, <3>3, <3>4 DEF WInv, AtStatus, AtHeaders, CompleteFile
  <2>3. CASE Die("premature") /\ UNCHANGED resp
    BY <1>0, <2>3, WInvDies
  <2>5. CASE Die("reset") /\ UNCHANGED resp
    BY <1>0, <2>5, WInvDies
  <2>4. CASE ~chunked /\ content_len = 0 /\ Complete(FALSE) /\ UNCHANGED resp
    <3>1. resp.body \in Seq(Bytes)
      BY <1>0, TInvParts
    <3>2. resp.framed => Len(resp.body) = 0
      BY <2>1, <2>4 DEF AtBody, Sending
    <3>3. resp.framed => resp.body = <<>>
      BY <3>1, <3>2, EmptySeq
    <3> QED
      BY <1>0, <2>1, <2>4, <3>3, WInvComplete DEF Completes
  <2> QED
    BY <1>9, <2>2, <2>3, <2>4, <2>5 DEF EndOfData
<1>10. CASE NextChunk
  <2>1. pc = "chunk" /\ AtBody /\ Sending /\ chunked /\ fd = 1
    BY <1>10 DEF NextChunk, WInv, AtBody
  <2>2. CASE resp.body = <<>> /\ Complete(FALSE) /\ resp' = LineRead
    BY <1>0, <1>l, <2>1, <2>2, WInvComplete DEF Completes, SameResponse
  <2>3. CASE \E n \in 1..Len(resp.body) :
                /\ content_len' = n /\ got_clen' = TRUE
                /\ resp' = [resp EXCEPT !.chunk = n, !.part = FALSE]
                /\ pc' = "body"
                /\ UNCHANGED <<opt, runs, file, fd, pos, beg_range, chunked, redir_limit,
                               version, why, torn>>
    <3>1. PICK n \in 1..Len(resp.body) :
                /\ resp' = WithChunk(resp, n) /\ got_clen' = TRUE
                /\ pc' = "body"
                /\ UNCHANGED <<file, fd, pos, beg_range, chunked, torn>>
      BY <2>3 DEF WithChunk
    <3>2. n \in Nat /\ resp \in RespType
      BY <1>0, TInvParts
    <3>3. SameResponse(resp, resp') /\ resp'.body = resp.body
      <4>1. \A q : q = WithChunk(resp, n) => SameResponse(resp, q) /\ q.body = resp.body
        BY <3>2, ResponseChunk
      <4> QED
        BY <3>1, <4>1
    <3>4. \A v \in Sources : Progress(v) => Progress(v)'
      BY <3>1, <3>3 DEF Progress
    <3>5. Sending'
      BY <2>1, <3>1, <3>4 DEF Sending
    <3>6. AtBody'
      BY <2>1, <3>1, <3>3, <3>5 DEF AtBody, SameResponse
    <3>7. FileOK'
      BY <3>1 DEF WInv, FileOK
    <3> QED
      BY <1>0, <3>1, <3>6, <3>7 DEF WInv, AtStatus, AtHeaders, CompleteFile
  <2> QED
    BY <1>10, <2>2, <2>3 DEF NextChunk
<1>11. CASE Killed
  BY <1>0, <1>11, WInvDies DEF Killed
<1>12. CASE ServerCuts
  <2>0. PICK p \in BOOLEAN : resp' = WithCut(resp, p)
    BY <1>12 DEF ServerCuts, WithCut
  <2>1. /\ resp' = WithCut(resp, p) /\ resp \in RespType /\ Line
        /\ UNCHANGED <<pc, file, fd, pos, beg_range, got_clen, content_len, chunked, torn>>
    BY <1>0, <1>12, <2>0 DEF ServerCuts, TInv, Line
  <2>2. SameResponse(resp, resp') /\ resp'.hdrs = resp.hdrs /\ resp'.body = resp.body
    BY <2>1, ResponseCut, Zenon
  <2> QED
    BY <1>0, <2>1, <2>2, WInvSame DEF SameResponse
<1>13. CASE ServerUpdates
  BY <1>0, <1>13, WInvSame DEF ServerUpdates, Line
<1>15. CASE TornLine
  <2>1. CASE Die("refused") \/ Die("cut")
    BY <1>0, <2>1, WInvDies
  <2>2. CASE Redirect(TRUE)
    <3>1. UNCHANGED <<file, fd>> /\ pc' \in {"request", "dead"}
      BY <2>2 DEF Redirect, Die
    <3>2. FileOK'
      BY <3>1 DEF WInv, FileOK
    <3> QED
      BY <1>0, <3>1, <3>2, WInvRests
  <2>3. CASE /\ pc = "headers" /\ resp.cut
             /\ resp' = [resp EXCEPT !.hdrs = Tail(@), !.part = FALSE]
             /\ UNCHANGED <<pc, file, fd>> /\ resp.hdrs # <<>>
    <3> DEFINE h == Tail(resp.hdrs)
    <3>1. resp' = WithHdrs(resp, h) /\ resp \in RespType /\ h \in Seq(HdrNames)
      BY <1>0, <2>3, TInvParts, HeadTailProperties DEF WithHdrs
    <3> HIDE DEF h
    <3>2. \A q : q = WithHdrs(resp, h) => q.cut = resp.cut /\ ~q.part
      BY <3>1, ResponseHdrs
    <3>3. ~Line'
      BY <2>3, <3>1, <3>2 DEF Line
    <3>4. FileOK'
      BY <2>3 DEF WInv, FileOK
    <3> QED
      BY <1>0, <2>3, <3>3, <3>4 DEF WInv, AtStatus, AtHeaders, AtBody, CompleteFile
  <2>4. CASE /\ pc = "chunk" /\ resp' = LineRead
             /\ got_clen' = TRUE /\ pc' = "body"
             /\ UNCHANGED <<file, fd, pos, beg_range, chunked, torn>>
    <3>1. AtBody /\ Sending /\ chunked /\ fd = 1
      BY <2>4 DEF WInv, AtBody
    <3>2. resp'.framed = resp.framed /\ resp'.body = resp.body
      BY <1>l, <2>4 DEF SameResponse
    <3>3. \A v \in Sources : Progress(v) => Progress(v)'
      BY <2>4, <3>2 DEF Progress
    <3>4. Sending'
      BY <2>4, <3>1, <3>3 DEF Sending
    <3>5. AtBody'
      BY <2>4, <3>1, <3>4 DEF AtBody
    <3>6. FileOK'
      BY <2>4 DEF WInv, FileOK
    <3> QED
      BY <1>0, <2>4, <3>5, <3>6 DEF WInv, AtStatus, AtHeaders, CompleteFile
  <2>5. CASE pc = "chunk" /\ Complete(TRUE) /\ resp' = LineRead
    <3>1. torn' /\ resp'.framed = resp.framed
      BY <1>l, <2>5 DEF Complete, SameResponse
    <3> QED
      BY <1>0, <2>5, <3>1, WInvComplete DEF Completes
  <2> QED
    BY <1>15, <2>1, <2>2, <2>3, <2>4, <2>5 DEF TornLine
<1>14. CASE UNCHANGED vars
  BY <1>0, <1>14, WInvSame DEF vars, Line
<1> QED
  BY <1>1, <1>2, <1>3, <1>4, <1>5, <1>6, <1>7, <1>8, <1>9, <1>10, <1>11, <1>12, <1>13, <1>14, <1>15
     DEF Next, Download

-----------------------------------------------------------------------------
(* Every variable of wget keeps its type in every run: the offset of the   *)
(* output file stays within it, so a write never leaves a hole, and the    *)
(* number of redirections left never reaches 0.                            *)
THEOREM WgetTypeCorrect == Spec => []TypeOK
<1>1. TInv => TypeOK
  BY DEF TInv
<1> QED
  BY <1>1, TInvInit, TInvStep, PTL DEF Spec

(* The invariant of the file, for a server whose redirections name a place. *)
LEMMA WgetInvariant ==
    ASSUME "no_location" \notin ServerMay
    PROVE  Spec => []WInv
<1>1. Init => WInv
  <2> SUFFICES ASSUME Init PROVE WInv
    OBVIOUS
  <2>1. TInv
    BY TInvInit
  <2>2. FileOK /\ pc = "none"
    BY DEF Init, FileOK
  <2> QED
    BY <2>1, <2>2 DEF WInv, AtStatus, AtHeaders, AtBody, CompleteFile
<1>2. WInv /\ [Next]_vars => WInv'
  BY WInvStep
<1> QED
  BY <1>1, <1>2, PTL DEF Spec

(* Whatever the runs of wget before, however they ended and whatever the   *)
(* server served them, a byte of the file is at the place the document has *)
(* it (retrieve_file_data, reset_beg_range_to_zero).  The server sends a   *)
(* Location with every redirection: of one that does not, wget saves the   *)
(* page as if it were the document.                                        *)
THEOREM BytesInPlace ==
    ASSUME "no_location" \notin ServerMay
    PROVE  Spec => []InPlace
<1>1. WInv => InPlace
  BY DEF WInv, FileOK, Placed, InPlace, Exists
<1>2. Spec => []WInv
  BY WgetInvariant
<1> QED
  BY <1>1, <1>2, PTL

(* A download that ends with success and whose end wget could tell leaves  *)
(* the document: no byte of what was in the file before, none missing,     *)
(* wherever a connection broke off (NoLine, TornLine, EndOfData).  A file  *)
(* of another version that -c continued is excepted, and a run that took a *)
(* piece of a line for the line: fgets_trim_sanitize does not tell one     *)
(* from the other, so a piece of a Location is followed, and zeros before  *)
(* the size of a chunk end the download.                                   *)
THEOREM FileComplete ==
    ASSUME "no_location" \notin ServerMay
    PROVE  Spec => []CompleteFile
<1>1. WInv => CompleteFile
  BY DEF WInv
<1>2. Spec => []WInv
  BY WgetInvariant
<1> QED
  BY <1>1, <1>2, PTL

-----------------------------------------------------------------------------
(* The length wget waits for.  A server that sends the Location of a       *)
(* redirection before its Content-Length leaves content_len at 0: what is  *)
(* left of it is then either 0 or what the server still has to send.       *)

LocationFirst == FrameHdrs \cup {<<"location">>, <<"location", "length">>}

Awaited ==
    /\ pc = "request" => content_len = 0
    /\ pc = "status" => ~got_clen /\ ~chunked
    /\ pc = "chunk" => chunked
    /\ pc \in {"status", "headers"} => resp.hdrs \in LocationFirst
    /\ pc = "headers" /\ (got_clen \/ chunked) => resp.hdrs = <<>>
    /\ pc \in {"status", "headers", "body"} /\ ~got_clen /\ ~chunked => content_len = 0
    /\ (pc = "headers" /\ Line) \/ pc = "body" =>
          (got_clen /\ ~chunked => content_len = Len(resp.body))

Blamed == why \in {"premature", "reset"} => pc = "dead" /\ resp.cut

BInv == TInv /\ Awaited /\ Blamed

(* The headers of a response whose Location comes first. *)
LEMMA LocationComesFirst ==
    ASSUME "redirect_length" \notin ServerMay
    PROVE  Redirections \subseteq LocationFirst
BY DEF Redirections, LocationFirst, FrameHdrs

(* Content-Length and Transfer-Encoding come last. *)
LEMMA FirstHeader ==
    ASSUME NEW h \in LocationFirst, h # <<>>
    PROVE  Head(h) \in {"length", "chunked"} => Tail(h) = <<>>
<1>1. CASE h \in FrameHdrs
  BY <1>1, FrameHeaders
<1>2. CASE h = <<"location">>
  BY <1>2
<1>3. CASE h = <<"location", "length">>
  BY <1>3
<1> QED
  BY <1>1, <1>2, <1>3 DEF LocationFirst

(* A run that dies for another reason than the length. *)
LEMMA BInvDies ==
    ASSUME BInv, TInv', NEW reason, Die(reason), reason \notin {"premature", "reset"}
    PROVE  BInv'
BY DEF BInv, Die, Awaited, Blamed

(* wget has the body and ends well. *)
LEMMA BInvComplete ==
    ASSUME BInv, TInv', Completes, pc # "dead"
    PROVE  BInv'
BY DEF BInv, Completes, Complete, Awaited, Blamed

(* A step that changes neither what wget waits for nor what is sent. *)
LEMMA BInvSame ==
    ASSUME BInv, TInv', resp'.hdrs = resp.hdrs, resp'.body = resp.body,
           resp.cut => resp'.cut, Line' => Line, UNCHANGED <<pc, got_clen, content_len, chunked, why, torn>>
    PROVE  BInv'
<1>1. Awaited'
  BY DEF BInv, Awaited
<1>2. Blamed'
  BY DEF BInv, Blamed
<1> QED
  BY <1>1, <1>2 DEF BInv

(* Every step, for a server that never sends a length before the Location. *)
LEMMA BInvStep ==
    ASSUME "redirect_length" \notin ServerMay
    PROVE  BInv /\ [Next]_vars => BInv'
<1> SUFFICES ASSUME BInv, [Next]_vars PROVE BInv'
  OBVIOUS
<1>0. TInv /\ TInv' /\ Awaited /\ Blamed
  BY TInvStep DEF BInv
<1>1. CASE Start
  <2>1. pc' = "request" /\ content_len' = 0 /\ why' = "none"
    BY <1>1 DEF Start
  <2> QED
    BY <1>0, <2>1 DEF BInv, Awaited, Blamed
<1>2. CASE EstablishSession
  <2>1. PICK r \in Responses, i \in Interims : resp' = WithInterim(r, i)
    BY <1>2, InterimsAre DEF EstablishSession, WithInterim
  <2>2. /\ pc = "request" /\ pc' = "status" /\ got_clen' = FALSE /\ chunked' = FALSE
        /\ UNCHANGED <<content_len, why, torn>>
    BY <1>2 DEF EstablishSession
  <2>3. version \in Versions /\ beg_range \in Nat
    BY <1>0, TInvParts
  <2>4. /\ r \in RespType
        /\ r.status = 302 => r.hdrs \in Redirections
        /\ r.status # 302 => r.hdrs \in FrameHdrs
    BY <2>3, ResponsesAre
  <2>5. r.hdrs \in LocationFirst
    BY <2>4, LocationComesFirst DEF LocationFirst
  <2>6. resp'.hdrs = r.hdrs
    BY <2>1, <2>4, ResponseInterim, Zenon
  <2> QED
    BY <1>0, <2>2, <2>5, <2>6 DEF BInv, Awaited, Blamed
<1>3. CASE ReadInterim
  <2> DEFINE i == resp.interim - 1
  <2>1. i \in Interims
    BY <1>0, <1>3, TInvParts, InterimLeft DEF ReadInterim
  <2>2. /\ resp' = WithInterim(resp, i) /\ resp \in RespType
        /\ UNCHANGED <<pc, got_clen, content_len, chunked, why, torn>>
    BY <1>0, <1>3 DEF ReadInterim, WithInterim, TInv
  <2> HIDE DEF i
  <2>3. /\ resp'.hdrs = resp.hdrs /\ resp'.body = resp.body /\ resp'.cut = resp.cut
        /\ resp'.part = resp.part
    BY <2>1, <2>2, ResponseInterim, Zenon
  <2> QED
    BY <1>0, <2>2, <2>3, BInvSame DEF Line
<1>l. LineRead.hdrs = resp.hdrs /\ LineRead.body = resp.body /\ LineRead.cut = resp.cut
  <2>1. resp \in RespType /\ LineRead = WithLine(resp)
    BY <1>0, TInvParts DEF LineRead, WithLine
  <2>2. \A q : q = WithLine(resp)
               => q.hdrs = resp.hdrs /\ q.body = resp.body /\ q.cut = resp.cut
    BY <2>1, ResponseLine
  <2> QED
    BY <2>1, <2>2
<1>4. CASE ReadResponse
  <2>1. CASE Die("refused")
    BY <1>0, <2>1, BInvDies
  <2>2. CASE /\ pc = "status" /\ pc' = "headers" /\ resp' = LineRead
             /\ UNCHANGED <<got_clen, content_len, chunked, why, torn>>
    BY <1>0, <1>l, <2>2 DEF BInv, Awaited, Blamed
  <2> QED
    BY <1>4, <2>1, <2>2 DEF ReadResponse
<1>5. CASE NoLine
  BY <1>0, <1>5, BInvDies DEF NoLine
<1>6. CASE ReadHeader
  <2>1. /\ pc = "headers" /\ Line /\ resp.hdrs # <<>> /\ resp \in RespType
        /\ resp' = WithHdrs(resp, Tail(resp.hdrs)) /\ resp.hdrs \in Seq(HdrNames)
    BY <1>0, <1>6, TInvParts DEF ReadHeader, WithHdrs
  <2>2. resp'.hdrs = Tail(resp.hdrs) /\ resp'.body = resp.body
    <3> DEFINE h == Tail(resp.hdrs)
    <3>1. resp' = WithHdrs(resp, h) /\ resp \in RespType /\ h \in Seq(HdrNames)
      BY <2>1, HeadTailProperties
    <3> HIDE DEF h
    <3>3. \A q : q = WithHdrs(resp, h) => q.hdrs = h /\ q.body = resp.body
      BY <3>1, ResponseHdrs
    <3>2. resp'.hdrs = h /\ resp'.body = resp.body
      BY <3>1, <3>3
    <3> QED
      BY <3>2 DEF h
  <2>3. ~got_clen /\ ~chunked /\ content_len = 0 /\ resp.hdrs \in LocationFirst
    BY <1>0, <2>1 DEF Awaited
  <2>4. Head(resp.hdrs) \in {"length", "chunked"} => resp'.hdrs = <<>>
    BY <2>1, <2>2, <2>3, FirstHeader
  <2>5. why \notin {"premature", "reset"} /\ <<>> \in LocationFirst
    BY <1>0, <2>1 DEF Blamed, LocationFirst, FrameHdrs
  <2>6. CASE /\ Head(resp.hdrs) = "length"
             /\ content_len' = Len(resp.body) /\ got_clen' = TRUE
             /\ UNCHANGED <<pc, chunked, why, torn>>
    BY <1>0, <2>1, <2>2, <2>4, <2>5, <2>6 DEF BInv, Awaited, Blamed
  <2>7. CASE /\ Head(resp.hdrs) = "chunked"
             /\ chunked' = TRUE
             /\ UNCHANGED <<pc, got_clen, content_len, why, torn>>
    BY <1>0, <2>1, <2>2, <2>4, <2>5, <2>7 DEF BInv, Awaited, Blamed
  <2>8. CASE Redirect(FALSE)
    <3>1. CASE redir_limit = 1
      BY <1>0, <2>8, <3>1, BInvDies DEF Redirect
    <3>2. CASE redir_limit # 1
      <4>1. pc' = "request" /\ UNCHANGED <<content_len, why>>
        BY <2>8, <3>2 DEF Redirect
      <4> QED
        BY <1>0, <2>3, <2>5, <4>1 DEF BInv, Awaited, Blamed
    <3> QED
      BY <3>1, <3>2
  <2> QED
    BY <1>6, <2>6, <2>7, <2>8 DEF ReadHeader
<1>7. CASE HeadersEnd
  <2>1. CASE Die("exists")
    BY <1>0, <2>1, BInvDies
  <2>2. CASE /\ pc = "headers" /\ pc' = IF chunked THEN "chunk" ELSE "body"
             /\ UNCHANGED <<got_clen, content_len, chunked, why>>
             /\ Line /\ resp' = LineRead
    BY <1>0, <1>l, <2>2 DEF BInv, Awaited, Blamed
  <2> QED
    BY <1>7, <2>1, <2>2 DEF HeadersEnd
<1>8. CASE CopyData
  <2>1. PICK n \in Nat : Copied(n)
    BY <1>0, <1>8, CopyCopies
  <2>2. pc = "body"
    BY <1>0, <1>8, CopyCopies
  <2>3. /\ UNCHANGED <<pc, got_clen, chunked, why, torn>>
        /\ Len(resp'.body) = Len(resp.body) - n
        /\ got_clen => content_len' = content_len - n
        /\ ~got_clen => content_len' = content_len
    BY <2>1 DEF Copied
  <2> QED
    BY <1>0, <2>2, <2>3 DEF BInv, Awaited, Blamed
<1>9. CASE EndOfData
  <2>1. pc = "body" /\ (Rdsz = 0 \/ Available = 0)
    BY <1>9 DEF EndOfData
  <2>2. CASE chunked /\ pc' = "chunk" /\ UNCHANGED <<chunked, why, torn>>
    BY <1>0, <2>1, <2>2 DEF BInv, Awaited, Blamed
  <2>3. CASE ~chunked /\ content_len # 0 /\ Die("premature") /\ UNCHANGED resp
    <3>1. got_clen /\ content_len = Len(resp.body)
      BY <1>0, <2>1, <2>3 DEF Awaited
    <3>2. Rdsz # 0
      BY <1>0, <2>3, <3>1, TInvParts, SizesAssumption DEF Rdsz, MinOf
    <3>3. resp.cut
      BY <2>1, <2>3, <3>1, <3>2 DEF Available
    <3>4. pc' = "dead" /\ resp'.cut
      BY <2>3, <3>3 DEF Die
    <3> QED
      BY <1>0, <3>4 DEF BInv, Awaited, Blamed
  <2>4. CASE Complete(FALSE)
    BY <1>0, <2>1, <2>4, BInvComplete DEF Completes
  <2>5. CASE resp.cut /\ Die("reset") /\ UNCHANGED resp
    BY <1>0, <2>5 DEF BInv, Awaited, Blamed, Die
  <2> QED
    BY <1>9, <2>2, <2>3, <2>4, <2>5 DEF EndOfData
<1>10. CASE NextChunk
  <2>1. pc = "chunk" /\ chunked
    BY <1>0, <1>10 DEF NextChunk, Awaited
  <2>2. CASE Complete(FALSE)
    BY <1>0, <2>1, <2>2, BInvComplete DEF Completes
  <2>3. CASE pc' = "body" /\ got_clen' = TRUE /\ UNCHANGED <<chunked, why, torn>>
    BY <1>0, <2>1, <2>3 DEF BInv, Awaited, Blamed
  <2> QED
    BY <1>10, <2>2, <2>3 DEF NextChunk
<1>11. CASE Killed
  BY <1>0, <1>11, BInvDies DEF Killed
<1>12. CASE ServerCuts
  <2>0. PICK p \in BOOLEAN : resp' = WithCut(resp, p)
    BY <1>12 DEF ServerCuts, WithCut
  <2>1. /\ resp' = WithCut(resp, p) /\ resp \in RespType /\ Line
        /\ UNCHANGED <<pc, got_clen, content_len, chunked, why, torn>>
    BY <1>0, <1>12, <2>0 DEF ServerCuts, TInv, Line
  <2>2. resp'.hdrs = resp.hdrs /\ resp'.body = resp.body /\ resp'.cut = TRUE
    BY <2>1, ResponseCut, Zenon
  <2> QED
    BY <1>0, <2>1, <2>2, BInvSame
<1>13. CASE ServerUpdates
  BY <1>0, <1>13, BInvSame DEF ServerUpdates, Line
<1>15. CASE TornLine
  <2>1. CASE Die("refused") \/ Die("cut")
    BY <1>0, <2>1, BInvDies
  <2>2. CASE /\ pc = "headers" /\ resp.cut /\ resp.hdrs # <<>>
             /\ resp' = [resp EXCEPT !.hdrs = Tail(@), !.part = FALSE]
             /\ Head(resp.hdrs) = "length" \/ Redirect(TRUE)
             /\ Head(resp.hdrs) = "length" =>
                   (got_clen' = TRUE /\ UNCHANGED <<pc, chunked, why>>) \/ Redirect(TRUE)
    <3> DEFINE h == Tail(resp.hdrs)
    <3>1. resp' = WithHdrs(resp, h) /\ resp \in RespType /\ h \in Seq(HdrNames)
      BY <1>0, <2>2, TInvParts, HeadTailProperties DEF WithHdrs
    <3> HIDE DEF h
    <3>2. \A q : q = WithHdrs(resp, h) => q.hdrs = h /\ q.cut = resp.cut /\ ~q.part
      BY <3>1, ResponseHdrs
    <3>3. resp'.hdrs = h /\ ~Line'
      BY <2>2, <3>1, <3>2 DEF Line
    <3>4. ~got_clen /\ ~chunked /\ content_len = 0 /\ resp.hdrs \in LocationFirst
          /\ why \notin {"premature", "reset"}
      BY <1>0, <2>2 DEF Awaited, Blamed
    <3>5. Head(resp.hdrs) = "length" => h = <<>>
      BY <2>2, <3>4, FirstHeader DEF h
    <3>6. CASE Head(resp.hdrs) = "length" /\ got_clen' = TRUE /\ UNCHANGED <<pc, chunked, why>>
      BY <1>0, <2>2, <3>3, <3>4, <3>5, <3>6 DEF BInv, Awaited, Blamed, LocationFirst, FrameHdrs
    <3>7. CASE Redirect(TRUE)
      <4>1. CASE redir_limit = 1
        BY <1>0, <3>7, <4>1, BInvDies DEF Redirect
      <4>2. CASE redir_limit # 1
        <5>1. pc' = "request" /\ UNCHANGED <<content_len, why>>
          BY <3>7, <4>2 DEF Redirect
        <5> QED
          BY <1>0, <3>4, <5>1 DEF BInv, Awaited, Blamed
      <4> QED
        BY <4>1, <4>2
    <3> QED
      BY <2>2, <3>6, <3>7
  <2>3. CASE pc = "chunk" /\ pc' = "body" /\ got_clen' = TRUE /\ UNCHANGED <<chunked, why>>
    BY <1>0, <2>3 DEF BInv, Awaited, Blamed
  <2>4. CASE pc = "chunk" /\ Complete(TRUE)
    BY <1>0, <2>4, BInvComplete DEF Completes
  <2> QED
    BY <1>15, <2>1, <2>2, <2>3, <2>4 DEF TornLine
<1>14. CASE UNCHANGED vars
  BY <1>0, <1>14, BInvSame DEF vars, Line
<1> QED
  BY <1>1, <1>2, <1>3, <1>4, <1>5, <1>6, <1>7, <1>8, <1>9, <1>10, <1>11, <1>12, <1>13, <1>14, <1>15
     DEF Next, Download

(* wget says "connection closed prematurely" only when it was: the length  *)
(* it misses bytes of is the one of the response it reads.  The hypothesis *)
(* is what it takes: G.content_len is not reset between two requests, so a *)
(* Content-Length before a Location survives into the next response.       *)
THEOREM BlamesRightly ==
    ASSUME "redirect_length" \notin ServerMay
    PROVE  Spec => []BlameIsRight
<1>1. Init => BInv
  <2> SUFFICES ASSUME Init PROVE BInv
    OBVIOUS
  <2>1. TInv /\ pc = "none" /\ why = "none"
    BY TInvInit DEF Init
  <2> QED
    BY <2>1 DEF BInv, Awaited, Blamed
<1>2. BInv /\ [Next]_vars => BInv'
  BY BInvStep
<1>3. BInv => BlameIsRight
  BY DEF BInv, Blamed, BlameIsRight
<1> QED
  BY <1>1, <1>2, <1>3, PTL DEF Spec
=============================================================================
