--------------------------- MODULE WasiTls_proofs ---------------------------
(***************************************************************************)
(* The record layer and the wrapped descriptor, for buffers, records,      *)
(* reads and numbers of connections of any size.                           *)
(***************************************************************************)
EXTENDS WasiTls, WshSequences

-----------------------------------------------------------------------------
(* Cells in their places.  A header is a type cell and a length cell; from *)
(* one header the length leads to the next.  Framed says so of a sequence  *)
(* of cells whose end may be missing, Whole that no end is missing.        *)

TypeCell == {"type"} \X {"data", "handshake", "ccs", "alert"}
LenCell == {"len"} \X Nat
BodyCell == ({"byte"} \X Nat) \cup ({"msg"} \X Messages) \cup {Iv, Mac}
LenOf(c) == c[2]

Linked(S, n) ==
    \A i \in 1..(n - 1) : S[i] \in TypeCell =>
        /\ S[i + 1] \in LenCell
        /\ i + 2 + LenOf(S[i + 1]) <= n => S[i + 2 + LenOf(S[i + 1])] \in TypeCell

Framed(S) == (S # <<>> => S[1] \in TypeCell) /\ Linked(S, Len(S))

Whole(S) ==
    \A i \in 1..Len(S) : S[i] \in TypeCell =>
        i + 1 <= Len(S) /\ i + 1 + LenOf(S[i + 1]) <= Len(S)

(* A record, or the beginning of one. *)
Piece(r) ==
    /\ r \in Seq(Cell) /\ r # <<>> /\ r[1] \in TypeCell
    /\ Len(r) >= 2 => r[2] \in LenCell /\ Len(r) <= 2 + LenOf(r[2])
    /\ \A i \in 2..Len(r) : r[i] \notin TypeCell
AllOf(r) == Len(r) >= 2 /\ Len(r) = 2 + LenOf(r[2])

(* The kinds of cells are disjoint. *)
LEMMA CellKinds ==
    /\ Cell = TypeCell \cup LenCell \cup BodyCell
    /\ \A c \in LenCell : LenOf(c) \in Nat
    /\ \A c \in LenCell \cup BodyCell : c \notin TypeCell
<1>1. Cell = TypeCell \cup LenCell \cup BodyCell
  BY DEF Cell, TypeCell, LenCell, BodyCell
<1>2. \A c \in LenCell : LenOf(c) \in Nat
  BY DEF LenCell, LenOf
<1>3. \A c \in LenCell : c \notin TypeCell
  BY DEF LenCell, TypeCell
<1>4. \A c \in BodyCell : c \notin TypeCell
  BY DEF BodyCell, TypeCell, Iv, Mac
<1> QED
  BY <1>1, <1>2, <1>3, <1>4

(* What the server puts on the wire after whole records. *)
LEMMA FramedAppend ==
    ASSUME NEW S \in Seq(Cell), NEW r, Framed(S), Whole(S), Piece(r)
    PROVE  Framed(S \o r) /\ (AllOf(r) => Whole(S \o r))
<1> DEFINE m == Len(S)
           n == Len(r)
           T == S \o r
<1>1. m \in Nat /\ n \in Nat /\ n >= 1 /\ r \in Seq(Cell)
  BY EmptySeq DEF Piece
<1>2. /\ T \in Seq(Cell) /\ Len(T) = m + n
      /\ \A i \in 1..(m + n) : T[i] = IF i <= m THEN S[i] ELSE r[i - m]
  BY <1>1, ConcatProperties
<1>3. m = 0 => S = <<>>
  BY <1>1, EmptySeq
<1> HIDE DEF T, m, n
<1>4. \A i \in 1..m : T[i] = S[i]
  BY <1>1, <1>2
<1>5. \A i \in 1..n : T[m + i] = r[i]
  BY <1>1, Joined DEF T, m, n
<1>6. T[1] \in TypeCell
  <2>1. CASE m = 0
    <3>1. 1 \in 1..n /\ m + 1 = 1 /\ r[1] \in TypeCell
      BY <1>1, <2>1 DEF Piece
    <3> QED
      BY <1>5, <3>1
  <2>2. CASE m # 0
    <3>1. S # <<>> /\ 1 \in 1..m
      BY <1>1, <2>2 DEF m
    <3> QED
      BY <1>4, <3>1 DEF Framed
  <2> QED
    BY <2>1, <2>2
<1>7. \A i \in 1..(m + n) : T[i] \in TypeCell => i \in 1..m \/ i = m + 1
  <2> SUFFICES ASSUME NEW i \in 1..(m + n), T[i] \in TypeCell, ~(i \in 1..m), i # m + 1
               PROVE  FALSE
    OBVIOUS
  <2>1. i - m \in 2..n /\ i - m \in 1..n /\ m + (i - m) = i
    BY <1>1
  <2>2. r[i - m] \notin TypeCell
    BY <2>1 DEF Piece, n
  <2> QED
    BY <1>5, <2>1, <2>2
<1>8. \A i \in 1..m : S[i] \in TypeCell =>
        /\ i + 1 <= m /\ S[i + 1] \in LenCell /\ i + 1 + LenOf(S[i + 1]) <= m
        /\ i + 2 + LenOf(S[i + 1]) <= m => S[i + 2 + LenOf(S[i + 1])] \in TypeCell
  <2> SUFFICES ASSUME NEW i \in 1..m, S[i] \in TypeCell
               PROVE  /\ i + 1 <= m /\ S[i + 1] \in LenCell /\ i + 1 + LenOf(S[i + 1]) <= m
                      /\ i + 2 + LenOf(S[i + 1]) <= m => S[i + 2 + LenOf(S[i + 1])] \in TypeCell
    OBVIOUS
  <2>1. i + 1 <= m /\ i + 1 + LenOf(S[i + 1]) <= m
    BY DEF Whole, m
  <2>2. i \in 1..(m - 1)
    BY <1>1, <2>1
  <2> QED
    BY <2>1, <2>2 DEF Framed, Linked, m
<1> DEFINE N == m + n
<1>9. Linked(T, N)
  <2>0. N \in Nat /\ N = m + n
    BY <1>1
  <2> HIDE DEF N
  <2> SUFFICES ASSUME NEW i \in 1..(N - 1), T[i] \in TypeCell
               PROVE  /\ T[i + 1] \in LenCell
                      /\ i + 2 + LenOf(T[i + 1]) <= N => T[i + 2 + LenOf(T[i + 1])] \in TypeCell
    BY DEF Linked
  <2>1. i \in 1..m \/ i = m + 1
    BY <1>1, <1>7, <2>0
  <2>2. CASE i \in 1..m
    <3>1. S[i] \in TypeCell
      BY <1>4, <2>2
    <3>2. /\ i + 1 <= m /\ S[i + 1] \in LenCell /\ i + 1 + LenOf(S[i + 1]) <= m
          /\ i + 2 + LenOf(S[i + 1]) <= m => S[i + 2 + LenOf(S[i + 1])] \in TypeCell
      BY <1>8, <2>2, <3>1
    <3>3. i + 1 \in 1..m /\ T[i + 1] = S[i + 1]
      BY <1>1, <1>4, <3>2
    <3> DEFINE k == LenOf(S[i + 1])
    <3>4. k \in Nat
      BY <3>2, CellKinds
    <3> HIDE DEF k
    <3>5. CASE i + 2 + k <= m
      <4>1. i + 2 + k \in 1..m
        BY <1>1, <3>4, <3>5
      <4> QED
        BY <1>4, <3>2, <3>3, <3>5, <4>1 DEF k
    <3>6. CASE i + 2 + k = m + 1
      <4>1. T[m + 1] \in TypeCell
        <5>1. 1 \in 1..n
          BY <1>1
        <5> QED
          BY <1>5, <5>1 DEF Piece
      <4> QED
        BY <3>2, <3>3, <3>6, <4>1 DEF k
    <3>7. i + 2 + k <= m \/ i + 2 + k = m + 1
      <4>1. i + 1 + k <= m
        BY <3>2 DEF k
      <4> QED
        BY <1>1, <3>4, <4>1
    <3> QED
      BY <3>5, <3>6, <3>7
  <2>3. CASE i = m + 1
    <3>1. n >= 2 /\ 2 \in 1..n /\ i + 1 = m + 2
      BY <1>1, <2>0, <2>3
    <3>2. T[i + 1] = r[2] /\ r[2] \in LenCell /\ n <= 2 + LenOf(r[2])
      BY <1>5, <3>1 DEF Piece, n
    <3>3. LenOf(r[2]) \in Nat
      BY <3>2, CellKinds
    <3>4. ~(i + 2 + LenOf(r[2]) <= N)
      BY <1>1, <2>0, <2>3, <3>2, <3>3
    <3> QED
      BY <3>2, <3>4
  <2> QED
    BY <2>1, <2>2, <2>3
<1>10. Framed(T)
  <2>1. Len(T) = m + n
    BY <1>2
  <2> QED
    BY <1>6, <1>9, <2>1 DEF Framed
<1>11. ASSUME AllOf(r) PROVE Whole(T)
  <2>1. n >= 2 /\ n = 2 + LenOf(r[2])
    BY <1>11 DEF AllOf, n
  <2> SUFFICES ASSUME NEW i \in 1..(m + n), T[i] \in TypeCell
               PROVE  i + 1 <= m + n /\ i + 1 + LenOf(T[i + 1]) <= m + n
    BY <1>2 DEF Whole
  <2>2. CASE i \in 1..m
    <3>1. i + 1 <= m /\ i + 1 + LenOf(S[i + 1]) <= m /\ S[i + 1] \in LenCell
      BY <1>4, <1>8, <2>2
    <3>2. T[i + 1] = S[i + 1] /\ LenOf(S[i + 1]) \in Nat
      <4>1. i + 1 \in 1..m
        BY <1>1, <3>1
      <4> QED
        BY <1>4, <3>1, <4>1, CellKinds
    <3> DEFINE k == LenOf(S[i + 1])
    <3>3. i + 1 <= m /\ i + 1 + k <= m /\ k \in Nat /\ LenOf(T[i + 1]) = k
      BY <3>1, <3>2
    <3> HIDE DEF k
    <3>4. i + 1 <= m + n /\ i + 1 + k <= m + n
      BY <1>1, <3>3
    <3> QED
      BY <3>3, <3>4
  <2>3. CASE i = m + 1
    <3>1. 2 \in 1..n /\ i + 1 = m + 2
      BY <1>1, <2>1, <2>3
    <3>2. T[i + 1] = r[2]
      BY <1>5, <3>1
    <3> DEFINE k == LenOf(r[2])
    <3>3. n = 2 + k /\ LenOf(T[i + 1]) = k
      BY <2>1, <3>2
    <3>4. k \in Nat
      BY <2>1, CellKinds DEF Piece, n
    <3> HIDE DEF k
    <3>5. i + 1 <= m + n /\ i + 1 + k <= m + n
      BY <1>1, <2>3, <3>3, <3>4
    <3> QED
      BY <3>3, <3>5
  <2> QED
    BY <1>7, <2>2, <2>3
<1> QED
  BY <1>10, <1>11 DEF T

(* What is left once the first record was taken. *)
LEMMA FramedDrop ==
    ASSUME NEW S \in Seq(Cell), Framed(S), Len(S) >= 2,
           2 + LenOf(S[2]) <= Len(S),
           NEW T, T = SubSeq(S, 2 + LenOf(S[2]) + 1, Len(S))
    PROVE  /\ LenOf(S[2]) \in Nat /\ T \in Seq(Cell)
           /\ Framed(T) /\ (Whole(S) => Whole(T))
<1> DEFINE m == Len(S)
           k == LenOf(S[2])
           n == m - (2 + k)
<1>1. m \in Nat /\ S[1] \in TypeCell
  <2>1. S # <<>>
    BY EmptySeq
  <2> QED
    BY <2>1 DEF Framed
<1>2. S[2] \in LenCell /\ (1 + 2 + k <= m => S[1 + 2 + k] \in TypeCell)
  <2>1. 1 \in 1..(m - 1) /\ 1 + 1 = 2
    BY <1>1
  <2> QED
    BY <1>1, <2>1 DEF Framed, Linked
<1>3. k \in Nat
  BY <1>2, CellKinds
<1> HIDE DEF k
<1>4. n \in Nat
  BY <1>1, <1>3 DEF k
<1> HIDE DEF m
<1>5. /\ T \in Seq(Cell) /\ Len(T) = n
      /\ \A i \in 1..n : T[i] = S[2 + k + i]
  <2>1. 2 + k + 1 \in Nat \ {0} /\ m \in Int /\ m <= Len(S)
    BY <1>1, <1>3 DEF m
  <2>2. /\ T \in Seq(Cell) /\ Len(T) = IF 2 + k + 1 <= m THEN m - (2 + k + 1) + 1 ELSE 0
        /\ \A i \in 1..(m - (2 + k + 1) + 1) : T[i] = S[2 + k + 1 + i - 1]
    BY <2>1, Part DEF k, m
  <2>3. Len(T) = n
    <3>1. \A c : c = (IF 2 + k + 1 <= m THEN m - (2 + k + 1) + 1 ELSE 0) => c = n
      BY <1>1, <1>3, <1>4
    <3> QED
      BY <2>2, <3>1
  <2>4. \A i \in 1..n : i \in 1..(m - (2 + k + 1) + 1) /\ 2 + k + 1 + i - 1 = 2 + k + i
    BY <1>1, <1>3
  <2> QED
    BY <2>2, <2>3, <2>4
<1>6. T # <<>> => T[1] \in TypeCell
  <2> SUFFICES ASSUME T # <<>> PROVE T[1] \in TypeCell
    OBVIOUS
  <2>1. n >= 1
    BY <1>4, <1>5, EmptySeq
  <2>2. 1 \in 1..n /\ 2 + k + 1 = 1 + 2 + k /\ 1 + 2 + k <= m
    BY <1>1, <1>3, <2>1
  <2> QED
    BY <1>2, <1>5, <2>2
<1>7. \A i \in 1..n : \A l \in Nat :
         /\ i < n => 2 + k + i \in 1..(m - 1)
         /\ 2 + k + i \in 1..m
         /\ i + 1 <= n <=> 2 + k + i + 1 <= m
         /\ i + 2 + l <= n <=> 2 + k + i + 2 + l <= m
         /\ i + 1 + l <= n <=> 2 + k + i + 1 + l <= m
         /\ i + 2 + l <= n => i + 2 + l \in 1..n
         /\ i + 1 <= n => i + 1 \in 1..n
         /\ 2 + k + (i + 2 + l) = 2 + k + i + 2 + l
         /\ 2 + k + (i + 1) = 2 + k + i + 1
  BY <1>1, <1>3
<1> HIDE DEF n
<1>8. \A i \in 1..(n - 1) : T[i] \in TypeCell =>
          /\ T[i + 1] \in LenCell
          /\ i + 2 + LenOf(T[i + 1]) <= n => T[i + 2 + LenOf(T[i + 1])] \in TypeCell
  <2> SUFFICES ASSUME NEW i \in 1..(n - 1), T[i] \in TypeCell
               PROVE  /\ T[i + 1] \in LenCell
                      /\ i + 2 + LenOf(T[i + 1]) <= n => T[i + 2 + LenOf(T[i + 1])] \in TypeCell
    OBVIOUS
  <2> DEFINE j == 2 + k + i
  <2>1. i \in 1..n /\ i < n /\ i + 1 <= n /\ 0 \in Nat
    BY <1>4
  <2>2. j \in 1..(m - 1) /\ i + 1 \in 1..n /\ 2 + k + (i + 1) = j + 1
    BY <1>7, <2>1
  <2>3. S[j] \in TypeCell /\ T[i + 1] = S[j + 1]
    BY <1>5, <2>1, <2>2
  <2> HIDE DEF j
  <2>4. S[j + 1] \in LenCell /\ (j + 2 + LenOf(S[j + 1]) <= m => S[j + 2 + LenOf(S[j + 1])] \in TypeCell)
    BY <2>2, <2>3 DEF Framed, Linked, m
  <2> DEFINE l == LenOf(S[j + 1])
  <2>5. l \in Nat
    BY <2>4, CellKinds
  <2> HIDE DEF l
  <2>6. ASSUME i + 2 + l <= n PROVE T[i + 2 + l] \in TypeCell
    <3>1. j + 2 + l <= m /\ i + 2 + l \in 1..n /\ 2 + k + (i + 2 + l) = j + 2 + l
      BY <1>7, <2>1, <2>5, <2>6 DEF j
    <3>2. T[i + 2 + l] = S[j + 2 + l]
      BY <1>5, <3>1
    <3> QED
      BY <2>4, <3>1, <3>2 DEF l
  <2> QED
    BY <2>3, <2>4, <2>6 DEF l
<1>9. Framed(T)
  <2>1. Linked(T, n)
    BY <1>8, Zenon DEF Linked
  <2> QED
    BY <1>5, <1>6, <2>1 DEF Framed
<1>10. ASSUME Whole(S) PROVE Whole(T)
  <2> SUFFICES ASSUME NEW i \in 1..n, T[i] \in TypeCell
               PROVE  i + 1 <= n /\ i + 1 + LenOf(T[i + 1]) <= n
    BY <1>5 DEF Whole
  <2> DEFINE j == 2 + k + i
  <2>1. j \in 1..m /\ S[j] \in TypeCell /\ 0 \in Nat
    BY <1>5, <1>7
  <2>2. j + 1 <= m /\ j + 1 + LenOf(S[j + 1]) <= m
    BY <1>10, <2>1 DEF Whole, m
  <2>3. j \in 1..(m - 1)
    BY <1>1, <2>1, <2>2 DEF m
  <2>4. S[j + 1] \in LenCell
    BY <2>1, <2>3 DEF Framed, Linked, m
  <2>5. LenOf(S[j + 1]) \in Nat
    BY <2>4, CellKinds
  <2>6. i + 1 <= n /\ i + 1 \in 1..n /\ 2 + k + (i + 1) = j + 1
    BY <1>7, <2>1, <2>2
  <2>7. T[i + 1] = S[j + 1]
    BY <1>5, <2>6
  <2> QED
    BY <1>7, <2>2, <2>5, <2>6, <2>7
<1> QED
  BY <1>3, <1>5, <1>9, <1>10 DEF k

(* A record has a header that tells its length, and no other. *)
LEMMA RecordIs ==
    ASSUME NEW t \in {"data", "handshake", "ccs", "alert"}, NEW payload \in Seq(BodyCell),
           NEW enc \in BOOLEAN
    PROVE  Piece(Record(t, payload, enc)) /\ AllOf(Record(t, payload, enc))
<1> DEFINE body == IF enc THEN <<Iv>> \o payload \o <<Mac>> ELSE payload
           h == <<<<"type", t>>, <<"len", Len(body)>>>>
           r == h \o body
           n == Len(body)
<1>1. body \in Seq(BodyCell)
  <2>1. Iv \in BodyCell /\ Mac \in BodyCell
    BY DEF BodyCell
  <2>2. <<Iv>> \in Seq(BodyCell) /\ <<Mac>> \in Seq(BodyCell)
    BY <2>1
  <2>3. <<Iv>> \o payload \in Seq(BodyCell)
    BY <2>2, ConcatProperties
  <2>4. (<<Iv>> \o payload) \o <<Mac>> \in Seq(BodyCell)
    BY <2>2, <2>3, ConcatProperties
  <2> QED
    BY <2>4
<1>2. Record(t, payload, enc) = r
  BY DEF Record
<1> HIDE DEF body
<1>3. n \in Nat /\ body \in Seq(Cell)
  <2>1. BodyCell \subseteq Cell
    BY CellKinds
  <2> QED
    BY <1>1, <2>1, SeqMonotonic
<1>4. <<"type", t>> \in TypeCell /\ <<"len", n>> \in LenCell /\ LenOf(<<"len", n>>) = n
  BY <1>3 DEF TypeCell, LenCell, LenOf
<1>5. <<"type", t>> \in Cell /\ <<"len", n>> \in Cell
  BY <1>4, CellKinds
<1>6. h \in Seq(Cell) /\ Len(h) = 2 /\ h[1] = <<"type", t>> /\ h[2] = <<"len", n>>
  BY <1>5
<1> HIDE DEF h, n
<1>7. /\ r \in Seq(Cell) /\ Len(r) = 2 + n
      /\ \A i \in 1..2 : r[i] = h[i]
      /\ \A i \in 1..n : r[2 + i] = body[i]
  <2>1. /\ r \in Seq(Cell) /\ Len(r) = Len(h) + Len(body)
        /\ \A i \in 1..Len(h) : r[i] = h[i]
        /\ \A i \in 1..Len(body) : r[Len(h) + i] = body[i]
    <3>1. h \in Seq(Cell) /\ body \in Seq(Cell)
      BY <1>3, <1>6
    <3> QED
      BY <3>1, Joined
  <2> HIDE DEF r
  <2> QED
    BY <1>6, <2>1 DEF n
<1> HIDE DEF r
<1>8. r[1] \in TypeCell /\ r[2] \in LenCell /\ LenOf(r[2]) = n
  <2>1. 1 \in 1..2 /\ 2 \in 1..2
    OBVIOUS
  <2>2. r[1] = h[1] /\ r[2] = h[2]
    BY <1>7, <2>1
  <2> QED
    BY <1>4, <1>6, <2>2
<1>9. \A i \in 2..(2 + n) : r[i] \notin TypeCell
  <2> SUFFICES ASSUME NEW i \in 2..(2 + n) PROVE r[i] \notin TypeCell
    OBVIOUS
  <2>1. CASE i = 2
    BY <1>8, <2>1, CellKinds
  <2>2. CASE i # 2
    <3>1. i - 2 \in 1..n /\ 2 + (i - 2) = i
      BY <1>3, <2>2 DEF n
    <3>2. body[i - 2] \in BodyCell
      BY <1>1, <3>1, ElementOfSeq DEF n
    <3>3. r[i] = body[i - 2]
      BY <1>7, <3>1
    <3> QED
      BY <3>2, <3>3, CellKinds
  <2> QED
    BY <2>1, <2>2
<1>10. n \in Nat
  BY <1>3 DEF n
<1>11. r # <<>>
  BY <1>7, <1>10
<1>12. Len(r) >= 2
  BY <1>7, <1>10
<1>13. Piece(r)
  BY <1>7, <1>8, <1>9, <1>10, <1>11 DEF Piece
<1>14. AllOf(r)
  BY <1>7, <1>8, <1>12 DEF AllOf
<1> QED
  BY <1>2, <1>13, <1>14

(* The beginning of a record. *)
LEMMA PieceCut ==
    ASSUME NEW r, Piece(r), NEW n \in 1..Len(r)
    PROVE  Piece(SubSeq(r, 1, n))
<1> DEFINE s == SubSeq(r, 1, n)
<1>1. r \in Seq(Cell) /\ Len(r) \in Nat /\ n \in Nat /\ n >= 1 /\ n <= Len(r)
  BY DEF Piece
<1>2. s \in Seq(Cell) /\ Len(s) = n /\ \A i \in 1..n : s[i] = r[i]
  <2>1. 1 \in Nat \ {0} /\ n \in Int
    BY <1>1
  <2> QED
    BY <1>1, <2>1, Part
<1> HIDE DEF s
<1>3. s # <<>>
  BY <1>1, <1>2
<1>4. s[1] \in TypeCell
  BY <1>1, <1>2 DEF Piece
<1>5. \A i \in 2..n : s[i] \notin TypeCell
  <2> SUFFICES ASSUME NEW i \in 2..n PROVE s[i] \notin TypeCell
    OBVIOUS
  <2>1. i \in 1..n /\ i \in 2..Len(r)
    BY <1>1
  <2> QED
    BY <1>2, <2>1 DEF Piece
<1>6. n >= 2 => s[2] \in LenCell /\ n <= 2 + LenOf(s[2])
  <2> SUFFICES ASSUME n >= 2 PROVE s[2] \in LenCell /\ n <= 2 + LenOf(s[2])
    OBVIOUS
  <2>1. 2 \in 1..n /\ Len(r) >= 2
    BY <1>1
  <2>2. s[2] = r[2] /\ r[2] \in LenCell /\ Len(r) <= 2 + LenOf(r[2])
    BY <1>2, <2>1 DEF Piece
  <2>3. LenOf(r[2]) \in Nat
    BY <2>2, CellKinds
  <2> QED
    BY <1>1, <2>2, <2>3
<1>7. Piece(s)
  BY <1>2, <1>3, <1>4, <1>5, <1>6 DEF Piece
<1> QED
  BY <1>7 DEF s

-----------------------------------------------------------------------------
(* The inductive invariant.  Pending is what the client has not taken yet: *)
(* the cells of tls->inbuf that are still to be read, then the wire.       *)

Stages == DOMAIN ServerMessages \cup {"data", "plain"}
NetType ==
    [stage : Stages, wire : Seq(Cell), closed : BOOLEAN, sent : Nat,
     records : 0..MaxRecords, clear : BOOLEAN, writes : 0..MaxWrites]
TlsType ==
    [inbuf : Seq(Cell), inbuf_size : Nat, ofs_to_buffered : Nat,
     buffered_size : Nat, encrypted : BOOLEAN]

Rewound(t) == SubSeq(t.inbuf, t.ofs_to_buffered + 1, t.ofs_to_buffered + t.buffered_size)

(* A connection over TLS whose records are being read, or may be. *)
Listening == net.stage # "plain" /\ (Reading \/ (pc = "idle" /\ status = "open"))
Kept == IF Reading THEN tls.inbuf ELSE Rewound(tls)

(* w is a sequence of records; the last one may be cut off when the peer   *)
(* closed the connection.                                                  *)
Sound(w, closed) == Framed(w) /\ (~closed => Whole(w))
RecordsInv == Listening => Sound(Kept \o net.wire, net.closed)

SpaceInv ==
    /\ Total <= tls.inbuf_size /\ tls.inbuf_size <= MAX_INBUF
    /\ Listening /\ pc = "idle" =>
          /\ tls.ofs_to_buffered + tls.buffered_size <= Total
          /\ read_pos < read_avail => RECHDR_LEN + read_avail <= Total

(* TLS is active on a descriptor from the end of its handshake on. *)
ActiveInv ==
    /\ g_tls_fd <= fd
    /\ Reading => net.stage # "plain" /\ status = "open"
    /\ pc = "read" => g_tls_fd = fd
    /\ pc = "idle" => (g_tls_fd = fd <=> net.stage # "plain")

(* The flags that tell the wrapped calls that TLS itself is the caller     *)
(* stay set only by a death.                                               *)
Died == pc = "none" /\ "read" \in died
FlagsInv ==
    /\ in_write => "write" \in died
    /\ in_read => pc = "read" \/ Died
    /\ net.clear /\ net.stage # "plain" => "write" \in died

Inv == TypeOK /\ RecordsInv /\ SpaceInv /\ ActiveInv /\ FlagsInv

-----------------------------------------------------------------------------
(* Changes of one field *)

SetStage(n, s) == [n EXCEPT !.stage = s]
SetWire(n, w) == [n EXCEPT !.wire = w]
SetClosed(n) == [n EXCEPT !.closed = TRUE]
SetSent(n, k) == [n EXCEPT !.sent = k]
SetRecords(n, k) == [n EXCEPT !.records = k]
SetClear(n) == [n EXCEPT !.clear = TRUE]
SetWrites(n, k) == [n EXCEPT !.writes = k]

(* The server enters another stage; nothing else changes. *)
LEMMA NetStage ==
    ASSUME NEW n \in NetType, NEW s \in Stages
    PROVE  LET m == SetStage(n, s) IN
           /\ m \in NetType /\ m.stage = s /\ m.wire = n.wire /\ m.closed = n.closed
           /\ m.sent = n.sent /\ m.records = n.records /\ m.clear = n.clear /\ m.writes = n.writes
BY DEF NetType, SetStage

(* The wire changes and nothing else. *)
LEMMA NetWire ==
    ASSUME NEW n \in NetType, NEW w \in Seq(Cell)
    PROVE  LET m == SetWire(n, w) IN
           /\ m \in NetType /\ m.stage = n.stage /\ m.wire = w /\ m.closed = n.closed
           /\ m.sent = n.sent /\ m.records = n.records /\ m.clear = n.clear /\ m.writes = n.writes
BY DEF NetType, SetWire

(* The peer closes the connection. *)
LEMMA NetClosed ==
    ASSUME NEW n \in NetType
    PROVE  LET m == SetClosed(n) IN
           /\ m \in NetType /\ m.stage = n.stage /\ m.wire = n.wire /\ m.closed = TRUE
           /\ m.sent = n.sent /\ m.records = n.records /\ m.clear = n.clear /\ m.writes = n.writes
<1>1. TRUE \in BOOLEAN
  BY Zenon
<1> QED
  BY <1>1 DEF NetType, SetClosed

(* The peer counts the bytes it sent. *)
LEMMA NetSent ==
    ASSUME NEW n \in NetType, NEW k \in Nat
    PROVE  LET m == SetSent(n, k) IN
           /\ m \in NetType /\ m.stage = n.stage /\ m.wire = n.wire /\ m.closed = n.closed
           /\ m.sent = k /\ m.records = n.records /\ m.clear = n.clear /\ m.writes = n.writes
BY DEF NetType, SetSent

(* The records the server adds are counted. *)
LEMMA NetRecords ==
    ASSUME NEW n \in NetType, NEW k \in 0..MaxRecords
    PROVE  LET m == SetRecords(n, k) IN
           /\ m \in NetType /\ m.stage = n.stage /\ m.wire = n.wire /\ m.closed = n.closed
           /\ m.sent = n.sent /\ m.records = k /\ m.clear = n.clear /\ m.writes = n.writes
BY DEF NetType, SetRecords

(* Bytes leave in clear. *)
LEMMA NetClear ==
    ASSUME NEW n \in NetType
    PROVE  LET m == SetClear(n) IN
           /\ m \in NetType /\ m.stage = n.stage /\ m.wire = n.wire /\ m.closed = n.closed
           /\ m.sent = n.sent /\ m.records = n.records /\ m.clear = TRUE /\ m.writes = n.writes
<1>1. TRUE \in BOOLEAN
  BY Zenon
<1> QED
  BY <1>1 DEF NetType, SetClear

(* The writes of the client are counted. *)
LEMMA NetWrites ==
    ASSUME NEW n \in NetType, NEW k \in 0..MaxWrites
    PROVE  LET m == SetWrites(n, k) IN
           /\ m \in NetType /\ m.stage = n.stage /\ m.wire = n.wire /\ m.closed = n.closed
           /\ m.sent = n.sent /\ m.records = n.records /\ m.clear = n.clear /\ m.writes = k
BY DEF NetType, SetWrites

-----------------------------------------------------------------------------
(* The server *)

Appends(n, m) == \E r : Piece(r) /\ AllOf(r) /\ m.wire = n.wire \o r
AppendsPart(n, m) == \E r : Piece(r) /\ m.wire = n.wire \o r

Sends(n, m) ==
    /\ m \in NetType /\ m.clear = n.clear
    /\ m.stage = "plain" <=> n.stage = "plain"
    /\ \/ n.stage = "plain"
       \/ m.wire = n.wire
       \/ Appends(n, m)
       \/ AppendsPart(n, m) /\ m.closed

Pushed(n, m) ==
    /\ m \in NetType /\ m.stage = n.stage /\ m.closed = n.closed /\ m.sent = n.sent
    /\ m.records = n.records /\ m.clear = n.clear /\ m.writes = n.writes
    /\ Appends(n, m)

Types == {"data", "handshake", "ccs", "alert"}

(* A piece of a record is a sequence of cells. *)
LEMMA PieceIsSeq ==
    ASSUME NEW r, Piece(r)
    PROVE  r \in Seq(Cell)
BY DEF Piece

(* A record goes on the wire. *)
LEMMA PushPushes ==
    ASSUME net \in NetType, NEW t \in Types, NEW payload \in Seq(BodyCell)
    PROVE  Pushed(net, Push(t, payload))
<1> DEFINE r == Record(t, payload, Encrypting(net.stage))
           w == net.wire \o r
           q == SetWire(net, w)
<1>1. Encrypting(net.stage) \in BOOLEAN
  BY DEF Encrypting
<1>2. Piece(r) /\ AllOf(r)
  <2>1. t \in {"data", "handshake", "ccs", "alert"}
    BY DEF Types
  <2> QED
    BY <1>1, <2>1, RecordIs, Zenon
<1> HIDE DEF r
<1>3. r \in Seq(Cell) /\ net.wire \in Seq(Cell)
  BY <1>2, PieceIsSeq DEF NetType
<1>4. w \in Seq(Cell)
  BY <1>3, ConcatProperties
<1>5. Push(t, payload) = q
  BY DEF Push, SetWire, r
<1> HIDE DEF w
<1>6. /\ q \in NetType /\ q.stage = net.stage /\ q.wire = w /\ q.closed = net.closed
      /\ q.sent = net.sent /\ q.records = net.records /\ q.clear = net.clear
      /\ q.writes = net.writes
  BY <1>4, NetWire
<1> HIDE DEF q
<1>7. Appends(net, q)
  BY <1>2, <1>6 DEF Appends, w
<1>8. Pushed(net, q)
  BY <1>6, <1>7 DEF Pushed
<1> QED
  BY <1>5, <1>8

(* A record beyond the handshake is appended whole. *)
LEMMA ExtraPushes ==
    ASSUME net \in NetType, net.records < MaxRecords, NEW t \in Types,
           NEW payload \in Seq(BodyCell)
    PROVE  LET m == Extra(t, payload) IN
           /\ m \in NetType /\ m.stage = net.stage /\ m.closed = net.closed
           /\ m.sent = net.sent /\ m.clear = net.clear /\ Appends(net, m)
<1> DEFINE q == Push(t, payload)
           k == q.records + 1
           m == SetRecords(q, k)
<1>1. Pushed(net, q)
  BY PushPushes
<1>2. Extra(t, payload) = m
  BY DEF Extra, SetRecords
<1> HIDE DEF q
<1>3. q \in NetType /\ q.records = net.records
  BY <1>1 DEF Pushed
<1>4. k \in 0..MaxRecords
  <2>1. net.records \in 0..MaxRecords
    BY DEF NetType
  <2> QED
    BY <1>3, <2>1, BoundsAssumption
<1> HIDE DEF k
<1>5. /\ m \in NetType /\ m.stage = q.stage /\ m.closed = q.closed /\ m.wire = q.wire
      /\ m.sent = q.sent /\ m.clear = q.clear
  BY <1>3, <1>4, NetRecords
<1> HIDE DEF m
<1>6. /\ m.stage = net.stage /\ m.closed = net.closed /\ m.sent = net.sent
      /\ m.clear = net.clear
  BY <1>1, <1>5 DEF Pushed
<1>7. Appends(net, m)
  BY <1>1, <1>5 DEF Pushed, Appends
<1> QED
  BY <1>2, <1>5, <1>6, <1>7

(* The payloads. *)
LEMMA Payloads ==
    /\ \A m \in Messages : <<Msg(m)>> \in Seq(BodyCell)
    /\ \A n, k \in Nat : [i \in 1..n |-> Byte(k + i)] \in Seq(BodyCell)
    /\ \A n \in Nat : [i \in 1..n |-> Byte(0)] \in Seq(BodyCell)
    /\ <<Byte(0)>> \in Seq(BodyCell)
<1>1. \A m \in Messages : Msg(m) \in BodyCell
  BY DEF BodyCell, Msg
<1>2. \A k \in Nat : Byte(k) \in BodyCell
  BY DEF BodyCell, Byte
<1>3. ASSUME NEW n \in Nat, NEW k \in Nat
      PROVE  [i \in 1..n |-> Byte(k + i)] \in Seq(BodyCell)
  <2>1. \A i \in 1..n : k + i \in Nat
    OBVIOUS
  <2>2. \A i \in 1..n : Byte(k + i) \in BodyCell
    BY <1>2, <2>1
  <2>3. [i \in 1..n |-> Byte(k + i)] \in [1..n -> BodyCell]
    BY <2>2
  <2> QED
    BY <2>3, FunctionIsSeq
<1>4. ASSUME NEW n \in Nat
      PROVE  [i \in 1..n |-> Byte(0)] \in Seq(BodyCell)
  <2>1. [i \in 1..n |-> Byte(0)] \in [1..n -> BodyCell]
    BY <1>2
  <2> QED
    BY <2>1, FunctionIsSeq
<1>5. <<Byte(0)>> \in Seq(BodyCell)
  <2>1. Byte(0) \in BodyCell
    BY <1>2
  <2> QED
    BY <2>1
<1>6. ASSUME NEW m \in Messages PROVE <<Msg(m)>> \in Seq(BodyCell)
  <2>1. Msg(m) \in BodyCell
    BY <1>1, Zenon
  <2>2. \A c \in BodyCell : <<c>> \in Seq(BodyCell)
    OBVIOUS
  <2> QED
    BY <2>1, <2>2, Zenon
<1> QED
  BY <1>3, <1>4, <1>5, <1>6

(* The order of the handshake. *)
LEMMA Order ==
    ASSUME NEW m \in DOMAIN ServerMessages
    PROVE  /\ m \in Messages /\ m # "plain" /\ m # "data" /\ m \in Handshaking
           /\ ServerMessages[m] \in Stages /\ ServerMessages[m] # "plain"
           /\ m # "finished" => ServerMessages[m] \in Handshaking
<1>1. m \in {"server_hello", "certificate", "server_key_exchange", "certificate_request",
             "server_hello_done", "change_cipher_spec", "finished"}
  BY DEF ServerMessages
<1>2. /\ "certificate" \in Stages /\ "server_key_exchange" \in Stages
      /\ "certificate_request" \in Stages /\ "server_hello_done" \in Stages
      /\ "change_cipher_spec" \in Stages /\ "finished" \in Stages /\ "data" \in Stages
  BY DEF Stages, ServerMessages
<1>3. m \in Messages /\ m # "plain" /\ m # "data" /\ m \in Handshaking
  <2>1. m \in Messages
    BY DEF Messages
  <2>2. m # "plain" /\ m # "data"
    BY <1>1
  <2> QED
    BY <1>1, <2>1, <2>2 DEF Handshaking
<1>4. CASE m = "server_hello"
  <2>1. ServerMessages[m] = "certificate"
    BY <1>4 DEF ServerMessages
  <2> QED
    BY <1>2, <1>3, <2>1 DEF Handshaking
<1>5. CASE m = "certificate"
  <2>1. ServerMessages[m] = "server_key_exchange"
    BY <1>5 DEF ServerMessages
  <2> QED
    BY <1>2, <1>3, <2>1 DEF Handshaking
<1>6. CASE m = "server_key_exchange"
  <2>1. ServerMessages[m] = "certificate_request"
    BY <1>6 DEF ServerMessages
  <2> QED
    BY <1>2, <1>3, <2>1 DEF Handshaking
<1>7. CASE m = "certificate_request"
  <2>1. ServerMessages[m] = "server_hello_done"
    BY <1>7 DEF ServerMessages
  <2> QED
    BY <1>2, <1>3, <2>1 DEF Handshaking
<1>8. CASE m = "server_hello_done"
  <2>1. ServerMessages[m] = "change_cipher_spec"
    BY <1>8 DEF ServerMessages
  <2> QED
    BY <1>2, <1>3, <2>1 DEF Handshaking
<1>9. CASE m = "change_cipher_spec"
  <2>1. ServerMessages[m] = "finished"
    BY <1>9 DEF ServerMessages
  <2> QED
    BY <1>2, <1>3, <2>1 DEF Handshaking
<1>10. CASE m = "finished"
  <2>1. ServerMessages[m] = "data"
    BY <1>10 DEF ServerMessages
  <2> QED
    BY <1>2, <1>3, <1>10, <2>1
<1> QED
  BY <1>1, <1>4, <1>5, <1>6, <1>7, <1>8, <1>9, <1>10

(* The server sends the records of its handshake whole. *)
LEMMA HandshakeSends ==
    ASSUME net \in NetType, ServerHandshake
    PROVE  Sends(net, net')
<1> DEFINE m == net.stage
           t == IF m = "change_cipher_spec" THEN "ccs" ELSE "handshake"
           next == ServerMessages[m]
           q == Push(t, <<Msg(m)>>)
<1>1. m \in DOMAIN ServerMessages
  BY DEF ServerHandshake
<1>2. m \in Messages /\ m # "plain" /\ next \in Stages /\ next # "plain"
  BY <1>1, Order
<1>3. net' = SetStage(q, next) \/ net' = SetStage(net, next)
  BY DEF ServerHandshake, SetStage
<1>4. t \in Types /\ <<Msg(m)>> \in Seq(BodyCell)
  BY <1>2, Payloads DEF Types
<1>5. Pushed(net, q)
  BY <1>4, PushPushes
<1> HIDE DEF q, next
<1>6. CASE net' = SetStage(net, next)
  <2>1. net' \in NetType /\ net'.clear = net.clear /\ net'.stage = next /\ net'.wire = net.wire
    BY <1>2, <1>6, NetStage
  <2> QED
    BY <1>2, <2>1 DEF Sends
<1>7. CASE net' = SetStage(q, next)
  <2>1. q \in NetType
    BY <1>5 DEF Pushed
  <2>2. net' \in NetType /\ net'.clear = q.clear /\ net'.stage = next /\ net'.wire = q.wire
    BY <1>2, <1>7, <2>1, NetStage
  <2>3. Appends(net, net') /\ net'.clear = net.clear
    BY <1>5, <2>2 DEF Pushed, Appends
  <2> QED
    BY <1>2, <2>2, <2>3 DEF Sends
<1> QED
  BY <1>3, <1>6, <1>7

(* Application data, or another record. *)
LEMMA ExtraSends ==
    ASSUME net \in NetType, net.records < MaxRecords, NEW t \in Types,
           NEW payload \in Seq(BodyCell)
    PROVE  Sends(net, Extra(t, payload))
<1> DEFINE m == Extra(t, payload)
<1>1. /\ m \in NetType /\ m.stage = net.stage /\ m.clear = net.clear /\ Appends(net, m)
  BY ExtraPushes
<1> HIDE DEF m
<1>2. Sends(net, m)
  BY <1>1 DEF Sends
<1> QED
  BY <1>2 DEF m

(* The server sends records of data, or an alert, whole. *)
LEMMA SendsSends ==
    ASSUME net \in NetType, ServerSends
    PROVE  Sends(net, net')
<1>1. net.records < MaxRecords /\ net.sent \in Nat /\ net.wire \in Seq(Cell)
      /\ net.records \in 0..MaxRecords
  BY DEF ServerSends, NetType
<1>2. "data" \in Types /\ "handshake" \in Types /\ "alert" \in Types
  BY DEF Types
<1>3. DataSizes \subseteq Nat /\ MAX_INBUF \in Nat
  BY SizesAssumption
<1>4. CASE \E n \in DataSizes :
             net' = [Extra("data", [i \in 1..n |-> Byte(net.sent + i)]) EXCEPT !.sent = @ + n]
  <2> DEFINE p(n) == [i \in 1..n |-> Byte(net.sent + i)]
  <2>1. PICK n \in DataSizes : net' = [Extra("data", p(n)) EXCEPT !.sent = @ + n]
    BY <1>4
  <2>2. n \in Nat /\ p(n) \in Seq(BodyCell)
    BY <1>1, <1>3, Payloads
  <2> DEFINE q == Extra("data", p(n))
             k == q.sent + n
  <2>3. /\ q \in NetType /\ q.stage = net.stage /\ q.closed = net.closed
        /\ q.sent = net.sent /\ q.clear = net.clear /\ Appends(net, q)
    BY <1>1, <1>2, <2>2, ExtraPushes
  <2>4. net' = SetSent(q, k)
    BY <2>1 DEF SetSent
  <2> HIDE DEF q
  <2>5. k \in Nat
    BY <1>1, <2>2, <2>3
  <2> HIDE DEF k
  <2>6. net' \in NetType /\ net'.stage = q.stage /\ net'.wire = q.wire /\ net'.clear = q.clear
    BY <2>3, <2>4, <2>5, NetSent
  <2>7. Appends(net, net')
    BY <2>3, <2>6 DEF Appends
  <2> QED
    BY <2>3, <2>6, <2>7 DEF Sends
<1>5. CASE net' \in {OtherRecords[a] : a \in DOMAIN OtherRecords \cap ServerMay}
  <2>1. PICK a \in DOMAIN OtherRecords : net' = OtherRecords[a]
    BY <1>5
  <2>2. a \in {"long", "hello_request", "warning", "undefined", "fatal"}
    BY DEF OtherRecords
  <2>3. /\ "hello_request" \in Messages /\ "warning" \in Messages
        /\ "undefined" \in Messages /\ "fatal" \in Messages
    BY DEF Messages
  <2>4. \A m \in Messages : <<Msg(m)>> \in Seq(BodyCell)
    BY Payloads
  <2>5. CASE a = "long"
    <3>1. net' = Extra("data", [i \in 1..MAX_INBUF |-> Byte(0)])
      BY <2>1, <2>5 DEF OtherRecords
    <3>2. [i \in 1..MAX_INBUF |-> Byte(0)] \in Seq(BodyCell)
      BY <1>3, Payloads
    <3> QED
      BY <1>1, <1>2, <3>1, <3>2, ExtraSends
  <2>6. CASE a = "hello_request"
    <3>1. net' = Extra("handshake", <<Msg("hello_request")>>)
      BY <2>1, <2>6 DEF OtherRecords
    <3> QED
      BY <1>1, <1>2, <2>3, <2>4, <3>1, ExtraSends
  <2>7. CASE a = "warning"
    <3>1. net' = Extra("alert", <<Msg("warning")>>)
      BY <2>1, <2>7 DEF OtherRecords
    <3> QED
      BY <1>1, <1>2, <2>3, <2>4, <3>1, ExtraSends
  <2>8. CASE a = "undefined"
    <3>1. net' = Extra("alert", <<Msg("undefined")>>)
      BY <2>1, <2>8 DEF OtherRecords
    <3> QED
      BY <1>1, <1>2, <2>3, <2>4, <3>1, ExtraSends
  <2>9. CASE a = "fatal"
    <3>1. net' = Extra("alert", <<Msg("fatal")>>)
      BY <2>1, <2>9 DEF OtherRecords
    <3> QED
      BY <1>1, <1>2, <2>3, <2>4, <3>1, ExtraSends
  <2> QED
    BY <2>2, <2>5, <2>6, <2>7, <2>8, <2>9
<1>6. CASE /\ net.stage = "plain"
           /\ \E n \in DataSizes \ {0} :
                 net' = [net EXCEPT !.wire = @ \o [i \in 1..n |-> Byte(net.sent + i)],
                                    !.records = @ + 1, !.sent = @ + n]
  <2> DEFINE p(n) == [i \in 1..n |-> Byte(net.sent + i)]
             w(n) == net.wire \o p(n)
             k == net.records + 1
             s(n) == net.sent + n
             q1(n) == SetWire(net, w(n))
             q2(n) == SetRecords(q1(n), k)
  <2>1. PICK n \in DataSizes : net' = [net EXCEPT !.wire = w(n), !.records = k, !.sent = s(n)]
    BY <1>6
  <2>2. n \in Nat /\ p(n) \in Seq(BodyCell)
    BY <1>1, <1>3, Payloads
  <2>3. p(n) \in Seq(Cell)
    <3>1. BodyCell \subseteq Cell
      BY CellKinds
    <3> QED
      BY <2>2, <3>1, SeqMonotonic
  <2> HIDE DEF p
  <2>4. w(n) \in Seq(Cell)
    BY <1>1, <2>3, ConcatProperties
  <2>5. k \in 0..MaxRecords /\ s(n) \in Nat
    BY <1>1, <2>2, BoundsAssumption
  <2>6. net' = SetSent(q2(n), s(n))
    BY <2>1 DEF SetSent, SetRecords, SetWire
  <2> HIDE DEF w, k, s
  <2>7. q1(n) \in NetType /\ q1(n).stage = net.stage /\ q1(n).clear = net.clear
    BY <2>4, NetWire
  <2> HIDE DEF q1
  <2>8. q2(n) \in NetType /\ q2(n).stage = q1(n).stage /\ q2(n).clear = q1(n).clear
    BY <2>5, <2>7, NetRecords
  <2> HIDE DEF q2
  <2>9. net' \in NetType /\ net'.stage = q2(n).stage /\ net'.clear = q2(n).clear
    BY <2>5, <2>6, <2>8, NetSent
  <2> QED
    BY <1>6, <2>7, <2>8, <2>9 DEF Sends
<1> QED
  BY <1>4, <1>5, <1>6 DEF ServerSends

(* The peer closes, perhaps in the middle of a record. *)
LEMMA ClosesSends ==
    ASSUME net \in NetType, ServerCloses
    PROVE  Sends(net, net')
<1>1. net.wire \in Seq(Cell)
  BY DEF NetType
<1>2. CASE net' = [Push("alert", <<Msg("close_notify")>>) EXCEPT !.closed = TRUE]
  <2> DEFINE q == Push("alert", <<Msg("close_notify")>>)
  <2>1. Pushed(net, q)
    <3>1. "close_notify" \in Messages /\ "alert" \in Types
      BY DEF Messages, Types
    <3> QED
      BY <3>1, Payloads, PushPushes
  <2>2. net' = SetClosed(q)
    BY <1>2 DEF SetClosed
  <2> HIDE DEF q
  <2>3. q \in NetType
    BY <2>1 DEF Pushed
  <2>4. net' \in NetType /\ net'.stage = q.stage /\ net'.wire = q.wire /\ net'.clear = q.clear
    BY <2>2, <2>3, NetClosed
  <2>5. Appends(net, net') /\ net'.stage = net.stage /\ net'.clear = net.clear
    BY <2>1, <2>4 DEF Pushed, Appends
  <2> QED
    BY <2>4, <2>5 DEF Sends
<1>3. CASE net' = [net EXCEPT !.closed = TRUE]
  <2>1. net' = SetClosed(net)
    BY <1>3 DEF SetClosed
  <2>2. /\ net' \in NetType /\ net'.stage = net.stage /\ net'.wire = net.wire
        /\ net'.clear = net.clear
    BY <2>1, NetClosed
  <2> QED
    BY <2>2 DEF Sends
<1>4. CASE \E n \in 1..(Len(Record("data", <<Byte(0)>>, Encrypting(net.stage))) - 1) :
              net' = [net EXCEPT !.wire =
                        @ \o SubSeq(Record("data", <<Byte(0)>>, Encrypting(net.stage)), 1, n),
                        !.closed = TRUE]
  <2> DEFINE r == Record("data", <<Byte(0)>>, Encrypting(net.stage))
             c(n) == SubSeq(r, 1, n)
             w(n) == net.wire \o c(n)
             q(n) == SetWire(net, w(n))
  <2>1. PICK n \in 1..(Len(r) - 1) : net' = [net EXCEPT !.wire = w(n), !.closed = TRUE]
    BY <1>4
  <2>2. Piece(r)
    <3>1. Encrypting(net.stage) \in BOOLEAN /\ "data" \in {"data", "handshake", "ccs", "alert"}
      BY DEF Encrypting
    <3> QED
      BY <3>1, Payloads, RecordIs
  <2>3. net' = SetClosed(q(n))
    BY <2>1 DEF SetClosed, SetWire
  <2> HIDE DEF r
  <2>4. n \in 1..Len(r)
    BY <2>2 DEF Piece
  <2>5. Piece(c(n))
    BY <2>2, <2>4, PieceCut
  <2> HIDE DEF c
  <2>6. w(n) \in Seq(Cell)
    BY <1>1, <2>5, PieceIsSeq, ConcatProperties
  <2>7. AppendsPart(net, [wire |-> w(n)])
    BY <2>5 DEF AppendsPart
  <2> HIDE DEF w
  <2>8. q(n) \in NetType /\ q(n).stage = net.stage /\ q(n).wire = w(n) /\ q(n).clear = net.clear
    BY <2>6, NetWire
  <2> HIDE DEF q
  <2>9. /\ net' \in NetType /\ net'.stage = q(n).stage /\ net'.wire = q(n).wire
        /\ net'.clear = q(n).clear /\ net'.closed = TRUE
    BY <2>3, <2>8, NetClosed
  <2>10. AppendsPart(net, net')
    BY <2>7, <2>8, <2>9 DEF AppendsPart
  <2> QED
    BY <2>8, <2>9, <2>10 DEF Sends
<1> QED
  BY <1>2, <1>3, <1>4 DEF ServerCloses

(* What is sent goes on where the records before it end. *)
LEMMA SoundSent ==
    ASSUME NEW k \in Seq(Cell), NEW n \in NetType, Sound(k \o n.wire, n.closed), ~n.closed,
           NEW m, Sends(n, m), n.stage # "plain"
    PROVE  Sound(k \o m.wire, m.closed)
<1> DEFINE w == k \o n.wire
<1>1. n.wire \in Seq(Cell)
  BY DEF NetType
<1>2. w \in Seq(Cell) /\ Framed(w) /\ Whole(w)
  BY <1>1, ConcatProperties DEF Sound
<1>3. \A r : Piece(r) /\ m.wire = n.wire \o r => k \o m.wire = w \o r
  <2> SUFFICES ASSUME NEW r, Piece(r), m.wire = n.wire \o r PROVE k \o m.wire = w \o r
    OBVIOUS
  <2>1. r \in Seq(Cell)
    BY PieceIsSeq
  <2>2. \A u \in Seq(Cell) : (k \o u) \o r = k \o (u \o r)
    BY <2>1, ConcatAssociative
  <2> QED
    BY <1>1, <2>2, Zenon
<1>4. CASE m.wire = n.wire
  BY <1>2, <1>4 DEF Sound
<1> HIDE DEF w
<1>5. CASE Appends(n, m)
  <2>1. PICK r : Piece(r) /\ AllOf(r) /\ m.wire = n.wire \o r
    BY <1>5 DEF Appends
  <2>2. Framed(w \o r) /\ Whole(w \o r)
    BY <1>2, <2>1, FramedAppend
  <2> QED
    BY <1>3, <2>1, <2>2 DEF Sound
<1>6. CASE AppendsPart(n, m) /\ m.closed
  <2>1. PICK r : Piece(r) /\ m.wire = n.wire \o r
    BY <1>6 DEF AppendsPart
  <2>2. Framed(w \o r)
    BY <1>2, <2>1, FramedAppend
  <2> QED
    BY <1>3, <1>6, <2>1, <2>2 DEF Sound
<1> QED
  BY <1>4, <1>5, <1>6 DEF Sends

(* What every action starts from. *)
LEMMA InvParts ==
    ASSUME Inv
    PROVE  /\ tls \in TlsType /\ tls.inbuf \in Seq(Cell) /\ Total \in Nat
           /\ tls.inbuf_size \in Nat /\ tls.ofs_to_buffered \in Nat /\ tls.buffered_size \in Nat
           /\ net \in NetType /\ net.wire \in Seq(Cell) /\ Len(net.wire) \in Nat
           /\ Total <= tls.inbuf_size /\ tls.inbuf_size <= MAX_INBUF
           /\ fd \in 0..MaxConns /\ g_tls_fd \in 0..MaxConns
           /\ read_pos \in Nat /\ read_avail \in Nat
           /\ got \in Seq(Cell) /\ count \in Nat
<1>1. tls \in TlsType /\ net \in NetType
  BY DEF Inv, TypeOK, TlsType, NetType, Stages
<1>2. tls.inbuf \in Seq(Cell) /\ tls.inbuf_size \in Nat /\ tls.ofs_to_buffered \in Nat
      /\ tls.buffered_size \in Nat
  BY <1>1 DEF TlsType
<1>3. net.wire \in Seq(Cell)
  BY <1>1 DEF NetType
<1>4. Total \in Nat /\ Len(net.wire) \in Nat
  BY <1>2, <1>3 DEF Total
<1>5. count \in Nat
  BY SizesAssumption DEF Inv, TypeOK
<1> QED
  BY <1>1, <1>2, <1>3, <1>4, <1>5 DEF Inv, TypeOK, SpaceInv

(* What the client keeps of the records it has not taken. *)
LEMMA KeptIsSeq ==
    ASSUME Inv, Listening
    PROVE  Kept \in Seq(Cell)
<1>1. CASE Reading
  BY <1>1, InvParts DEF Kept
<1>2. CASE ~Reading
  <2>1. pc = "idle" /\ tls.ofs_to_buffered + tls.buffered_size <= Total
    BY <1>2 DEF Listening, Inv, SpaceInv
  <2> DEFINE a == tls.ofs_to_buffered + 1
             b == tls.ofs_to_buffered + tls.buffered_size
  <2>2. a \in Nat \ {0} /\ b \in Int /\ b <= Len(tls.inbuf) /\ tls.inbuf \in Seq(Cell)
    BY <2>1, InvParts DEF Total
  <2>3. SubSeq(tls.inbuf, a, b) \in Seq(Cell)
    BY <2>2, Part
  <2> QED
    BY <1>2, <2>3 DEF Kept, Rewound
<1> QED
  BY <1>1, <1>2

(* A step of the server. *)
LEMMA ServerStep ==
    ASSUME Inv, Sends(net, net'), ~net.closed,
           UNCHANGED <<pc, fd, count, g_tls_fd, in_read, in_write, read_pos,
                       read_avail, tls, status, got, died>>
    PROVE  Inv'
<1>1. net' \in NetType /\ net'.clear = net.clear /\ (net'.stage = "plain" <=> net.stage = "plain")
  BY DEF Sends
<1>2. TypeOK'
  BY <1>1 DEF Inv, TypeOK, NetType, Stages
<1>3. Listening' <=> Listening
  BY <1>1 DEF Listening, Reading
<1>4. Kept' = Kept
  BY DEF Kept, Rewound, Reading
<1>5. RecordsInv'
  <2> SUFFICES ASSUME Listening' PROVE Sound(Kept' \o net'.wire, net'.closed)
    BY DEF RecordsInv
  <2>1. Listening /\ Kept \in Seq(Cell) /\ net \in NetType /\ net.stage # "plain"
    BY <1>3, KeptIsSeq, InvParts DEF Listening
  <2>2. Sound(Kept \o net.wire, net.closed)
    BY <2>1 DEF Inv, RecordsInv
  <2>3. Sound(Kept \o net'.wire, net'.closed)
    BY <2>1, <2>2, SoundSent
  <2> QED
    BY <1>4, <2>3
<1>6. SpaceInv'
  BY <1>3 DEF Inv, SpaceInv, Total
<1>7. ActiveInv'
  BY <1>1 DEF Inv, ActiveInv, Reading
<1>8. FlagsInv'
  BY <1>1 DEF Inv, FlagsInv, Died
<1> QED
  BY <1>2, <1>5, <1>6, <1>7, <1>8 DEF Inv

-----------------------------------------------------------------------------
(* The record layer *)

SetInbuf(t, b) == [t EXCEPT !.inbuf = b]
SetRead(t, b, k) == [t EXCEPT !.inbuf = b, !.inbuf_size = k]
SetTaken(t, b, k, o) == [t EXCEPT !.inbuf = b, !.buffered_size = k, !.ofs_to_buffered = o]

(* inbuf changes and nothing else. *)
LEMMA TlsInbuf ==
    ASSUME NEW t \in TlsType, NEW b \in Seq(Cell)
    PROVE  LET u == SetInbuf(t, b) IN
           /\ u \in TlsType /\ u.inbuf = b /\ u.inbuf_size = t.inbuf_size
BY DEF TlsType, SetInbuf

(* inbuf and the space it has change and nothing else. *)
LEMMA TlsRead ==
    ASSUME NEW t \in TlsType, NEW b \in Seq(Cell), NEW k \in Nat
    PROVE  LET u == SetRead(t, b, k) IN
           /\ u \in TlsType /\ u.inbuf = b /\ u.inbuf_size = k
BY DEF TlsType, SetRead

(* While records are read, tls->inbuf starts with a header. *)
LEMMA HeaderIs ==
    ASSUME Inv, Reading, HaveHeader
    PROVE  /\ tls.inbuf[2] \in LenCell /\ Target \in Nat /\ Target >= 2
           /\ Target = 2 + LenOf(tls.inbuf[2])
           /\ tls.inbuf[2] = (tls.inbuf \o net.wire)[2]
<1> DEFINE b == tls.inbuf
           v == net.wire
           w == b \o v
<1>1. b \in Seq(Cell) /\ v \in Seq(Cell)
  BY InvParts
<1>2. Len(b) >= 2
  BY DEF HaveHeader, Total, RECHDR_LEN
<1>3. Framed(w)
  BY DEF Inv, RecordsInv, ActiveInv, Listening, Kept, Sound
<1>4. Target = 2 + LenOf(b[2])
  BY DEF Target, LenOf, RECHDR_LEN
<1> HIDE DEF b, v
<1>5. /\ w \in Seq(Cell) /\ Len(w) = Len(b) + Len(v) /\ Len(b) \in Nat /\ Len(v) \in Nat
      /\ \A i \in 1..Len(b) : w[i] = b[i]
  BY <1>1, Joined, LenProperties
<1> HIDE DEF w
<1>6. Len(w) >= 2 /\ 1 \in 1..(Len(w) - 1) /\ 1 \in 1..Len(b)
      /\ 2 \in 1..Len(b) /\ 1 + 1 = 2
  BY <1>2, <1>5
<1>7. w[1] \in TypeCell
  <2>1. w # <<>>
    BY <1>6
  <2> QED
    BY <1>3, <2>1 DEF Framed
<1>8. w[2] \in LenCell
  <2>1. Linked(w, Len(w))
    BY <1>3 DEF Framed
  <2>2. w[1 + 1] \in LenCell
    BY <1>6, <1>7, <2>1 DEF Linked
  <2> QED
    BY <2>2
<1>9. b[2] \in LenCell /\ w[2] = b[2]
  BY <1>5, <1>6, <1>8
<1>10. LenOf(b[2]) \in Nat
  BY <1>9, CellKinds
<1>11. Target \in Nat /\ Target >= 2
  BY <1>4, <1>10
<1> QED
  BY <1>4, <1>9, <1>11 DEF w, b, v

(* A complete record: its plaintext is within it, and what is kept behind  *)
(* it are the records that follow.                                         *)
Taken ==
    /\ Target \in Nat /\ 2 <= Target /\ Target <= Total
    /\ Plain \in Seq(Cell) /\ 2 + Len(Plain) <= Target
    /\ Decrypted \in TlsType /\ Len(Decrypted.inbuf) = Total
    /\ Decrypted.inbuf_size = tls.inbuf_size /\ Decrypted.encrypted = tls.encrypted
    /\ \A j \in 1..Len(Plain) : Decrypted.inbuf[2 + j] = Plain[j]
    /\ Decrypted.ofs_to_buffered = Target /\ Decrypted.buffered_size = Total - Target
    /\ Rewound(Decrypted) \in Seq(Cell) /\ Len(Rewound(Decrypted)) = Total - Target
    /\ Rewound(Decrypted) \o net.wire
          = SubSeq(tls.inbuf \o net.wire, Target + 1, Len(tls.inbuf \o net.wire))
    /\ Sound(Rewound(Decrypted) \o net.wire, net.closed)

(* tls_xread_record takes one record and keeps what follows it. *)
LEMMA RecordTaken ==
    ASSUME Inv, Reading, HaveRecord, ~TooShort
    PROVE  Taken
<1> DEFINE b == tls.inbuf
           l == Len(tls.inbuf)
           w == b \o net.wire
           d == SubSeq(b, 1, 2) \o Plain \o SubSeq(b, 2 + Len(Plain) + 1, l)
           e == SubSeq(b, Target + 1, l)
<1>1. b \in Seq(Cell) /\ l \in Nat /\ Total = l /\ net.wire \in Seq(Cell) /\ tls \in TlsType
  BY InvParts DEF Total
<1>2. HaveHeader /\ Target <= l
  BY <1>1, HeaderIs DEF HaveRecord, Total
<1>3. Target \in Nat /\ Target >= 2
  BY <1>2, HeaderIs
<1>4. Target = 2 + LenOf(w[2])
  BY <1>2, HeaderIs
<1> HIDE DEF w
<1>5. Plain \in Seq(Cell) /\ Len(Plain) \in Nat /\ 2 + Len(Plain) <= Target
  <2>1. CASE tls.encrypted
    <3>1. Target >= 4
      BY <1>3, <2>1 DEF TooShort, RECHDR_LEN, IvLen, MacLen
    <3>2. Plain = SubSeq(b, 4, Target - 1)
      <4>1. RECHDR_LEN + IvLen + 1 = 4 /\ MacLen = 1
        BY DEF RECHDR_LEN, IvLen, MacLen
      <4> QED
        BY <2>1, <4>1 DEF Plain
    <3>3. 4 \in Nat \ {0} /\ Target - 1 \in Int /\ Target - 1 <= Len(b)
      BY <1>1, <1>2, <1>3
    <3>4. Plain \in Seq(Cell) /\ Len(Plain) = IF 4 <= Target - 1 THEN Target - 1 - 4 + 1 ELSE 0
      BY <1>1, <3>2, <3>3, Part
    <3> QED
      BY <1>3, <3>1, <3>4
  <2>2. CASE ~tls.encrypted
    <3>1. Plain = SubSeq(b, 3, Target)
      <4>1. RECHDR_LEN + 1 = 3
        BY DEF RECHDR_LEN
      <4> QED
        BY <2>2, <4>1 DEF Plain
    <3>2. 3 \in Nat \ {0} /\ Target \in Int /\ Target <= Len(b)
      BY <1>1, <1>2, <1>3
    <3>3. Plain \in Seq(Cell) /\ Len(Plain) = IF 3 <= Target THEN Target - 3 + 1 ELSE 0
      BY <1>1, <3>1, <3>2, Part
    <3> QED
      BY <1>3, <3>3
  <2> QED
    BY <2>1, <2>2
<1>6. /\ d \in Seq(Cell) /\ Len(d) = l
      /\ \A i \in (Target + 1)..l : d[i] = b[i]
      /\ \A j \in 1..Len(Plain) : d[2 + j] = Plain[j]
  <2>1. 2 \in 0..l /\ 2 + Len(Plain) <= l
    BY <1>1, <1>2, <1>3, <1>5
  <2>2. d \in Seq(Cell) /\ Overwrites(d, b, 2, Plain)
    BY <1>1, <1>5, <2>1, Overwritten
  <2> HIDE DEF d
  <2>3. /\ Len(d) = l /\ \A i \in (2 + Len(Plain) + 1)..l : d[i] = b[i]
        /\ \A i \in (2 + 1)..(2 + Len(Plain)) : d[i] = Plain[i - 2]
    BY <2>1, <2>2 DEF Overwrites
  <2>5. \A j \in 1..Len(Plain) : 2 + j \in (2 + 1)..(2 + Len(Plain)) /\ 2 + j - 2 = j
    BY <1>5
  <2>4. \A i \in (Target + 1)..l : i \in (2 + Len(Plain) + 1)..l
    BY <1>1, <1>3, <1>5
  <2> QED
    BY <2>2, <2>3, <2>4, <2>5
<1>7. Decrypted = SetTaken(tls, d, Total - Target, Target)
  BY <1>1 DEF Decrypted, SetTaken, Buffered, RECHDR_LEN
<1> HIDE DEF d
<1>8. Total - Target \in Nat
  BY <1>1, <1>2, <1>3
<1>9. /\ Decrypted \in TlsType /\ Decrypted.inbuf = d /\ Decrypted.inbuf_size = tls.inbuf_size
      /\ Decrypted.buffered_size = Total - Target /\ Decrypted.ofs_to_buffered = Target
      /\ Decrypted.encrypted = tls.encrypted
  <2> DEFINE k == Total - Target
  <2>1. k \in Nat /\ Decrypted = SetTaken(tls, d, k, Target)
    BY <1>7, <1>8
  <2> HIDE DEF k
  <2>2. /\ Decrypted \in TlsType /\ Decrypted.inbuf = d /\ Decrypted.inbuf_size = tls.inbuf_size
        /\ Decrypted.buffered_size = k /\ Decrypted.ofs_to_buffered = Target
        /\ Decrypted.encrypted = tls.encrypted
    <3>1. tls \in TlsType /\ d \in Seq(Cell) /\ Target \in Nat
      BY <1>1, <1>3, <1>6
    <3> QED
      BY <2>1, <3>1 DEF SetTaken, TlsType
  <2> QED
    BY <2>2 DEF k
<1>10. Rewound(Decrypted) = SubSeq(d, Target + 1, l)
  <2>1. Target + (Total - Target) = l
    BY <1>1, <1>3
  <2> QED
    BY <1>9, <2>1 DEF Rewound
<1>11. SubSeq(d, Target + 1, l) = e
  <2>1. Target \in 0..Len(d) /\ Len(d) = Len(b)
    BY <1>1, <1>2, <1>3, <1>6
  <2> QED
    BY <1>1, <1>6, <2>1, SameEnd
<1>12. e \in Seq(Cell) /\ Len(e) = l - Target
  <2>1. Target + 1 \in Nat \ {0} /\ l \in Int /\ l <= Len(b)
    BY <1>1, <1>3
  <2>2. e \in Seq(Cell) /\ Len(e) = IF Target + 1 <= l THEN l - (Target + 1) + 1 ELSE 0
    BY <1>1, <2>1, Part
  <2> HIDE DEF e
  <2> QED
    BY <1>1, <1>2, <1>3, <2>2
<1>13. SubSeq(w, Target + 1, Len(w)) = e \o net.wire
  <2>1. Target \in 0..Len(b)
    BY <1>1, <1>2, <1>3
  <2> QED
    BY <1>1, <2>1, EndOfTwo DEF w
<1>14. Sound(e \o net.wire, net.closed)
  <2>1. w \in Seq(Cell) /\ Len(w) = l + Len(net.wire) /\ Len(net.wire) \in Nat
    BY <1>1, ConcatProperties DEF w
  <2>2. Sound(w, net.closed)
    BY DEF Inv, RecordsInv, ActiveInv, Listening, Kept, w
  <2>3. Len(w) >= 2 /\ 2 + LenOf(w[2]) <= Len(w)
    <3>1. \A n, m \in Nat : n >= Target => n + m >= 2 /\ Target <= n + m
      BY <1>3
    <3>2. Len(w) >= 2 /\ Target <= Len(w)
      BY <1>1, <1>2, <1>3, <2>1, <3>1
    <3> QED
      BY <1>4, <3>2
  <2> DEFINE T == e \o net.wire
  <2>4. T = SubSeq(w, 2 + LenOf(w[2]) + 1, Len(w))
    BY <1>4, <1>13
  <2> HIDE DEF T
  <2>5. Framed(w)
    BY <2>2 DEF Sound
  <2>6. Framed(T) /\ (Whole(w) => Whole(T))
    BY <2>1, <2>3, <2>4, <2>5, FramedDrop
  <2> QED
    BY <2>2, <2>6 DEF Sound, T
<1> QED
  BY <1>1, <1>2, <1>3, <1>5, <1>6, <1>9, <1>10, <1>11, <1>12, <1>13, <1>14 DEF Taken, w

-----------------------------------------------------------------------------
(* Steps of the client *)

(* A death leaves everything but the connection as it is. *)
LEMMA InvDies ==
    ASSUME Inv, Die, UNCHANGED net
    PROVE  Inv'
<1>1. /\ pc' = "none" /\ status' = "failed"
      /\ died' = died \cup {IF pc = "read" THEN "read" ELSE "handshake"}
      /\ UNCHANGED <<fd, count, g_tls_fd, in_read, in_write, read_pos, read_avail,
                     tls, got, net>>
  BY DEF Die
<1>2. /\ ~Reading' /\ ~Listening'
      /\ in_read => Died'
      /\ "write" \in died => "write" \in died'
  BY <1>1 DEF Reading, Listening, Handshaking, Died, Inv, FlagsInv
<1>3. TypeOK'
  BY <1>1 DEF Inv, TypeOK, Calls
<1>4. RecordsInv' /\ SpaceInv'
  BY <1>1, <1>2 DEF Inv, RecordsInv, SpaceInv, Total
<1>5. ActiveInv' /\ FlagsInv'
  BY <1>1, <1>2 DEF Inv, ActiveInv, FlagsInv
<1> QED
  BY <1>3, <1>4, <1>5 DEF Inv

(* The client goes on reading records. *)
LEMMA InvReads ==
    ASSUME Inv, Reading, pc' \in Handshaking \cup {"read"}, pc' = "read" <=> pc = "read",
           tls' \in TlsType, net' \in NetType,
           net'.stage = net.stage, net'.clear = net.clear,
           Len(tls'.inbuf) <= tls'.inbuf_size, tls'.inbuf_size <= MAX_INBUF,
           Sound(tls'.inbuf \o net'.wire, net'.closed),
           UNCHANGED <<fd, count, g_tls_fd, in_read, in_write, read_pos, read_avail,
                       status, got, died>>
    PROVE  Inv'
<1>1. Reading' /\ pc' # "idle" /\ pc' # "none" /\ pc # "none"
  BY DEF Reading, Handshaking
<1>2. TypeOK'
  BY DEF Inv, TypeOK, TlsType, NetType, Stages
<1>3. RecordsInv'
  BY <1>1 DEF RecordsInv, Kept
<1>4. SpaceInv'
  BY <1>1 DEF SpaceInv, Total
<1>5. ActiveInv'
  BY <1>1 DEF Inv, ActiveInv
<1>6. FlagsInv'
  <2>1. in_read => pc = "read"
    BY <1>1 DEF Inv, FlagsInv, Died
  <2> QED
    BY <2>1 DEF Inv, FlagsInv
<1> QED
  BY <1>2, <1>3, <1>4, <1>5, <1>6 DEF Inv

(* The client has a record and returns to its caller. *)
LEMMA InvReturns ==
    ASSUME Inv, Reading, Taken, tls' = Decrypted, pc' = "idle", g_tls_fd' = fd,
           in_read' = FALSE, read_pos' \in Nat, read_avail' \in Nat,
           status' \in {"open", "eof"}, got' \in Seq(Cell),
           status' = "open" /\ read_pos' < read_avail' => 2 + read_avail' <= Total,
           UNCHANGED <<fd, count, in_write, net, died>>
    PROVE  Inv'
<1>1. ~Reading' /\ pc # "none" /\ pc' # "read" /\ pc' # "none"
  BY DEF Reading, Handshaking
<1>2. net.stage # "plain" /\ net'.stage # "plain"
  BY DEF Inv, ActiveInv
<1>3. TypeOK'
  <2>1. in_read' \in BOOLEAN
    BY Zenon
  <2> QED
    BY <2>1 DEF Inv, TypeOK, Taken, TlsType
<1>4. RecordsInv'
  <2>1. Kept' = Rewound(Decrypted)
    BY <1>1 DEF Kept, Rewound
  <2>2. Sound(Rewound(Decrypted) \o net.wire, net.closed)
    BY DEF Taken
  <2> QED
    BY <2>1, <2>2 DEF RecordsInv
<1>5. SpaceInv'
  <2>1. /\ Len(Decrypted.inbuf) = Total /\ Decrypted.inbuf_size = tls.inbuf_size
        /\ Decrypted.ofs_to_buffered = Target /\ Decrypted.buffered_size = Total - Target
        /\ Target \in Nat
    BY DEF Taken
  <2>2. Total \in Nat /\ Total <= tls.inbuf_size /\ tls.inbuf_size <= MAX_INBUF
    BY InvParts
  <2>3. Target + (Total - Target) <= Total
    BY <2>1, <2>2
  <2>4. Total' = Total
    BY <2>1 DEF Total
  <2>5. Listening' => status' = "open"
    BY <1>1 DEF Listening
  <2>6. RECHDR_LEN = 2
    BY DEF RECHDR_LEN
  <2> QED
    BY <2>1, <2>2, <2>3, <2>4, <2>5, <2>6 DEF SpaceInv
<1>6. ActiveInv'
  <2>1. fd \in Nat
    BY InvParts
  <2> QED
    BY <1>1, <1>2, <2>1 DEF ActiveInv
<1>7. FlagsInv'
  BY <1>1 DEF Inv, FlagsInv, Died
<1> QED
  BY <1>3, <1>4, <1>5, <1>6, <1>7 DEF Inv

(* The growth of tls->inbuf. *)
LEMMA Growth ==
    ASSUME Inv
    PROVE  /\ GrownSize \in Nat /\ GrownSize <= MAX_INBUF /\ tls.inbuf_size <= GrownSize
           /\ Total < MAX_INBUF => Total < GrownSize
<1>1. /\ Total \in Nat /\ tls.inbuf_size \in Nat /\ Total <= tls.inbuf_size
      /\ tls.inbuf_size <= MAX_INBUF
  BY InvParts
<1> DEFINE g == MAX_INBUF \div 8
<1>2. g \in Nat /\ g >= 1 /\ MAX_INBUF \in Nat
  BY SizesAssumption
<1> HIDE DEF g
<1> QED
  BY <1>1, <1>2 DEF GrownSize, MinOf, g

(* Cells can be joined in any order. *)
LEMMA CellsAssociative ==
    \A s, t, u \in Seq(Cell) : (s \o t) \o u = s \o (t \o u)
BY ConcatAssociative

(* read(2) on the connection. *)
LEMMA InvReadRaw == Inv /\ XReadRaw => Inv'
<1> SUFFICES ASSUME Inv, XReadRaw PROVE Inv'
  OBVIOUS
<1> DEFINE b == tls.inbuf
           v == net.wire
           c(sz) == SubSeq(v, 1, sz)
           d(sz) == SubSeq(v, sz + 1, Len(v))
           x(sz) == b \o c(sz)
<1>1. PICK sz \in 1..MinOf(Room, Len(v)) :
          tls' = SetRead(tls, x(sz), GrownSize) /\ net' = SetWire(net, d(sz))
  BY DEF XReadRaw, SetRead, SetWire
<1>2. /\ Reading /\ UNCHANGED <<pc, fd, count, g_tls_fd, in_read, in_write, read_pos,
                                read_avail, status, got, died>>
  BY DEF XReadRaw
<1>3. b \in Seq(Cell) /\ v \in Seq(Cell) /\ tls \in TlsType /\ net \in NetType
  BY InvParts
<1>4. Len(v) \in Nat /\ Total \in Nat /\ Len(b) = Total /\ GrownSize \in Nat
      /\ GrownSize <= MAX_INBUF /\ Total <= GrownSize
  BY InvParts, Growth DEF Total
<1>5. sz \in Nat /\ sz <= Len(v) /\ Total + sz <= GrownSize
  BY <1>4 DEF Room, MinOf
<1>6. sz \in 0..Len(v)
  BY <1>4, <1>5
<1>7. Sound(b \o v, net.closed)
  BY <1>2 DEF Inv, RecordsInv, ActiveInv, Listening, Kept
<1> HIDE DEF b, v
<1>8. c(sz) \in Seq(Cell) /\ d(sz) \in Seq(Cell) /\ Len(c(sz)) = sz /\ x(sz) \o d(sz) = b \o v
  <2>1. b \in Seq(Cell) /\ v \in Seq(Cell) /\ sz \in 0..Len(v)
    BY <1>3, <1>6
  <2>6. c(sz) \in Seq(Cell) /\ d(sz) \in Seq(Cell) /\ Len(c(sz)) = sz /\ c(sz) \o d(sz) = v
    BY <2>1, CutInTwo
  <2> HIDE DEF c, d
  <2>8. (b \o c(sz)) \o d(sz) = b \o v
    BY <2>1, <2>6, CellsAssociative, Zenon
  <2> QED
    BY <2>6, <2>8
<1> HIDE DEF c, d
<1>9. x(sz) \in Seq(Cell) /\ Len(x(sz)) = Len(b) + sz
  BY <1>3, <1>8, ConcatProperties
<1> HIDE DEF x
<1>10. tls' \in TlsType /\ tls'.inbuf = x(sz) /\ tls'.inbuf_size = GrownSize
  <2>1. \A y \in Seq(Cell), k \in Nat :
          LET u == SetRead(tls, y, k) IN
          u \in TlsType /\ u.inbuf = y /\ u.inbuf_size = k
    BY <1>3, TlsRead
  <2> QED
    BY <1>1, <1>4, <1>9, <2>1, Zenon
<1>11. /\ net' \in NetType /\ net'.stage = net.stage /\ net'.wire = d(sz)
       /\ net'.closed = net.closed /\ net'.clear = net.clear
  BY <1>1, <1>3, <1>8, NetWire
<1>12. Len(tls'.inbuf) <= tls'.inbuf_size /\ tls'.inbuf_size <= MAX_INBUF
  BY <1>4, <1>5, <1>9, <1>10
<1>13. Sound(tls'.inbuf \o net'.wire, net'.closed)
  BY <1>7, <1>8, <1>10, <1>11
<1>14. pc' \in Handshaking \cup {"read"} /\ (pc' = "read" <=> pc = "read")
  BY <1>2 DEF Reading
<1> QED
  BY <1>2, <1>10, <1>11, <1>12, <1>13, <1>14, InvReads

(* read(2) says that the peer closed the connection. *)
LEMMA InvReadEof == Inv /\ XReadEof => Inv'
<1> SUFFICES ASSUME Inv, XReadEof PROVE Inv'
  OBVIOUS
<1>1. Reading /\ UNCHANGED net
  BY DEF XReadEof
<1>2. CASE Die
  BY <1>1, <1>2, InvDies
<1>3. CASE /\ pc = "read" /\ ReturnEof
           /\ tls' = [tls EXCEPT !.buffered_size = 0, !.inbuf_size = GrownSize]
  <2>1. /\ pc' = "idle" /\ status' = "eof" /\ in_read' = FALSE
        /\ UNCHANGED <<fd, count, g_tls_fd, in_write, read_pos, read_avail, got, died>>
    BY <1>3 DEF ReturnEof
  <2> DEFINE k == GrownSize
  <2>2. k \in Nat /\ k <= MAX_INBUF /\ tls.inbuf_size <= k
    BY Growth
  <2>3. tls' = [tls EXCEPT !.buffered_size = 0, !.inbuf_size = k] /\ tls \in TlsType
    BY <1>3, InvParts
  <2> HIDE DEF k
  <2>4. tls' \in TlsType /\ tls'.inbuf = tls.inbuf /\ tls'.inbuf_size = k
    BY <2>2, <2>3 DEF TlsType
  <2>5. ~Reading' /\ ~Listening'
    BY <2>1 DEF Reading, Handshaking, Listening
  <2>6. TypeOK'
    <3>1. in_read' \in BOOLEAN
      BY <2>1, Zenon
    <3> QED
      BY <1>1, <2>1, <2>4, <3>1 DEF Inv, TypeOK, TlsType
  <2>7. RecordsInv'
    BY <2>5 DEF RecordsInv
  <2>8. SpaceInv'
    <3>1. Total' = Total /\ Total \in Nat /\ Total <= tls.inbuf_size /\ tls.inbuf_size \in Nat
      BY <2>4, InvParts DEF Total
    <3>2. Total' <= k
      BY <2>2, <3>1
    <3> QED
      BY <2>2, <2>4, <2>5, <3>2 DEF SpaceInv
  <2>9. ActiveInv'
    BY <1>1, <1>3, <2>1, <2>5 DEF Inv, ActiveInv
  <2>10. FlagsInv'
    <3>1. pc # "none"
      BY <1>3
    <3> QED
      BY <1>1, <2>1, <3>1 DEF Inv, FlagsInv, Died
  <2> QED
    BY <2>6, <2>7, <2>8, <2>9, <2>10 DEF Inv
<1> QED
  BY <1>2, <1>3 DEF XReadEof

(* read(2) fails. *)
LEMMA InvReadError == Inv /\ XReadError => Inv'
BY InvDies DEF XReadError

(* A record that is too long or too short. *)
LEMMA InvBadRecord == Inv /\ XBadRecord => Inv'
BY InvDies DEF XBadRecord

(* A turn of "goto again" starts with the records that follow. *)
LEMMA AgainReads ==
    ASSUME Inv, Reading, Taken, NEW e \in BOOLEAN,
           tls' = [Rewind(Decrypted) EXCEPT !.encrypted = e],
           pc' \in Handshaking \cup {"read"}, pc' = "read" <=> pc = "read",
           UNCHANGED <<fd, count, g_tls_fd, in_read, in_write, read_pos, read_avail,
                       net, status, got, died>>
    PROVE  Inv'
<1> DEFINE t == Decrypted
           b == Rewound(Decrypted)
<1>1. t \in TlsType /\ t.inbuf_size = tls.inbuf_size /\ b \in Seq(Cell) /\ Len(b) = Total - Target
      /\ Target \in Nat /\ Sound(b \o net.wire, net.closed)
  BY DEF Taken
<1>2. tls' = [t EXCEPT !.inbuf = b, !.encrypted = e]
  BY DEF Rewind, Rewound
<1> HIDE DEF t, b
<1>3. tls' \in TlsType /\ tls'.inbuf = b /\ tls'.inbuf_size = tls.inbuf_size
  BY <1>1, <1>2 DEF TlsType
<1>4. Total \in Nat /\ Total <= tls.inbuf_size /\ tls.inbuf_size <= MAX_INBUF
      /\ tls.inbuf_size \in Nat
  BY InvParts
<1>5. Len(tls'.inbuf) <= tls'.inbuf_size /\ tls'.inbuf_size <= MAX_INBUF
  BY <1>1, <1>3, <1>4
<1>6. net' \in NetType /\ net'.stage = net.stage /\ net'.clear = net.clear
  BY InvParts
<1>7. Sound(tls'.inbuf \o net'.wire, net'.closed)
  BY <1>1, <1>3
<1> QED
  BY <1>3, <1>5, <1>6, <1>7, InvReads

(* What the handshake goes on with. *)
LEMMA HandshakeGoesOn ==
    ASSUME pc \in Handshaking, NEW p \in AfterHandshakeRecord
    PROVE  p = "idle" \/ p \in Handshaking
<1> DEFINE next(m) == IF m = "finished" THEN "idle" ELSE ServerMessages[m]
           ms == CASE pc = "server_key_exchange" ->
                        {"server_key_exchange", "certificate_request", "server_hello_done"}
                   [] pc = "certificate_request" ->
                        {"certificate_request", "server_hello_done"}
                   [] OTHER -> {pc}
<1>1. PICK m \in ms : p = next(m)
  BY DEF AfterHandshakeRecord
<1>2. m \in DOMAIN ServerMessages
  <2>1. DOMAIN ServerMessages = Handshaking
    BY DEF ServerMessages, Handshaking
  <2>2. CASE pc = "server_key_exchange"
    BY <1>1, <2>1, <2>2 DEF Handshaking
  <2>3. CASE pc = "certificate_request"
    BY <1>1, <2>1, <2>3 DEF Handshaking
  <2>4. CASE pc # "server_key_exchange" /\ pc # "certificate_request"
    BY <1>1, <2>1, <2>4
  <2> QED
    BY <2>2, <2>3, <2>4
<1>3. CASE m = "finished"
  BY <1>1, <1>3
<1>4. CASE m # "finished"
  <2>1. p = ServerMessages[m]
    BY <1>1, <1>4
  <2> QED
    BY <1>2, <1>4, <2>1, Order
<1> QED
  BY <1>3, <1>4

(* A record of the handshake. *)
LEMMA InvHandshakeRecord == Inv /\ XHandshakeRecord => Inv'
<1> SUFFICES ASSUME Inv, XHandshakeRecord PROVE Inv'
  OBVIOUS
<1>1. /\ pc \in Handshaking /\ HaveRecord /\ ~TooShort /\ UNCHANGED net
  BY DEF XHandshakeRecord
<1>2. Reading /\ pc # "read" /\ pc # "none"
  BY <1>1 DEF Reading, Handshaking
<1>3. Taken
  BY <1>1, <1>2, RecordTaken
<1>4. CASE Die
  BY <1>1, <1>4, InvDies
<1>5. ASSUME NEW p \in AfterHandshakeRecord,
             pc' = p,
             tls' = IF p = "idle" THEN Decrypted
                    ELSE [Rewind(Decrypted) EXCEPT !.encrypted = (p = "finished")],
             g_tls_fd' = IF p = "idle" THEN fd ELSE g_tls_fd,
             read_pos' = IF p = "idle" THEN 0 ELSE read_pos,
             read_avail' = IF p = "idle" THEN 0 ELSE read_avail,
             UNCHANGED <<fd, count, in_read, in_write, status, got, died>>
      PROVE  Inv'
  <2>1. CASE p = "idle"
    <3>1. in_read' = FALSE
      <4>1. ~in_read
        BY <1>2 DEF Inv, FlagsInv, Died
      <4>2. in_read \in BOOLEAN
        BY DEF Inv, TypeOK
      <4> QED
        BY <1>5, <4>1, <4>2
    <3>2. /\ tls' = Decrypted /\ pc' = "idle" /\ g_tls_fd' = fd /\ read_pos' = 0 /\ read_avail' = 0
          /\ UNCHANGED <<fd, count, in_write, net, died>>
      BY <1>1, <1>5, <2>1
    <3>3. status' \in {"open", "eof"} /\ got' \in Seq(Cell)
      BY <1>2, <1>5, InvParts DEF Inv, ActiveInv
    <3>4. read_pos' \in Nat /\ read_avail' \in Nat /\ ~(read_pos' < read_avail')
      BY <3>2
    <3> QED
      BY <1>2, <1>3, <3>1, <3>2, <3>3, <3>4, InvReturns
  <2>2. CASE p # "idle"
    <3>1. p \in Handshaking
      BY <1>1, <2>2, HandshakeGoesOn
    <3>2. (p = "finished") \in BOOLEAN
      BY Zenon
    <3>3. /\ tls' = [Rewind(Decrypted) EXCEPT !.encrypted = (p = "finished")]
          /\ UNCHANGED <<fd, count, g_tls_fd, in_read, in_write, read_pos, read_avail,
                         net, status, got, died>>
      BY <1>1, <1>5, <2>2
    <3>4. pc' \in Handshaking \cup {"read"} /\ (pc' = "read" <=> pc = "read")
      BY <1>2, <1>5, <3>1 DEF Handshaking
    <3> DEFINE e == (p = "finished")
    <3>5. e \in BOOLEAN /\ tls' = [Rewind(Decrypted) EXCEPT !.encrypted = e]
      BY <3>2, <3>3
    <3> HIDE DEF e
    <3> QED
      BY <1>2, <1>3, <3>3, <3>4, <3>5, AgainReads
  <2> QED
    BY <2>1, <2>2
<1> QED
  BY <1>4, <1>5 DEF XHandshakeRecord

(* A copy of plaintext that is within tls->inbuf. *)
LEMMA Copied ==
    ASSUME NEW t \in TlsType, NEW pos \in Nat, NEW n \in Nat, 2 + pos + n <= Len(t.inbuf)
    PROVE  CopyOut(t, pos, n) \in Seq(Cell)
<1> DEFINE b == t.inbuf
           i == RECHDR_LEN + pos + 1
           j == RECHDR_LEN + pos + n
<1>1. b \in Seq(Cell) /\ i \in Nat \ {0} /\ j \in Int /\ j <= Len(b)
  BY DEF TlsType, RECHDR_LEN
<1>2. CopyOut(t, pos, n) = SubSeq(b, i, j)
  BY DEF CopyOut
<1> HIDE DEF b, i, j
<1>3. SubSeq(b, i, j) \in Seq(Cell)
  BY <1>1, Part
<1> QED
  BY <1>2, <1>3

(* A record of application data, or of any other type but an alert. *)
LEMMA InvDataReturned ==
    ASSUME Inv, pc = "read", HaveRecord, ~TooShort, ReturnData, UNCHANGED net
    PROVE  Inv'
<1> DEFINE n == MinOf(count, Len(Plain))
           o == CopyOut(Decrypted, 0, n)
<1>1. /\ pc = "read" /\ HaveRecord /\ ~TooShort
      /\ tls' = Decrypted /\ pc' = "idle" /\ in_read' = FALSE
      /\ UNCHANGED <<fd, count, g_tls_fd, in_write, net, died>>
  BY DEF ReturnData
<1>2. Reading /\ g_tls_fd' = fd /\ status = "open"
  BY <1>1 DEF Reading, Inv, ActiveInv
<1>3. Taken
  BY <1>1, <1>2, RecordTaken
<1>4. /\ got' = got \o o
      /\ read_avail' = IF Plain = <<>> THEN read_avail ELSE Len(Plain)
      /\ read_pos' = IF Plain = <<>> THEN read_pos ELSE n
      /\ status' = IF Plain = <<>> THEN "eof" ELSE status
  BY DEF ReturnData
<1>5. /\ Plain \in Seq(Cell) /\ Decrypted \in TlsType /\ Len(Decrypted.inbuf) = Total
      /\ Target \in Nat /\ Target <= Total /\ 2 + Len(Plain) <= Target
  BY <1>3 DEF Taken
<1>6. Len(Plain) \in Nat /\ count \in Nat /\ Total \in Nat /\ read_pos \in Nat /\ read_avail \in Nat
      /\ got \in Seq(Cell)
  BY <1>5, InvParts
<1>7. n \in Nat /\ n <= Len(Plain) /\ 0 \in Nat
  BY <1>6 DEF MinOf
<1>8. 2 + 0 + n <= Len(Decrypted.inbuf) /\ 2 + Len(Plain) <= Total
  BY <1>5, <1>6, <1>7
<1> HIDE DEF n
<1>9. o \in Seq(Cell)
  BY <1>5, <1>7, <1>8, Copied
<1> HIDE DEF o
<1>10. got' \in Seq(Cell)
  BY <1>4, <1>6, <1>9, ConcatProperties
<1>11. read_pos' \in Nat /\ read_avail' \in Nat /\ status' \in {"open", "eof"}
  BY <1>2, <1>4, <1>6, <1>7
<1>12. status' = "open" /\ read_pos' < read_avail' => 2 + read_avail' <= Total
  BY <1>4, <1>8
<1> QED
  BY <1>1, <1>2, <1>3, <1>10, <1>11, <1>12, InvReturns

(* A record that is read, or a handshake record that ends in a trap. *)
LEMMA InvDataRecord == Inv /\ XDataRecord => Inv'
BY InvDataReturned, InvDies DEF XDataRecord

(* An alert. *)
LEMMA InvAlertRecord == Inv /\ XAlertRecord => Inv'
<1> SUFFICES ASSUME Inv, XAlertRecord PROVE Inv'
  OBVIOUS
<1>1. Reading /\ HaveRecord /\ ~TooShort /\ UNCHANGED net
  BY DEF XAlertRecord
<1>2. Taken
  BY <1>1, RecordTaken
<1>3. CASE Die
  BY <1>1, <1>3, InvDies
<1>4. CASE /\ tls' = Rewind(Decrypted)
           /\ UNCHANGED <<pc, fd, count, g_tls_fd, in_read, in_write, read_pos,
                          read_avail, status, got, died>>
  <2> DEFINE e == Decrypted.encrypted
             r == Rewind(Decrypted)
  <2>1. e \in BOOLEAN /\ r \in TlsType /\ r.encrypted = e
    BY <1>2 DEF Taken, Rewind, Rewound, TlsType
  <2>2. tls' = r
    BY <1>4
  <2> HIDE DEF e
  <2>3. tls' = [r EXCEPT !.encrypted = e]
    <3> HIDE DEF r
    <3> QED
      BY <2>1, <2>2 DEF TlsType
  <2>4. pc' \in Handshaking \cup {"read"} /\ (pc' = "read" <=> pc = "read")
    BY <1>1, <1>4 DEF Reading
  <2> QED
    BY <1>1, <1>2, <1>4, <2>1, <2>3, <2>4, AgainReads
<1>5. CASE pc = "read" /\ tls' = Decrypted /\ ReturnEof
  <2>1. /\ pc' = "idle" /\ status' = "eof" /\ in_read' = FALSE
        /\ UNCHANGED <<fd, count, g_tls_fd, in_write, read_pos, read_avail, got, died>>
    BY <1>5 DEF ReturnEof
  <2>2. g_tls_fd' = fd
    BY <1>5, <2>1 DEF Inv, ActiveInv
  <2>3. read_pos' \in Nat /\ read_avail' \in Nat /\ got' \in Seq(Cell)
    BY <2>1, InvParts
  <2> QED
    BY <1>1, <1>2, <1>5, <2>1, <2>2, <2>3, InvReturns
<1> QED
  BY <1>3, <1>4, <1>5 DEF XAlertRecord

-----------------------------------------------------------------------------
(* Steps of the program that uses the connection *)

(* A new connection starts with nothing on the wire. *)
LEMMA Fresh ==
    /\ NewTls \in TlsType /\ NewTls.inbuf = <<>> /\ NewTls.inbuf_size = 0
    /\ NewNet \in NetType /\ NewNet.stage = "server_hello" /\ NewNet.wire = <<>>
    /\ NewNet.closed = FALSE /\ NewNet.clear = FALSE
    /\ Sound(<<>> \o <<>>, FALSE)
<1>1. <<>> \in Seq(Cell) /\ FALSE \in BOOLEAN
  <2>1. FALSE \in BOOLEAN
    BY Zenon
  <2> QED
    BY <2>1
<1>2. "server_hello" \in Stages
  BY DEF Stages, ServerMessages
<1>3. NewTls \in TlsType /\ NewTls.inbuf = <<>> /\ NewTls.inbuf_size = 0
  BY <1>1 DEF NewTls, TlsType
<1>4. /\ NewNet \in NetType /\ NewNet.stage = "server_hello" /\ NewNet.wire = <<>>
      /\ NewNet.closed = FALSE /\ NewNet.clear = FALSE
  BY <1>1, <1>2, BoundsAssumption DEF NewNet, NetType
<1>5. Sound(<<>> \o <<>>, FALSE)
  BY DEF Sound, Framed, Linked, Whole
<1> QED
  BY <1>3, <1>4, <1>5

(* wget opens a connection, over TLS or plain. *)
LEMMA InvConnect == ASSUME "read" \notin AfterDeath PROVE Inv /\ Connect => Inv'
<1> SUFFICES ASSUME Inv, Connect PROVE Inv'
  OBVIOUS
<1>1. /\ pc = "none" /\ fd < MaxConns /\ fd' = fd + 1 /\ "read" \notin died
      /\ status' = "open" /\ got' = <<>>
      /\ UNCHANGED <<count, g_tls_fd, in_read, in_write, read_pos, read_avail, died>>
  BY DEF Connect
<1>2. ~in_read /\ (in_write => "write" \in died)
  BY <1>1 DEF Inv, FlagsInv, Died
<1>3. fd' \in 0..MaxConns /\ g_tls_fd' <= fd' /\ g_tls_fd' # fd' /\ got' \in Seq(Cell)
  <2>1. fd \in 0..MaxConns /\ g_tls_fd \in 0..MaxConns /\ g_tls_fd <= fd
    BY InvParts DEF Inv, ActiveInv
  <2> QED
    BY <1>1, <2>1, BoundsAssumption
<1>4. CASE pc' = "server_hello" /\ net' = NewNet /\ tls' = NewTls
  <2>1. /\ tls' \in TlsType /\ tls'.inbuf = <<>> /\ tls'.inbuf_size = 0
        /\ net' \in NetType /\ net'.stage = "server_hello" /\ net'.wire = <<>>
        /\ net'.closed = FALSE /\ net'.clear = FALSE
    BY <1>4, Fresh
  <2>2. Reading' /\ pc' # "read" /\ pc' # "idle" /\ pc' # "none"
    BY <1>4 DEF Reading, Handshaking
  <2>3. TypeOK'
    <3>1. pc' \in Handshaking
      BY <1>4 DEF Handshaking
    <3> QED
      BY <1>1, <1>3, <2>1, <3>1 DEF Inv, TypeOK, TlsType, NetType, Stages
  <2>4. RecordsInv'
    BY <2>1, <2>2, Fresh DEF RecordsInv, Kept
  <2>5. SpaceInv'
    <3>1. Total' = 0 /\ MAX_INBUF \in Nat
      BY <2>1, SizesAssumption DEF Total
    <3> QED
      BY <2>1, <2>2, <3>1 DEF SpaceInv
  <2>6. ActiveInv'
    BY <1>1, <1>3, <2>1, <2>2 DEF ActiveInv
  <2>7. FlagsInv'
    BY <1>1, <1>2, <2>1 DEF FlagsInv
  <2> QED
    BY <2>3, <2>4, <2>5, <2>6, <2>7 DEF Inv
<1>5. CASE pc' = "idle" /\ net' = [NewNet EXCEPT !.stage = "plain"] /\ UNCHANGED tls
  <2>1. net' \in NetType /\ net'.stage = "plain" /\ net'.clear = FALSE
    <3>1. "plain" \in Stages /\ NewNet \in NetType /\ NewNet.clear = FALSE
      BY Fresh DEF Stages
    <3>2. net' = SetStage(NewNet, "plain")
      BY <1>5 DEF SetStage
    <3> QED
      BY <3>1, <3>2, NetStage
  <2>2. ~Reading' /\ ~Listening' /\ pc' # "read" /\ pc' # "none"
    BY <1>5, <2>1 DEF Reading, Handshaking, Listening
  <2>3. TypeOK'
    BY <1>1, <1>3, <1>5, <2>1 DEF Inv, TypeOK, NetType, Stages
  <2>4. RecordsInv'
    BY <2>2 DEF RecordsInv
  <2>5. SpaceInv'
    BY <1>5, <2>2 DEF Inv, SpaceInv, Total
  <2>6. ActiveInv'
    BY <1>3, <2>1, <2>2 DEF ActiveInv
  <2>7. FlagsInv'
    BY <1>1, <1>2, <2>1 DEF FlagsInv
  <2> QED
    BY <2>3, <2>4, <2>5, <2>6, <2>7 DEF Inv
<1> QED
  BY <1>4, <1>5 DEF Connect

(* wasi_tls_read: the rest of a record, or the start of the next one. *)
LEMMA InvAppRead == Inv /\ AppRead => Inv'
<1> SUFFICES ASSUME Inv, AppRead PROVE Inv'
  OBVIOUS
<1>1. /\ pc = "idle" /\ status = "open" /\ g_tls_fd = fd /\ ~in_read
      /\ UNCHANGED <<fd, g_tls_fd, in_write, read_avail, net, status, died>>
  BY DEF AppRead, IsActive
<1>2. net.stage # "plain" /\ Listening /\ ~Reading
  BY <1>1 DEF Inv, ActiveInv, Listening, Reading, Handshaking
<1>3. /\ tls.ofs_to_buffered + tls.buffered_size <= Total
      /\ read_pos < read_avail => 2 + read_avail <= Total
  BY <1>1, <1>2 DEF Inv, SpaceInv, RECHDR_LEN
<1>4. PICK c \in Counts :
          IF read_pos < read_avail
          THEN LET n == MinOf(c, read_avail - read_pos)
               IN  /\ got' = got \o CopyOut(tls, read_pos, n)
                   /\ read_pos' = read_pos + n
                   /\ UNCHANGED <<pc, count, in_read, tls>>
          ELSE /\ in_read' = TRUE
               /\ pc' = "read" /\ count' = c
               /\ tls' = Rewind(tls)
               /\ UNCHANGED <<got, read_pos>>
  BY DEF AppRead
<1>5. c \in Nat
  BY SizesAssumption
<1>6. /\ read_pos \in Nat /\ read_avail \in Nat /\ Total \in Nat /\ got \in Seq(Cell)
      /\ tls \in TlsType /\ Len(tls.inbuf) = Total
  BY InvParts DEF Total
<1>7. CASE read_pos < read_avail
  <2> DEFINE n == MinOf(c, read_avail - read_pos)
             o == CopyOut(tls, read_pos, n)
  <2>1. /\ got' = got \o o /\ read_pos' = read_pos + n
        /\ UNCHANGED <<pc, count, in_read, tls>>
    BY <1>4, <1>7
  <2>2. n \in Nat /\ 2 + read_pos + n <= Len(tls.inbuf) /\ read_pos + n \in Nat
    BY <1>3, <1>5, <1>6, <1>7 DEF MinOf
  <2> HIDE DEF n
  <2>3. o \in Seq(Cell)
    BY <1>6, <2>2, Copied
  <2> HIDE DEF o
  <2>4. got' \in Seq(Cell) /\ read_pos' \in Nat
    BY <1>6, <2>1, <2>2, <2>3, ConcatProperties
  <2>5. TypeOK'
    BY <1>1, <2>1, <2>4 DEF Inv, TypeOK
  <2>6. Kept' = Kept /\ (Listening' <=> Listening) /\ Total' = Total
    BY <1>1, <2>1 DEF Kept, Rewound, Listening, Reading, Total
  <2>7. RecordsInv'
    BY <1>1, <2>6 DEF Inv, RecordsInv
  <2>8. SpaceInv'
    BY <1>1, <1>3, <1>7, <2>1, <2>6 DEF Inv, SpaceInv, RECHDR_LEN
  <2>9. ActiveInv' /\ FlagsInv'
    BY <1>1, <2>1 DEF Inv, ActiveInv, FlagsInv, Reading, Died
  <2> QED
    BY <2>5, <2>7, <2>8, <2>9 DEF Inv
<1>8. CASE ~(read_pos < read_avail)
  <2> DEFINE b == Rewound(tls)
  <2>1. /\ in_read' = TRUE /\ pc' = "read" /\ count' = c /\ tls' = SetInbuf(tls, b)
        /\ UNCHANGED <<got, read_pos>>
    BY <1>4, <1>8 DEF Rewind, Rewound, SetInbuf
  <2>2. b \in Seq(Cell) /\ Len(b) <= Total
    <3> DEFINE v == tls.inbuf
               i == tls.ofs_to_buffered + 1
               j == tls.ofs_to_buffered + tls.buffered_size
    <3>1. v \in Seq(Cell) /\ Total = Len(v) /\ i \in Nat \ {0} /\ j \in Int /\ j <= Len(v)
      BY <1>3, InvParts, SMTT(30) DEF Total
    <3>2. b = SubSeq(v, i, j)
      BY DEF Rewound
    <3> HIDE DEF v, i, j, b
    <3>3. b \in Seq(Cell) /\ Len(b) = IF i <= j THEN j - i + 1 ELSE 0
      BY <3>1, <3>2, Part
    <3>4. Len(b) <= Len(v)
      BY <3>1, <3>3
    <3> QED
      BY <3>1, <3>3, <3>4
  <2>3. Kept = b
    BY <1>2 DEF Kept
  <2> HIDE DEF b
  <2>4. tls' \in TlsType /\ tls'.inbuf = b /\ tls'.inbuf_size = tls.inbuf_size
    BY <1>6, <2>1, <2>2, TlsInbuf
  <2>5. Reading' /\ pc' # "idle" /\ pc' # "none"
    BY <2>1 DEF Reading
  <2>6. TypeOK'
    <3>1. in_read' \in BOOLEAN
      BY <2>1, Zenon
    <3> QED
      BY <1>1, <1>4, <2>1, <2>4, <3>1 DEF Inv, TypeOK, TlsType
  <2>7. RecordsInv'
    <3>1. Sound(b \o net.wire, net.closed)
      BY <1>2, <2>3 DEF Inv, RecordsInv
    <3>2. Kept' = b
      BY <2>4, <2>5 DEF Kept
    <3> QED
      BY <1>1, <3>1, <3>2 DEF RecordsInv
  <2>8. SpaceInv'
    <3>1. Total <= tls.inbuf_size /\ tls.inbuf_size <= MAX_INBUF /\ tls.inbuf_size \in Nat
          /\ Total' = Len(b) /\ Len(b) \in Nat
      BY <2>2, <2>4, InvParts DEF Total
    <3>2. Total' <= tls.inbuf_size
      BY <1>6, <2>2, <3>1
    <3> QED
      BY <2>4, <2>5, <3>1, <3>2 DEF SpaceInv
  <2>9. ActiveInv'
    BY <1>1, <1>2, <2>1, <2>5 DEF Inv, ActiveInv
  <2>10. FlagsInv'
    BY <1>1, <2>1 DEF Inv, FlagsInv, Died
  <2> QED
    BY <2>6, <2>7, <2>8, <2>9, <2>10 DEF Inv
<1> QED
  BY <1>7, <1>8

(* read(2) past the wrapper: never on a connection over TLS. *)
LEMMA InvAppReadRaw == Inv /\ AppReadRaw => Inv'
<1> SUFFICES ASSUME Inv, AppReadRaw PROVE Inv'
  OBVIOUS
<1>1. /\ pc = "idle" /\ status = "open" /\ (in_read \/ g_tls_fd # fd)
      /\ UNCHANGED <<pc, fd, count, g_tls_fd, in_read, in_write, read_pos, read_avail, tls, died>>
  BY DEF AppReadRaw, IsActive
<1>2. net.stage = "plain"
  BY <1>1 DEF Inv, ActiveInv, FlagsInv, Died
<1>3. net' \in NetType /\ net'.stage = "plain" /\ got' \in Seq(Cell)
      /\ status' \in {"open", "eof"}
  <2>1. CASE UNCHANGED <<net, got>> /\ status' = "eof"
    BY <1>2, <2>1, InvParts
  <2>2. ASSUME NEW n \in {MinOf(c, Len(net.wire)) : c \in Counts} \ {0},
               got' = got \o SubSeq(net.wire, 1, n),
               net' = [net EXCEPT !.wire = SubSeq(@, n + 1, Len(@))],
               UNCHANGED status
        PROVE  /\ net' \in NetType /\ net'.stage = "plain" /\ got' \in Seq(Cell)
               /\ status' \in {"open", "eof"}
    <3> DEFINE v == net.wire
               x == SubSeq(v, 1, n)
               y == SubSeq(v, n + 1, Len(v))
    <3>1. v \in Seq(Cell) /\ Len(v) \in Nat /\ got \in Seq(Cell) /\ net \in NetType
      BY InvParts
    <3>2. PICK c \in Counts : n = MinOf(c, Len(v))
      OBVIOUS
    <3>3. c \in Nat
      BY SizesAssumption
    <3>4. got' = got \o x /\ net' = SetWire(net, y)
      BY <2>2 DEF SetWire
    <3> HIDE DEF v
    <3>5. n \in 0..Len(v)
      BY <3>1, <3>2, <3>3 DEF MinOf
    <3>6. x \in Seq(Cell) /\ y \in Seq(Cell)
      BY <3>1, <3>5, CutInTwo
    <3> HIDE DEF x, y
    <3>7. got' \in Seq(Cell)
      BY <3>1, <3>4, <3>6, ConcatProperties
    <3>8. net' \in NetType /\ net'.stage = net.stage
      BY <3>1, <3>4, <3>6, NetWire
    <3> QED
      BY <1>1, <1>2, <2>2, <3>7, <3>8
  <2> QED
    BY <2>1, <2>2 DEF AppReadRaw
<1>4. ~Listening' /\ ~Reading' /\ pc' # "read"
  BY <1>1, <1>3 DEF Listening, Reading, Handshaking
<1>5. TypeOK'
  BY <1>1, <1>3 DEF Inv, TypeOK, NetType, Stages
<1>6. RecordsInv' /\ SpaceInv'
  BY <1>1, <1>4 DEF Inv, RecordsInv, SpaceInv, Total
<1>7. ActiveInv'
  BY <1>1, <1>2, <1>3, <1>4 DEF Inv, ActiveInv
<1>8. FlagsInv'
  BY <1>1, <1>3 DEF Inv, FlagsInv, Died
<1> QED
  BY <1>5, <1>6, <1>7, <1>8 DEF Inv

(* write(2), wrapped or not. *)
LEMMA InvAppWrite == Inv /\ AppWrite => Inv'
<1> SUFFICES ASSUME Inv, AppWrite PROVE Inv'
  OBVIOUS
<1> DEFINE k == net.writes + 1
<1>1. /\ pc = "idle" /\ status = "open" /\ net.writes < MaxWrites
      /\ UNCHANGED <<fd, count, g_tls_fd, in_read, read_pos, read_avail, tls, got>>
  BY DEF AppWrite
<1>2. (in_write => "write" \in died) /\ ~in_read
  BY <1>1 DEF Inv, FlagsInv, Died
<1>3. net \in NetType
  BY InvParts
<1>4. k \in 0..MaxWrites
  BY <1>1, <1>3, BoundsAssumption DEF NetType
<1>5. \/ /\ (g_tls_fd # fd \/ in_write) /\ net' = SetWrites(SetClear(net), k)
         /\ UNCHANGED <<pc, in_write, status, died>>
      \/ /\ net' = SetWrites(net, k)
         /\ \/ in_write' = FALSE /\ UNCHANGED <<pc, status, died>>
            \/ /\ in_write' = TRUE /\ pc' = "none" /\ status' = "failed"
               /\ died' = died \cup {"write"}
  <2>1. PICK c \in Counts :
          IF in_write \/ ~IsActive
          THEN /\ net' = [net EXCEPT !.clear = TRUE, !.writes = @ + 1]
               /\ UNCHANGED <<pc, in_write, status, died>>
          ELSE \/ /\ c <= TLS_MAX_OUTBUF
                  /\ net' = [net EXCEPT !.writes = @ + 1]
                  /\ LeaveWrite
                  /\ UNCHANGED <<pc, status, died>>
               \/ /\ c > TLS_MAX_OUTBUF \/ net.closed
                  /\ in_write' = TRUE
                  /\ pc' = "none" /\ status' = "failed" /\ died' = died \cup {"write"}
                  /\ net' = [net EXCEPT !.writes = @ + 1]
    BY DEF AppWrite
  <2>2. CASE in_write \/ ~IsActive
    <3>1. net' = [net EXCEPT !.clear = TRUE, !.writes = net.writes + 1]
          /\ UNCHANGED <<pc, in_write, status, died>>
      BY <2>1, <2>2
    <3>2. net' = SetWrites(SetClear(net), k)
      BY <1>3, <3>1 DEF SetWrites, SetClear, NetType
    <3> QED
      BY <2>2, <3>1, <3>2 DEF IsActive
  <2>3. CASE ~(in_write \/ ~IsActive)
    BY <2>1, <2>3 DEF LeaveWrite, SetWrites
  <2> QED
    BY <2>2, <2>3
<1> HIDE DEF k
<1>6. /\ net' \in NetType /\ net'.stage = net.stage /\ net'.wire = net.wire
      /\ net'.closed = net.closed
      /\ net'.clear => net.clear \/ net.stage = "plain" \/ "write" \in died
  <2>1. CASE net' = SetWrites(net, k)
    BY <1>3, <1>4, <2>1, NetWrites
  <2>2. CASE (g_tls_fd # fd \/ in_write) /\ net' = SetWrites(SetClear(net), k)
    <3> DEFINE q == SetClear(net)
    <3>1. q \in NetType /\ q.stage = net.stage /\ q.wire = net.wire /\ q.closed = net.closed
      BY <1>3, NetClear
    <3>2. net' = SetWrites(q, k)
      BY <2>2
    <3> HIDE DEF q
    <3>3. net' \in NetType /\ net'.stage = q.stage /\ net'.wire = q.wire /\ net'.closed = q.closed
      BY <1>4, <3>1, <3>2, NetWrites
    <3>4. net.stage = "plain" \/ "write" \in died
      BY <1>1, <1>2, <2>2 DEF Inv, ActiveInv
    <3> QED
      BY <3>1, <3>3, <3>4
  <2> QED
    BY <1>5, <2>1, <2>2
<1>7. /\ in_write' \in BOOLEAN /\ died' \subseteq Calls /\ died \subseteq died'
      /\ in_write' => "write" \in died'
      /\ \/ UNCHANGED <<pc, status>>
         \/ pc' = "none" /\ status' = "failed"
  <2>1. TRUE \in BOOLEAN /\ FALSE \in BOOLEAN
    BY Zenon
  <2>2. in_write \in BOOLEAN /\ died \subseteq Calls
    BY DEF Inv, TypeOK
  <2>3. CASE UNCHANGED <<pc, in_write, status, died>>
    BY <1>2, <2>2, <2>3
  <2>4. CASE in_write' = FALSE /\ UNCHANGED <<pc, status, died>>
    BY <2>1, <2>2, <2>4
  <2>5. CASE /\ in_write' = TRUE /\ pc' = "none" /\ status' = "failed"
             /\ died' = died \cup {"write"}
    BY <2>1, <2>2, <2>5 DEF Calls
  <2> QED
    BY <1>5, <2>3, <2>4, <2>5
<1>8. TypeOK'
  BY <1>1, <1>6, <1>7 DEF Inv, TypeOK, NetType, Stages
<1>9. ~Reading' /\ ~Reading /\ (Listening' => Listening /\ pc' = "idle") /\ Kept' = Kept
      /\ Total' = Total
  BY <1>1, <1>6, <1>7 DEF Reading, Handshaking, Listening, Kept, Rewound, Total
<1>10. RecordsInv'
  BY <1>6, <1>9 DEF Inv, RecordsInv
<1>11. SpaceInv'
  BY <1>1, <1>9 DEF Inv, SpaceInv
<1>12. ActiveInv'
  BY <1>1, <1>6, <1>7, <1>9 DEF Inv, ActiveInv
<1>13. FlagsInv'
  BY <1>1, <1>2, <1>6, <1>7 DEF Inv, FlagsInv, Died
<1> QED
  BY <1>8, <1>10, <1>11, <1>12, <1>13 DEF Inv

(* close(2), wrapped. *)
LEMMA InvAppClose == Inv /\ AppClose => Inv'
<1> SUFFICES ASSUME Inv, AppClose PROVE Inv'
  OBVIOUS
<1>1. /\ pc = "idle" /\ pc' = "none" /\ status' = "none"
      /\ UNCHANGED <<fd, count, in_read, in_write, tls, net, got, died>>
      /\ g_tls_fd' \in {0, g_tls_fd} /\ read_pos' \in {0, read_pos}
      /\ read_avail' \in {0, read_avail}
  BY DEF AppClose
<1>2. ~Reading' /\ ~Listening' /\ ~in_read /\ pc' # "read" /\ pc' # "idle"
  BY <1>1 DEF Reading, Handshaking, Listening, Inv, FlagsInv, Died
<1>3. TypeOK'
  <2>1. g_tls_fd' \in 0..MaxConns /\ read_pos' \in Nat /\ read_avail' \in Nat
    BY <1>1, InvParts, BoundsAssumption
  <2> QED
    BY <1>1, <2>1 DEF Inv, TypeOK
<1>4. RecordsInv' /\ SpaceInv'
  BY <1>1, <1>2 DEF Inv, RecordsInv, SpaceInv, Total
<1>5. ActiveInv'
  <2>1. g_tls_fd' <= fd
    BY <1>1, InvParts DEF Inv, ActiveInv
  <2> QED
    BY <1>1, <1>2, <2>1 DEF ActiveInv
<1>6. FlagsInv'
  BY <1>1, <1>2 DEF Inv, FlagsInv
<1> QED
  BY <1>3, <1>4, <1>5, <1>6 DEF Inv

-----------------------------------------------------------------------------
(* The invariant of the specification *)

(* Before the connection is made. *)
LEMMA InvInit == Init => Inv
<1> SUFFICES ASSUME Init PROVE Inv
  OBVIOUS
<1>1. /\ tls \in TlsType /\ tls.inbuf = <<>> /\ tls.inbuf_size = 0 /\ net \in NetType
      /\ net.clear = FALSE
  BY Fresh DEF Init
<1>2. TypeOK
  <2>1. in_read \in BOOLEAN /\ in_write \in BOOLEAN
    BY Zenon DEF Init
  <2>2. /\ pc = "none" /\ fd = 0 /\ count = 0 /\ g_tls_fd = 0
        /\ read_pos = 0 /\ read_avail = 0 /\ status = "none" /\ got = <<>> /\ died = {}
    BY DEF Init
  <2>3. fd \in 0..MaxConns /\ g_tls_fd \in 0..MaxConns
    BY <2>2, BoundsAssumption
  <2>4. got \in Seq(Cell)
    BY <2>2
  <2> QED
    BY <1>1, <2>1, <2>2, <2>3, <2>4 DEF TypeOK, TlsType, NetType, Stages
<1>3. ~Reading /\ ~Listening /\ pc = "none"
  BY DEF Init, Reading, Handshaking, Listening
<1>4. Total = 0 /\ MAX_INBUF \in Nat
  BY <1>1, SizesAssumption DEF Total
<1>5. RecordsInv /\ SpaceInv
  BY <1>1, <1>3, <1>4 DEF RecordsInv, SpaceInv
<1>6. ActiveInv /\ FlagsInv
  BY <1>1, <1>3 DEF Init, ActiveInv, FlagsInv
<1> QED
  BY <1>2, <1>5, <1>6 DEF Inv

(* Nothing happens. *)
LEMMA InvStutter == Inv /\ UNCHANGED vars => Inv'
<1> SUFFICES ASSUME Inv, UNCHANGED vars PROVE Inv'
  OBVIOUS
<1>1. UNCHANGED <<pc, fd, count, g_tls_fd, in_read, in_write, read_pos, read_avail,
                  tls, net, status, got, died>>
  BY DEF vars
<1>2. TypeOK'
  BY <1>1 DEF Inv, TypeOK
<1>3. RecordsInv'
  BY <1>1 DEF Inv, RecordsInv, Listening, Kept, Rewound, Reading
<1>4. SpaceInv'
  BY <1>1 DEF Inv, SpaceInv, Listening, Reading, Total
<1>5. ActiveInv' /\ FlagsInv'
  BY <1>1 DEF Inv, ActiveInv, FlagsInv, Reading, Died
<1> QED
  BY <1>2, <1>3, <1>4, <1>5 DEF Inv

(* What the server does reaches only the end of the wire. *)
LEMMA InvServer == Inv /\ Server => Inv'
<1> SUFFICES ASSUME Inv, Server PROVE Inv'
  OBVIOUS
<1>1. net \in NetType
  BY InvParts
<1>2. Sends(net, net')
  BY <1>1, HandshakeSends, SendsSends, ClosesSends DEF Server
<1>3. /\ ~net.closed
      /\ UNCHANGED <<pc, fd, count, g_tls_fd, in_read, in_write, read_pos,
                     read_avail, tls, status, got, died>>
  BY DEF Server, ServerHandshake, ServerSends, ServerCloses, Connected
<1> QED
  BY <1>2, <1>3, ServerStep

(* Every step of the client, of the server and of the caller. *)
LEMMA InvStep == ASSUME "read" \notin AfterDeath PROVE Inv /\ [Next]_vars => Inv'
<1>1. Inv /\ Client => Inv'
  BY InvConnect, InvReadRaw, InvReadEof, InvHandshakeRecord, InvDataRecord, InvAlertRecord,
     InvBadRecord DEF Client
<1>2. Inv /\ App => Inv'
  BY InvAppRead, InvAppReadRaw, InvAppWrite, InvAppClose DEF App
<1> QED
  BY <1>1, <1>2, InvServer, InvReadError, InvStutter DEF Next

(* Inv holds in every state, when no script connects again after a read    *)
(* has died; after the death of a handshake or of a write it may.          *)
THEOREM TlsInvariant == ASSUME "read" \notin AfterDeath PROVE Spec => []Inv
<1>1. Inv /\ [Next]_vars => Inv'
  BY InvStep
<1> QED
  BY <1>1, InvInit, PTL DEF Spec

(* Every variable keeps its type: in particular no read and no copy goes   *)
(* past the end of tls->inbuf, since what a sequence holds there is no     *)
(* cell.                                                                   *)
THEOREM TlsTypeCorrect == ASSUME "read" \notin AfterDeath PROVE Spec => []TypeOK
<1>1. Inv => TypeOK
  BY DEF Inv
<1> QED
  BY <1>1, TlsInvariant, PTL

(* tls_xread_record always has room for the bytes it asks for, and asks    *)
(* for at least one, however records and reads are cut.                    *)
THEOREM TlsBufferSpace == ASSUME "read" \notin AfterDeath PROVE Spec => []BufferSpace
<1>1. Inv => BufferSpace
  <2> SUFFICES ASSUME Inv PROVE BufferSpace
    OBVIOUS
  <2>1. Total \in Nat /\ Total <= tls.inbuf_size /\ tls.inbuf_size <= MAX_INBUF
        /\ tls.inbuf_size \in Nat /\ MAX_INBUF \in Nat /\ MAX_INBUF >= 8
    BY InvParts, SizesAssumption
  <2>2. ASSUME Reading, ~TooLong, ~HaveRecord PROVE Room > 0
    <3>1. Total < MAX_INBUF
      <4>1. SUFFICES ASSUME Total = MAX_INBUF PROVE FALSE
        BY <2>1
      <4>2. HaveHeader
        BY <2>1, <4>1 DEF HaveHeader, RECHDR_LEN
      <4>3. Target \in Nat
        BY <2>2, <4>2, HeaderIs
      <4> QED
        BY <2>1, <2>2, <4>1, <4>2, <4>3 DEF TooLong, HaveRecord
    <3>2. Total < GrownSize /\ GrownSize \in Nat
      BY <3>1, Growth
    <3> QED
      BY <2>1, <3>2 DEF Room
  <2> QED
    BY <2>1, <2>2 DEF BufferSpace
<1> QED
  BY <1>1, TlsInvariant, PTL

(* Nothing goes out unencrypted on a connection over TLS unless a write    *)
(* died before, although connections are opened after handshakes and       *)
(* writes that died: nothing but such a write leaves g_tls_in_write set.   *)
THEOREM TlsNothingInClear == ASSUME "read" \notin AfterDeath PROVE Spec => []NothingInClear
<1>1. Inv => NothingInClear
  BY DEF Inv, FlagsInv, NothingInClear
<1> QED
  BY <1>1, TlsInvariant, PTL
-----------------------------------------------------------------------------
(* The bytes of the peer.  Pending, what the client has not taken yet,     *)
(* holds the bytes from a to b in order, those of a record side by side;   *)
(* the other records hold none.  No message of the handshake follows       *)
(* Finished, and nothing close_notify.                                     *)

DataCell == {"byte"} \X (Nat \ {0})
HandCell == {<<"type", "handshake">>, <<"type", "ccs">>}
Num(c) == c[2]

Numbered(S, a, b) ==
    /\ \A k \in (a + 1)..b : \E p \in 1..Len(S) : S[p] = Byte(k)
    /\ \A p \in 1..Len(S) : S[p] \in DataCell => Num(S[p]) \in (a + 1)..b
    /\ \A p, q \in 1..Len(S) :
          p < q /\ S[p] \in DataCell /\ S[q] \in DataCell => Num(S[p]) < Num(S[q])

Complete(S, i) == S[i] \in TypeCell /\ i + 1 <= Len(S) /\ i + 1 + LenOf(S[i + 1]) <= Len(S)

(* The body of the record at i, n cells long: bytes between an iv and a    *)
(* mac, or more than tls_xread_record accepts, or no bytes.                *)
DataBody(S, i, n) ==
    /\ n > 2 /\ S[i + 2] \notin DataCell /\ S[i + 1 + n] \notin DataCell
    /\ S[i + 3] \in DataCell
    /\ \A j \in 1..(n - 2) : S[i + 2 + j] = Byte(Num(S[i + 3]) - 1 + j)
Body(S, i, n) ==
    IF S[i] = <<"type", "data">>
    THEN n >= MAX_INBUF \/ DataBody(S, i, n)
    ELSE \A p \in (i + 2)..(i + 1 + n) : S[p] \notin DataCell
Bodies(S) == \A i \in 1..Len(S) : Complete(S, i) => Body(S, i, LenOf(S[i + 1]))

Ending(S, stage, closed) ==
    /\ \A p \in 1..Len(S) : /\ S[p] # Msg("undefined")
                            /\ S[p] = Msg("finished") => stage = "data"
                            /\ S[p] = Msg("close_notify") => closed
    /\ \A p, q \in 1..Len(S) :
          p < q => /\ S[p] = Msg("finished") => S[q] \notin HandCell
                   /\ S[p] = Msg("close_notify") => S[q] \notin TypeCell

Content(S, a, n) == Numbered(S, a, n.sent) /\ Bodies(S) /\ Ending(S, n.stage, n.closed)

(* The bytes of the last record that were not copied yet, and all before   *)
(* those that are pending.                                                 *)
Unread == IF pc = "idle" THEN read_avail - read_pos ELSE 0
Before == Len(got) + Unread
Pending == Kept \o net.wire

Established ==
    /\ tls.encrypted
    /\ net.stage = "data"
    /\ \A p \in 1..Len(Pending) : Pending[p] \notin HandCell

ContentInv ==
    Listening =>
        /\ Unread \in Nat /\ Before <= net.sent /\ Content(Pending, Before, net)
        /\ \A j \in 1..Unread : tls.inbuf[2 + read_pos + j] = Byte(Len(got) + j)
        /\ pc = "finished" => tls.encrypted
        /\ pc \in {"idle", "read"} => Established

PlainInv ==
    pc = "idle" /\ status = "open" /\ net.stage = "plain" =>
        /\ Len(got) + Len(net.wire) = net.sent
        /\ \A j \in 1..Len(net.wire) : net.wire[j] = Byte(Len(got) + j)

StreamInv ==
    /\ pc = "none" => status # "open"
    /\ pc = "read" => count # 0
    /\ ContentInv /\ PlainInv

-----------------------------------------------------------------------------
(* Parts of a sequence of cells *)

(* T is in S, after the first L cells. *)
PartOf(T, S, L) ==
    /\ S \in Seq(Cell) /\ T \in Seq(Cell) /\ L \in Nat /\ L + Len(T) <= Len(S)
    /\ \A i \in 1..Len(T) : S[L + i] = T[i]

(* The first and the second of two sequences, and what is left of one, are *)
(* parts.                                                                  *)
LEMMA PartsOf ==
    /\ \A S, r \in Seq(Cell) : /\ PartOf(S, S \o r, 0) /\ PartOf(r, S \o r, Len(S))
                               /\ S \o r \in Seq(Cell) /\ Len(S \o r) = Len(S) + Len(r)
    /\ \A S \in Seq(Cell), n \in Nat :
          n <= Len(S) => /\ PartOf(SubSeq(S, n + 1, Len(S)), S, n)
                         /\ Len(SubSeq(S, n + 1, Len(S))) = Len(S) - n
<1>1. ASSUME NEW S \in Seq(Cell), NEW r \in Seq(Cell)
      PROVE  /\ PartOf(S, S \o r, 0) /\ PartOf(r, S \o r, Len(S))
             /\ S \o r \in Seq(Cell) /\ Len(S \o r) = Len(S) + Len(r)
  <2> DEFINE T == S \o r
  <2>1. /\ T \in Seq(Cell) /\ Len(T) = Len(S) + Len(r)
        /\ \A i \in 1..Len(S) : T[i] = S[i]
        /\ \A i \in 1..Len(r) : T[Len(S) + i] = r[i]
    BY Joined
  <2> HIDE DEF T
  <2>2. Len(S) \in Nat /\ Len(r) \in Nat /\ 0 \in Nat
    OBVIOUS
  <2>3. PartOf(S, T, 0)
    <3>1. 0 + Len(S) <= Len(T) /\ \A i \in 1..Len(S) : T[0 + i] = S[i]
      BY <2>1, <2>2
    <3> QED
      BY <2>1, <2>2, <3>1 DEF PartOf
  <2>4. PartOf(r, T, Len(S))
    BY <2>1, <2>2 DEF PartOf
  <2> QED
    BY <2>1, <2>3, <2>4 DEF T
<1>2. ASSUME NEW S \in Seq(Cell), NEW n \in Nat, n <= Len(S)
      PROVE  /\ PartOf(SubSeq(S, n + 1, Len(S)), S, n)
             /\ Len(SubSeq(S, n + 1, Len(S))) = Len(S) - n
  <2> DEFINE T == SubSeq(S, n + 1, Len(S))
             m == n + 1
  <2>1. Len(S) \in Nat /\ m \in Nat \ {0} /\ Len(S) \in Int
    OBVIOUS
  <2>2. /\ T \in Seq(Cell) /\ Len(T) = IF m <= Len(S) THEN Len(S) - m + 1 ELSE 0
        /\ \A i \in 1..(Len(S) - m + 1) : T[i] = S[m + i - 1]
    BY <2>1, Part
  <2> HIDE DEF T
  <2>3. Len(T) = Len(S) - n
    BY <1>2, <2>1, <2>2
  <2>4. \A i \in 1..Len(T) : S[n + i] = T[i]
    <3> SUFFICES ASSUME NEW i \in 1..Len(T) PROVE S[n + i] = T[i]
      OBVIOUS
    <3>1. i \in 1..(Len(S) - m + 1) /\ m + i - 1 = n + i
      BY <2>1, <2>3
    <3> QED
      BY <2>2, <3>1
  <2> QED
    BY <1>2, <2>1, <2>2, <2>3, <2>4 DEF PartOf, T
<1> QED
  BY <1>1, <1>2

(* Where the cells of a part are. *)
LEMMA InPart ==
    ASSUME NEW S, NEW T, NEW L, PartOf(T, S, L)
    PROVE  /\ L \in Nat /\ Len(S) \in Nat /\ Len(T) \in Nat /\ L + Len(T) <= Len(S)
           /\ \A i \in 1..Len(T) : L + i \in 1..Len(S) /\ S[L + i] = T[i]
           /\ \A i \in (L + 1)..(L + Len(T)) : i - L \in 1..Len(T) /\ S[i] = T[i - L]
<1>1. L \in Nat /\ Len(S) \in Nat /\ Len(T) \in Nat /\ L + Len(T) <= Len(S)
  BY DEF PartOf
<1>2. ASSUME NEW i \in 1..Len(T) PROVE L + i \in 1..Len(S) /\ S[L + i] = T[i]
  BY <1>1 DEF PartOf
<1>3. ASSUME NEW i \in (L + 1)..(L + Len(T)) PROVE i - L \in 1..Len(T) /\ S[i] = T[i - L]
  <2>1. i - L \in 1..Len(T) /\ L + (i - L) = i
    BY <1>1
  <2>2. S[L + (i - L)] = T[i - L]
    BY <1>2, <2>1
  <2> QED
    BY <2>1, <2>2
<1> QED
  BY <1>1, <1>2, <1>3

(* The body of a record is the same wherever the record is. *)
LEMMA BodyInPart ==
    ASSUME NEW S, NEW T, NEW L, PartOf(T, S, L),
           NEW i \in Nat \ {0}, NEW n \in Nat, i + 1 + n <= Len(T)
    PROVE  Body(T, i, n) <=> Body(S, L + i, n)
<1>1. /\ L \in Nat /\ Len(S) \in Nat /\ Len(T) \in Nat
      /\ \A j \in 1..Len(T) : S[L + j] = T[j]
  BY InPart
<1>2. \A k \in Nat : i + k <= Len(T) => S[(L + i) + k] = T[i + k]
  <2> SUFFICES ASSUME NEW k \in Nat, i + k <= Len(T) PROVE S[(L + i) + k] = T[i + k]
    OBVIOUS
  <2>1. i + k \in 1..Len(T) /\ (L + i) + k = L + (i + k)
    BY <1>1
  <2> QED
    BY <1>1, <2>1
<1>3. S[L + i] = T[i]
  <2>1. i + 0 = i /\ (L + i) + 0 = L + i /\ i + 0 <= Len(T)
    BY <1>1
  <2> QED
    BY <1>2, <2>1
<1>4. DataBody(T, i, n) <=> DataBody(S, L + i, n)
  <2>1. CASE ~(n > 2)
    BY <2>1 DEF DataBody
  <2>2. CASE n > 2
    <3>1. S[(L + i) + 2] = T[i + 2] /\ S[(L + i) + 3] = T[i + 3]
      <4>1. i + 2 <= Len(T) /\ i + 3 <= Len(T)
        BY <1>1, <2>2
      <4> QED
        BY <1>2, <4>1
    <3>2. S[(L + i) + 1 + n] = T[i + 1 + n]
      <4> DEFINE k == 1 + n
      <4>0. L \in Nat /\ k \in Nat
        BY <1>1
      <4>1. k \in Nat /\ i + k = i + 1 + n /\ (L + i) + k = (L + i) + 1 + n
        BY <4>0
      <4>2. S[(L + i) + k] = T[i + k]
        BY <1>2, <4>1
      <4> QED
        BY <4>1, <4>2
    <3>3. \A j \in 1..(n - 2) : S[(L + i) + 2 + j] = T[i + 2 + j]
      <4> SUFFICES ASSUME NEW j \in 1..(n - 2) PROVE S[(L + i) + 2 + j] = T[i + 2 + j]
        OBVIOUS
      <4>1. /\ 2 + j \in Nat /\ i + (2 + j) <= Len(T)
            /\ i + (2 + j) = i + 2 + j /\ (L + i) + (2 + j) = (L + i) + 2 + j
        BY <1>1
      <4>2. S[(L + i) + (2 + j)] = T[i + (2 + j)]
        BY <1>2, <4>1
      <4> QED
        BY <4>1, <4>2
    <3> QED
      BY <3>1, <3>2, <3>3 DEF DataBody
  <2> QED
    BY <2>1, <2>2
<1>5. (\A p \in (i + 2)..(i + 1 + n) : T[p] \notin DataCell)
      <=> (\A p \in (L + i + 2)..(L + i + 1 + n) : S[p] \notin DataCell)
  <2>1. \A p \in (i + 2)..(i + 1 + n) : L + p \in (L + i + 2)..(L + i + 1 + n) /\ S[L + p] = T[p]
    BY <1>1
  <2>2. \A p \in (L + i + 2)..(L + i + 1 + n) :
           p - L \in (i + 2)..(i + 1 + n) /\ S[p] = T[p - L]
    <3> SUFFICES ASSUME NEW p \in (L + i + 2)..(L + i + 1 + n)
                 PROVE  p - L \in (i + 2)..(i + 1 + n) /\ S[p] = T[p - L]
      OBVIOUS
    <3>1. p - L \in (i + 2)..(i + 1 + n) /\ L + (p - L) = p
      BY <1>1
    <3> QED
      BY <2>1, <3>1
  <2> QED
    BY <2>1, <2>2
<1> QED
  BY <1>3, <1>4, <1>5 DEF Body

-----------------------------------------------------------------------------
(* What is sent is added at the end, what is taken goes from the front *)

(* The numbers of two sequences, one after the other. *)
LEMMA NumberedAppend ==
    ASSUME NEW S \in Seq(Cell), NEW r \in Seq(Cell), NEW a \in Nat, NEW b \in Nat, NEW c \in Nat,
           a <= b, b <= c, Numbered(S, a, b), Numbered(r, b, c)
    PROVE  Numbered(S \o r, a, c)
<1> DEFINE T == S \o r
           l == Len(S)
           m == Len(r)
<1>1. PartOf(S, T, 0) /\ PartOf(r, T, l) /\ Len(T) = l + m
  BY PartsOf
<1> HIDE DEF T
<1>2. l \in Nat /\ m \in Nat
  OBVIOUS
<1>3. \A i \in 1..l : i \in 1..Len(T) /\ T[i] = S[i]
  <2> SUFFICES ASSUME NEW i \in 1..l PROVE i \in 1..Len(T) /\ T[i] = S[i]
    OBVIOUS
  <2>1. 0 + i \in 1..Len(T) /\ T[0 + i] = S[i]
    BY <1>1, InPart, SMTT(30)
  <2> QED
    BY <2>1
<1>4. \A i \in 1..m : l + i \in 1..Len(T) /\ T[l + i] = r[i]
  BY <1>1, InPart, SMTT(30)
<1>5. \A p \in 1..Len(T) : \/ p \in 1..l /\ T[p] = S[p]
                           \/ p - l \in 1..m /\ p > l /\ T[p] = r[p - l]
  <2> SUFFICES ASSUME NEW p \in 1..Len(T)
               PROVE  \/ p \in 1..l /\ T[p] = S[p]
                      \/ p - l \in 1..m /\ p > l /\ T[p] = r[p - l]
    OBVIOUS
  <2>1. CASE p <= l
    BY <1>2, <1>3, <2>1
  <2>2. CASE p > l
    <3>1. p - l \in 1..m /\ l + (p - l) = p
      BY <1>1, <1>2, <2>2
    <3> QED
      BY <1>4, <2>2, <3>1
  <2> QED
    BY <1>2, <2>1, <2>2
<1> HIDE DEF l, m
<1>6. /\ \A k \in (a + 1)..b : \E p \in 1..l : S[p] = Byte(k)
      /\ \A p \in 1..l : S[p] \in DataCell => Num(S[p]) \in (a + 1)..b
      /\ \A p, q \in 1..l :
            p < q /\ S[p] \in DataCell /\ S[q] \in DataCell => Num(S[p]) < Num(S[q])
  BY DEF Numbered, l
<1>7. /\ \A k \in (b + 1)..c : \E p \in 1..m : r[p] = Byte(k)
      /\ \A p \in 1..m : r[p] \in DataCell => Num(r[p]) \in (b + 1)..c
      /\ \A p, q \in 1..m :
            p < q /\ r[p] \in DataCell /\ r[q] \in DataCell => Num(r[p]) < Num(r[q])
  BY DEF Numbered, m
<1>8. ASSUME NEW k \in (a + 1)..c PROVE \E p \in 1..Len(T) : T[p] = Byte(k)
  <2>1. CASE k <= b
    <3>1. k \in (a + 1)..b
      BY <2>1
    <3>2. PICK p \in 1..l : S[p] = Byte(k)
      BY <1>6, <3>1
    <3> QED
      BY <1>3, <3>2
  <2>2. CASE k > b
    <3>1. k \in (b + 1)..c
      BY <2>2
    <3>2. PICK p \in 1..m : r[p] = Byte(k)
      BY <1>7, <3>1
    <3> QED
      BY <1>4, <3>2
  <2> QED
    BY <2>1, <2>2
<1>9. ASSUME NEW p \in 1..Len(T), T[p] \in DataCell PROVE Num(T[p]) \in (a + 1)..c
  <2>1. CASE p \in 1..l /\ T[p] = S[p]
    <3>1. Num(T[p]) \in (a + 1)..b
      BY <1>6, <1>9, <2>1
    <3> QED
      BY <3>1
  <2>2. CASE p - l \in 1..m /\ T[p] = r[p - l]
    <3>1. Num(T[p]) \in (b + 1)..c
      BY <1>7, <1>9, <2>2
    <3> QED
      BY <3>1
  <2> QED
    BY <1>5, <2>1, <2>2
<1>10. ASSUME NEW p \in 1..Len(T), NEW q \in 1..Len(T), p < q, T[p] \in DataCell, T[q] \in DataCell
       PROVE  Num(T[p]) < Num(T[q])
  <2>1. CASE q \in 1..l /\ T[q] = S[q]
    <3>1. p \in 1..l
      BY <1>2, <1>10, <2>1
    <3>2. T[p] = S[p]
      BY <1>3, <3>1
    <3> QED
      BY <1>6, <1>10, <2>1, <3>1, <3>2
  <2>2. CASE p - l \in 1..m /\ p > l /\ T[p] = r[p - l]
    <3>1. q - l \in 1..m /\ T[q] = r[q - l] /\ p - l < q - l
      <4>1. ~(q \in 1..l)
        BY <1>2, <1>10, <2>2
      <4>2. q - l \in 1..m /\ T[q] = r[q - l]
        BY <1>5, <4>1
      <4> QED
        BY <1>2, <1>10, <4>2
    <3> QED
      BY <1>7, <1>10, <2>2, <3>1
  <2>3. CASE p \in 1..l /\ T[p] = S[p] /\ q - l \in 1..m /\ T[q] = r[q - l]
    <3>1. Num(T[p]) \in (a + 1)..b /\ Num(T[q]) \in (b + 1)..c
      BY <1>6, <1>7, <1>10, <2>3
    <3> QED
      BY <3>1
  <2> QED
    BY <1>5, <2>1, <2>2, <2>3
<1>11. Numbered(T, a, c)
  BY <1>8, <1>9, <1>10 DEF Numbered
<1> QED
  BY <1>11 DEF T

(* A record after whole records leaves them as they were. *)
LEMMA BodiesAppend ==
    ASSUME NEW S \in Seq(Cell), NEW r \in Seq(Cell), Framed(S), Whole(S), Bodies(S), Bodies(r),
           Linked(r, Len(r))
    PROVE  Bodies(S \o r)
<1> DEFINE T == S \o r
           l == Len(S)
           m == Len(r)
<1>1. PartOf(S, T, 0) /\ PartOf(r, T, l) /\ Len(T) = l + m
  BY PartsOf
<1> HIDE DEF T
<1>2. l \in Nat /\ m \in Nat
  OBVIOUS
<1>3. \A i \in 1..l : T[i] = S[i]
  <2> SUFFICES ASSUME NEW i \in 1..l PROVE T[i] = S[i]
    OBVIOUS
  <2>1. T[0 + i] = S[i]
    BY <1>1, InPart
  <2> QED
    BY <2>1
<1>4. \A i \in 1..m : T[l + i] = r[i]
  BY <1>1, InPart
<1> SUFFICES ASSUME NEW i \in 1..Len(T), Complete(T, i) PROVE Body(T, i, LenOf(T[i + 1]))
  BY DEF Bodies, T
<1>5. T[i] \in TypeCell /\ i + 1 <= Len(T) /\ i + 1 + LenOf(T[i + 1]) <= Len(T)
  BY DEF Complete
<1>6. CASE i <= l
  <2>1. i \in 1..l /\ T[i] = S[i]
    BY <1>2, <1>3, <1>6
  <2>2. i + 1 <= l /\ i + 1 + LenOf(S[i + 1]) <= l
    BY <1>5, <2>1 DEF Whole
  <2>3. Complete(S, i)
    BY <1>5, <2>1, <2>2 DEF Complete
  <2> DEFINE n == LenOf(S[i + 1])
  <2>4. T[i + 1] = S[i + 1]
    <3>1. i + 1 \in 1..l
      BY <1>2, <2>1, <2>2
    <3> QED
      BY <1>3, <3>1
  <2>5. n \in Nat
    <3>1. i \in 1..(l - 1)
      BY <1>2, <2>1, <2>2
    <3>2. S[i + 1] \in LenCell
      BY <1>5, <2>1, <3>1 DEF Framed, Linked
    <3> QED
      BY <3>2, CellKinds
  <2>6. Body(S, i, n)
    BY <2>1, <2>3 DEF Bodies
  <2>7. i \in Nat \ {0} /\ i + 1 + n <= Len(S) /\ 0 + i = i
    BY <2>1, <2>2
  <2> HIDE DEF n
  <2>8. Body(T, 0 + i, n)
    BY <1>1, <2>5, <2>6, <2>7, BodyInPart
  <2> QED
    BY <2>4, <2>7, <2>8 DEF n
<1>7. CASE i > l
  <2> DEFINE j == i - l
             n == LenOf(T[i + 1])
  <2>1. j \in 1..m /\ l + j = i /\ j + 1 \in 1..m /\ l + (j + 1) = i + 1
    BY <1>1, <1>2, <1>5, <1>7
  <2>2. T[i] = r[j] /\ T[i + 1] = r[j + 1]
    BY <1>4, <2>1
  <2>3. n \in Nat
    <3>1. j \in 1..(m - 1)
      BY <1>2, <2>1
    <3>2. r[j + 1] \in LenCell
      BY <1>5, <2>2, <3>1 DEF Linked
    <3> QED
      BY <2>2, <3>2, CellKinds
  <2>4. i + 1 + n <= Len(T)
    BY <1>5
  <2> HIDE DEF n
  <2>5. j + 1 + n <= m /\ j + 1 <= m
    BY <1>1, <1>2, <2>1, <2>3, <2>4
  <2>6. Complete(r, j)
    BY <1>5, <2>2, <2>5 DEF Complete, n
  <2>7. Body(r, j, n)
    BY <2>1, <2>2, <2>6 DEF Bodies, n
  <2>8. j \in Nat \ {0}
    BY <2>1
  <2> HIDE DEF j
  <2>9. Body(T, l + j, n)
    BY <1>1, <2>3, <2>5, <2>7, <2>8, BodyInPart
  <2> QED
    BY <2>1, <2>9 DEF n
<1> QED
  BY <1>2, <1>6, <1>7

(* Nothing out of order is added to a connection that is open. *)
LEMMA EndingAppend ==
    ASSUME NEW S \in Seq(Cell), NEW r \in Seq(Cell), NEW s, NEW t, NEW d,
           Ending(S, s, FALSE), Ending(r, t, d), s = "data" => t = "data",
           s = "data" => \A p \in 1..Len(r) : r[p] \notin HandCell
    PROVE  Ending(S \o r, t, d)
<1> DEFINE T == S \o r
           l == Len(S)
           m == Len(r)
<1>1. PartOf(S, T, 0) /\ PartOf(r, T, l) /\ Len(T) = l + m
  BY PartsOf
<1> HIDE DEF T
<1>2. l \in Nat /\ m \in Nat
  OBVIOUS
<1>3. \A i \in 1..l : T[i] = S[i]
  <2> SUFFICES ASSUME NEW i \in 1..l PROVE T[i] = S[i]
    OBVIOUS
  <2>1. T[0 + i] = S[i]
    BY <1>1, InPart
  <2> QED
    BY <2>1
<1>4. \A i \in 1..m : T[l + i] = r[i]
  BY <1>1, InPart
<1>5. \A p \in 1..Len(T) : \/ p \in 1..l /\ T[p] = S[p]
                           \/ p - l \in 1..m /\ p > l /\ T[p] = r[p - l]
  <2> SUFFICES ASSUME NEW p \in 1..Len(T)
               PROVE  \/ p \in 1..l /\ T[p] = S[p]
                      \/ p - l \in 1..m /\ p > l /\ T[p] = r[p - l]
    OBVIOUS
  <2>1. CASE p <= l
    BY <1>2, <1>3, <2>1
  <2>2. CASE p > l
    <3>1. p - l \in 1..m /\ l + (p - l) = p
      BY <1>1, <1>2, <2>2
    <3> QED
      BY <1>4, <2>2, <3>1
  <2> QED
    BY <1>2, <2>1, <2>2
<1>6. /\ \A p \in 1..l : /\ S[p] # Msg("undefined") /\ S[p] # Msg("close_notify")
                         /\ S[p] = Msg("finished") => s = "data"
      /\ \A p, q \in 1..l : p < q /\ S[p] = Msg("finished") => S[q] \notin HandCell
  BY DEF Ending, l
<1>7. /\ \A p \in 1..m : /\ r[p] # Msg("undefined")
                         /\ r[p] = Msg("finished") => t = "data"
                         /\ r[p] = Msg("close_notify") => d
      /\ \A p, q \in 1..m :
            p < q => /\ r[p] = Msg("finished") => r[q] \notin HandCell
                     /\ r[p] = Msg("close_notify") => r[q] \notin TypeCell
  BY DEF Ending, m
<1> HIDE DEF l, m
<1>8. ASSUME NEW p \in 1..Len(T)
      PROVE  /\ T[p] # Msg("undefined")
             /\ T[p] = Msg("finished") => t = "data"
             /\ T[p] = Msg("close_notify") => d
  <2>1. CASE p \in 1..l /\ T[p] = S[p]
    BY <1>6, <2>1
  <2>2. CASE p - l \in 1..m /\ T[p] = r[p - l]
    BY <1>7, <2>2
  <2> QED
    BY <1>5, <2>1, <2>2
<1>9. ASSUME NEW p \in 1..Len(T), NEW q \in 1..Len(T), p < q
      PROVE  /\ T[p] = Msg("finished") => T[q] \notin HandCell
             /\ T[p] = Msg("close_notify") => T[q] \notin TypeCell
  <2>1. CASE p - l \in 1..m /\ p > l /\ T[p] = r[p - l]
    <3>1. ~(q \in 1..l)
      BY <1>2, <1>9, <2>1 DEF l
    <3>2. q - l \in 1..m /\ T[q] = r[q - l]
      BY <1>5, <3>1
    <3>3. p - l < q - l
      BY <1>2, <1>9 DEF l
    <3> QED
      BY <1>7, <2>1, <3>2, <3>3
  <2>2. CASE p \in 1..l /\ T[p] = S[p]
    <3>1. T[p] # Msg("close_notify")
      BY <1>6, <2>2
    <3>2. ASSUME T[p] = Msg("finished") PROVE T[q] \notin HandCell
      <4>1. CASE q \in 1..l /\ T[q] = S[q]
        BY <1>6, <1>9, <2>2, <3>2, <4>1
      <4>2. CASE q - l \in 1..m /\ T[q] = r[q - l]
        <5>1. s = "data"
          BY <1>6, <2>2, <3>2
        <5> QED
          BY <4>2, <5>1 DEF m
      <4> QED
        BY <1>5, <4>1, <4>2
    <3> QED
      BY <3>1, <3>2
  <2> QED
    BY <1>5, <2>1, <2>2
<1>10. Ending(T, t, d)
  BY <1>8, <1>9 DEF Ending
<1> QED
  BY <1>10 DEF T

(* What follows a record. *)
LEMMA BodiesDrop ==
    ASSUME NEW S, NEW T, NEW L, PartOf(T, S, L), Len(S) = L + Len(T), Framed(T), Bodies(S)
    PROVE  Bodies(T)
<1> SUFFICES ASSUME NEW i \in 1..Len(T), Complete(T, i) PROVE Body(T, i, LenOf(T[i + 1]))
  BY DEF Bodies
<1>1. /\ L \in Nat /\ Len(S) \in Nat /\ Len(T) \in Nat
      /\ \A j \in 1..Len(T) : L + j \in 1..Len(S) /\ S[L + j] = T[j]
  BY InPart
<1>2. T[i] \in TypeCell /\ i + 1 <= Len(T) /\ i + 1 + LenOf(T[i + 1]) <= Len(T)
  BY DEF Complete
<1> DEFINE n == LenOf(T[i + 1])
<1>3. n \in Nat
  <2>1. i \in 1..(Len(T) - 1)
    BY <1>1, <1>2
  <2>2. T[i + 1] \in LenCell
    BY <1>2, <2>1 DEF Framed, Linked
  <2> QED
    BY <2>2, CellKinds
<1>4. S[L + i] = T[i] /\ S[(L + i) + 1] = T[i + 1] /\ L + i \in 1..Len(S)
  <2>1. i + 1 \in 1..Len(T) /\ L + (i + 1) = (L + i) + 1
    BY <1>1, <1>2
  <2> QED
    BY <1>1, <2>1
<1>5. i + 1 + n <= Len(T)
  BY <1>2
<1>6. LenOf(S[(L + i) + 1]) = n
  BY <1>4
<1> HIDE DEF n
<1>7. (L + i) + 1 <= Len(S) /\ (L + i) + 1 + n <= Len(S)
  BY <1>1, <1>2, <1>3, <1>5
<1>8. Complete(S, L + i)
  BY <1>2, <1>4, <1>6, <1>7 DEF Complete
<1>9. Body(S, L + i, n)
  BY <1>4, <1>6, <1>8 DEF Bodies
<1>10. i \in Nat \ {0}
  OBVIOUS
<1>11. Body(T, i, n)
  BY <1>3, <1>5, <1>9, <1>10, BodyInPart
<1> QED
  BY <1>11 DEF n

(* What follows a record is in order too. *)
LEMMA EndingDrop ==
    ASSUME NEW S, NEW T, NEW L, PartOf(T, S, L), NEW s, NEW d, Ending(S, s, d)
    PROVE  Ending(T, s, d)
<1>1. /\ L \in Nat /\ Len(S) \in Nat /\ Len(T) \in Nat
      /\ \A j \in 1..Len(T) : L + j \in 1..Len(S) /\ S[L + j] = T[j]
  BY InPart
<1>2. ASSUME NEW p \in 1..Len(T)
      PROVE  /\ T[p] # Msg("undefined")
             /\ T[p] = Msg("finished") => s = "data"
             /\ T[p] = Msg("close_notify") => d
  BY <1>1 DEF Ending
<1>3. ASSUME NEW p \in 1..Len(T), NEW q \in 1..Len(T), p < q
      PROVE  /\ T[p] = Msg("finished") => T[q] \notin HandCell
             /\ T[p] = Msg("close_notify") => T[q] \notin TypeCell
  <2>1. L + p < L + q
    BY <1>1, <1>3
  <2>2. L + p \in 1..Len(S) /\ L + q \in 1..Len(S) /\ S[L + p] = T[p] /\ S[L + q] = T[q]
    BY <1>1
  <2> QED
    BY <2>1, <2>2 DEF Ending
<1> QED
  BY <1>2, <1>3 DEF Ending

(* The numbers that follow those of a record: the cells before hold the    *)
(* ones up to c.                                                           *)
LEMMA NumberedDrop ==
    ASSUME NEW S, NEW T, NEW L, PartOf(T, S, L), Len(S) = L + Len(T),
           NEW a \in Nat, NEW b \in Nat, NEW c \in Nat, a <= c, Numbered(S, a, b),
           \A p \in 1..L : S[p] \in DataCell => Num(S[p]) <= c,
           c = a \/ \E p \in 1..L : S[p] = Byte(c)
    PROVE  Numbered(T, c, b)
<1>1. /\ L \in Nat /\ Len(S) \in Nat /\ Len(T) \in Nat /\ L + Len(T) <= Len(S)
      /\ \A j \in 1..Len(T) : L + j \in 1..Len(S) /\ S[L + j] = T[j]
      /\ \A j \in (L + 1)..(L + Len(T)) : j - L \in 1..Len(T) /\ S[j] = T[j - L]
  <2>1. L \in Nat /\ Len(S) \in Nat /\ Len(T) \in Nat /\ L + Len(T) <= Len(S)
    BY DEF PartOf
  <2>2. ASSUME NEW j \in 1..Len(T) PROVE L + j \in 1..Len(S) /\ S[L + j] = T[j]
    BY <2>1 DEF PartOf
  <2>3. ASSUME NEW j \in (L + 1)..(L + Len(T)) PROVE j - L \in 1..Len(T) /\ S[j] = T[j - L]
    <3>1. j - L \in 1..Len(T) /\ L + (j - L) = j
      BY <2>1
    <3>2. S[L + (j - L)] = T[j - L]
      BY <2>2, <3>1, Zenon
    <3> QED
      BY <3>1, <3>2
  <2> QED
    BY <2>1, <2>2, <2>3, Zenon
<1>2. \A k \in Nat \ {0} : Byte(k) \in DataCell /\ Num(Byte(k)) = k
  BY DEF Byte, DataCell, Num
<1>3. ASSUME NEW k \in (c + 1)..b PROVE \E p \in 1..Len(T) : T[p] = Byte(k)
  <2>1. k \in (a + 1)..b /\ k \in Nat \ {0} /\ ~(k <= c)
    OBVIOUS
  <2>2. PICK p \in 1..Len(S) : S[p] = Byte(k)
    BY <2>1 DEF Numbered
  <2>3. ~(p \in 1..L)
    BY <1>2, <2>1, <2>2
  <2>4. p \in (L + 1)..(L + Len(T))
    BY <1>1, <2>3
  <2> QED
    BY <1>1, <2>2, <2>4
<1>4. ASSUME NEW p \in 1..Len(T), T[p] \in DataCell PROVE Num(T[p]) \in (c + 1)..b
  <2>1. L + p \in 1..Len(S) /\ S[L + p] = T[p]
    BY <1>1
  <2>2. Num(T[p]) \in (a + 1)..b
    BY <1>4, <2>1 DEF Numbered
  <2>3. CASE c = a
    BY <2>2, <2>3
  <2>4. CASE \E q \in 1..L : S[q] = Byte(c)
    <3>1. PICK q \in 1..L : S[q] = Byte(c)
      BY <2>4
    <3>2. CASE c = 0
      <4>1. a = c
        BY <3>2
      <4> QED
        BY <2>2, <4>1
    <3>3. CASE c # 0
      <4>1. S[q] \in DataCell /\ Num(S[q]) = c
        BY <1>2, <3>1, <3>3
      <4>2. q \in 1..Len(S) /\ q < L + p
        BY <1>1
      <4>3. Num(S[q]) < Num(S[L + p])
        BY <1>4, <2>1, <4>1, <4>2 DEF Numbered
      <4> QED
        BY <2>1, <2>2, <4>1, <4>3
    <3> QED
      BY <3>2, <3>3
  <2> QED
    BY <2>3, <2>4
<1>5. ASSUME NEW p \in 1..Len(T), NEW q \in 1..Len(T), p < q, T[p] \in DataCell, T[q] \in DataCell
      PROVE  Num(T[p]) < Num(T[q])
  <2>1. L + p < L + q
    BY <1>1, <1>5
  <2>2. L + p \in 1..Len(S) /\ L + q \in 1..Len(S) /\ S[L + p] = T[p] /\ S[L + q] = T[q]
    BY <1>1
  <2>3. Num(S[L + p]) < Num(S[L + q])
    BY <1>5, <2>1, <2>2 DEF Numbered
  <2> QED
    BY <2>2, <2>3
<1> QED
  BY <1>3, <1>4, <1>5 DEF Numbered

-----------------------------------------------------------------------------
(* The records of the server, cell by cell *)

(* The header, then the payload, between an iv and a mac if it is          *)
(* encrypted.                                                              *)
LEMMA RecordCells ==
    ASSUME NEW t \in Types, NEW payload \in Seq(BodyCell), NEW enc \in BOOLEAN
    PROVE  LET r == Record(t, payload, enc)
               n == Len(payload)
           IN  /\ Piece(r) /\ AllOf(r) /\ r[1] = <<"type", t>>
               /\ enc => /\ LenOf(r[2]) = n + 2 /\ r[3] = Iv /\ r[4 + n] = Mac
                         /\ \A j \in 1..n : r[3 + j] = payload[j]
               /\ ~enc => LenOf(r[2]) = n /\ \A j \in 1..n : r[2 + j] = payload[j]
<1> DEFINE n == Len(payload)
           x == <<Iv>> \o payload
           y == x \o <<Mac>>
           body == IF enc THEN y ELSE payload
           m == Len(body)
           h == <<<<"type", t>>, <<"len", m>>>>
           r == h \o body
<1>1. Record(t, payload, enc) = r
  BY DEF Record
<1>2. Piece(r) /\ AllOf(r)
  <2>1. t \in {"data", "handshake", "ccs", "alert"}
    BY DEF Types
  <2>2. Piece(Record(t, payload, enc)) /\ AllOf(Record(t, payload, enc))
    BY <2>1, RecordIs
  <2> QED
    BY <1>1, <2>2, Zenon
<1>3. n \in Nat /\ <<Iv>> \in Seq(BodyCell) /\ <<Mac>> \in Seq(BodyCell)
      /\ Len(<<Iv>>) = 1 /\ Len(<<Mac>>) = 1 /\ <<Iv>>[1] = Iv /\ <<Mac>>[1] = Mac
  <2>1. Iv \in BodyCell /\ Mac \in BodyCell
    BY DEF BodyCell
  <2> QED
    BY <2>1
<1>4. /\ x \in Seq(BodyCell) /\ Len(x) = 1 + n /\ x[1] = Iv
      /\ \A j \in 1..n : x[1 + j] = payload[j]
  <2> DEFINE iv == <<Iv>>
  <2>1. iv \in Seq(BodyCell) /\ Len(iv) = 1 /\ iv[1] = Iv
    BY <1>3
  <2> HIDE DEF iv
  <2>2. /\ iv \o payload \in Seq(BodyCell) /\ Len(iv \o payload) = Len(iv) + n
        /\ \A i \in 1..Len(iv) : (iv \o payload)[i] = iv[i]
        /\ \A i \in 1..n : (iv \o payload)[Len(iv) + i] = payload[i]
    BY <2>1, Joined
  <2>3. 1 \in 1..Len(iv)
    BY <2>1
  <2> QED
    BY <2>1, <2>2, <2>3 DEF iv
<1> HIDE DEF x
<1>5. /\ y \in Seq(BodyCell) /\ Len(y) = 2 + n /\ y[1] = Iv /\ y[2 + n] = Mac
      /\ \A j \in 1..n : y[1 + j] = payload[j]
  <2> DEFINE mac == <<Mac>>
  <2>1. mac \in Seq(BodyCell) /\ Len(mac) = 1 /\ mac[1] = Mac
    BY <1>3
  <2> HIDE DEF mac
  <2>0. x \in Seq(BodyCell) /\ mac \in Seq(BodyCell)
    BY <1>4, <2>1
  <2>9. /\ x \o mac \in Seq(BodyCell) /\ Len(x \o mac) = Len(x) + Len(mac)
        /\ \A i \in 1..Len(x) : (x \o mac)[i] = x[i]
        /\ \A i \in 1..Len(mac) : (x \o mac)[Len(x) + i] = mac[i]
    BY <2>0, Joined
  <2>2. /\ x \o mac \in Seq(BodyCell) /\ Len(x \o mac) = Len(x) + 1
        /\ \A i \in 1..Len(x) : (x \o mac)[i] = x[i]
        /\ \A i \in 1..Len(mac) : (x \o mac)[Len(x) + i] = mac[i]
    BY <2>1, <2>9
  <2>3. 1 \in 1..Len(x) /\ 1 \in 1..Len(mac) /\ \A j \in 1..n : 1 + j \in 1..Len(x)
    BY <1>3, <1>4, <2>1
  <2>4. (x \o mac)[Len(x) + 1] = Mac /\ (x \o mac)[1] = Iv
    BY <1>4, <2>1, <2>2, <2>3
  <2>5. \A j \in 1..n : (x \o mac)[1 + j] = payload[j]
    BY <1>4, <2>2, <2>3
  <2>6. Len(x) + 1 = 2 + n
    BY <1>3, <1>4
  <2> QED
    BY <2>2, <2>4, <2>5, <2>6 DEF mac
<1> HIDE DEF y
<1>6. body \in Seq(BodyCell) /\ m \in Nat
  BY <1>5
<1>7. body \in Seq(Cell)
  <2>1. BodyCell \subseteq Cell
    BY CellKinds
  <2> QED
    BY <1>6, <2>1, SeqMonotonic
<1>8. enc => body = y
  OBVIOUS
<1>9. ~enc => body = payload
  OBVIOUS
<1> HIDE DEF body, m
<1>10. h \in Seq(Cell) /\ Len(h) = 2 /\ h[1] = <<"type", t>> /\ h[2] = <<"len", m>>
  <2>1. <<"type", t>> \in TypeCell /\ <<"len", m>> \in LenCell
    BY <1>6 DEF TypeCell, LenCell, Types
  <2>2. <<"type", t>> \in Cell /\ <<"len", m>> \in Cell
    BY <2>1, CellKinds
  <2> QED
    BY <2>2
<1> HIDE DEF h
<1>11. /\ Len(r) = 2 + m /\ r[1] = <<"type", t>> /\ r[2] = <<"len", m>>
       /\ \A i \in 1..m : r[2 + i] = body[i]
  <2>1. /\ Len(r) = Len(h) + Len(body)
        /\ \A i \in 1..Len(h) : r[i] = h[i]
        /\ \A i \in 1..Len(body) : r[Len(h) + i] = body[i]
    <3>1. h \in Seq(Cell) /\ body \in Seq(Cell)
      BY <1>7, <1>10
    <3> QED
      BY <3>1, Joined
  <2>2. 1 \in 1..Len(h) /\ 2 \in 1..Len(h)
    BY <1>10
  <2> HIDE DEF r
  <2> QED
    BY <1>10, <2>1, <2>2 DEF m
<1> HIDE DEF r
<1>12. LenOf(r[2]) = m
  BY <1>11 DEF LenOf
<1>13. ASSUME enc
       PROVE  /\ LenOf(r[2]) = n + 2 /\ r[3] = Iv /\ r[4 + n] = Mac
              /\ \A j \in 1..n : r[3 + j] = payload[j]
  <2>1. m = 2 + n /\ body = y
    BY <1>5, <1>8, <1>13 DEF m
  <2>2. 1 \in 1..m /\ 2 + n \in 1..m /\ 2 + 1 = 3 /\ 2 + (2 + n) = 4 + n
    BY <1>3, <2>1
  <2>3. r[2 + 1] = Iv /\ r[2 + (2 + n)] = Mac
    BY <1>5, <1>11, <2>1, <2>2
  <2>4. \A j \in 1..n : 1 + j \in 1..m /\ 2 + (1 + j) = 3 + j
    BY <1>3, <2>1
  <2>5. \A j \in 1..n : r[2 + (1 + j)] = payload[j]
    BY <1>5, <1>11, <2>1, <2>4
  <2>6. \A j \in 1..n : r[3 + j] = payload[j]
    BY <2>4, <2>5
  <2>7. LenOf(r[2]) = n + 2
    BY <1>3, <1>12, <2>1
  <2> QED
    BY <2>2, <2>3, <2>6, <2>7
<1>14. ASSUME ~enc
       PROVE  LenOf(r[2]) = n /\ \A j \in 1..n : r[2 + j] = payload[j]
  BY <1>9, <1>11, <1>12, <1>14 DEF m
<1> QED
  BY <1>1, <1>2, <1>11, <1>13, <1>14

(* Behind the header a record holds its payload, and perhaps an iv and a   *)
(* mac.                                                                    *)
LEMMA RecordHolds ==
    ASSUME NEW t \in Types, NEW payload \in Seq(BodyCell), NEW enc \in BOOLEAN,
           NEW p \in 3..Len(Record(t, payload, enc))
    PROVE  \/ Record(t, payload, enc)[p] \in {Iv, Mac}
           \/ \E j \in 1..Len(payload) : Record(t, payload, enc)[p] = payload[j]
<1> DEFINE r == Record(t, payload, enc)
           n == Len(payload)
<1>1. /\ AllOf(r)
      /\ enc => /\ LenOf(r[2]) = n + 2 /\ r[3] = Iv /\ r[4 + n] = Mac
                /\ \A j \in 1..n : r[3 + j] = payload[j]
      /\ ~enc => LenOf(r[2]) = n /\ \A j \in 1..n : r[2 + j] = payload[j]
  BY RecordCells
<1> HIDE DEF r
<1>2. n \in Nat /\ p \in 3..Len(r) /\ Len(r) = 2 + LenOf(r[2])
  BY <1>1 DEF r, AllOf
<1>3. CASE enc
  <2>1. p = 3 \/ p = 4 + n \/ (p - 3 \in 1..n /\ 3 + (p - 3) = p)
    BY <1>1, <1>2, <1>3
  <2> QED
    BY <1>1, <1>3, <2>1 DEF r
<1>4. CASE ~enc
  <2>1. p - 2 \in 1..n /\ 2 + (p - 2) = p
    BY <1>1, <1>2, <1>4
  <2> QED
    BY <1>1, <1>4, <2>1 DEF r
<1> QED
  BY <1>3, <1>4

(* A record has one header. *)
LEMMA OneHeader ==
    ASSUME NEW r, Piece(r)
    PROVE  /\ r \in Seq(Cell) /\ Len(r) \in Nat \ {0} /\ Linked(r, Len(r))
           /\ \A i \in 1..Len(r) : r[i] \in TypeCell => i = 1
           /\ Complete(r, 1) => AllOf(r) /\ LenOf(r[2]) \in Nat
<1>1. r \in Seq(Cell) /\ Len(r) \in Nat \ {0}
  BY EmptySeq DEF Piece
<1>2. \A i \in 1..Len(r) : r[i] \in TypeCell => i = 1
  BY <1>1 DEF Piece
<1>3. Len(r) >= 2 => r[2] \in LenCell /\ Len(r) <= 2 + LenOf(r[2]) /\ LenOf(r[2]) \in Nat
  BY CellKinds DEF Piece
<1>4. Linked(r, Len(r))
  <2> SUFFICES ASSUME NEW i \in 1..(Len(r) - 1), r[i] \in TypeCell
               PROVE  /\ r[i + 1] \in LenCell
                      /\ i + 2 + LenOf(r[i + 1]) <= Len(r)
                         => r[i + 2 + LenOf(r[i + 1])] \in TypeCell
    BY DEF Linked
  <2>1. i = 1 /\ Len(r) >= 2 /\ i + 1 = 2
    BY <1>1, <1>2
  <2>2. ~(i + 2 + LenOf(r[i + 1]) <= Len(r))
    BY <1>1, <1>3, <2>1
  <2> QED
    BY <1>3, <2>1, <2>2
<1>5. Complete(r, 1) => AllOf(r) /\ LenOf(r[2]) \in Nat
  <2> SUFFICES ASSUME Complete(r, 1) PROVE AllOf(r) /\ LenOf(r[2]) \in Nat
    OBVIOUS
  <2>1. Len(r) >= 2 /\ 1 + 1 = 2
    BY <1>1 DEF Complete
  <2>2. 1 + 1 + LenOf(r[1 + 1]) <= Len(r)
    BY DEF Complete
  <2>3. 2 + LenOf(r[2]) <= Len(r)
    BY <1>3, <2>1, <2>2
  <2> QED
    BY <1>1, <1>3, <2>1, <2>3 DEF AllOf
<1> QED
  BY <1>1, <1>2, <1>4, <1>5

(* A record without bytes of the stream. *)
LEMMA QuietRecord ==
    ASSUME NEW r, Piece(r), NEW b \in Nat, \A p \in 1..Len(r) : r[p] \notin DataCell,
           AllOf(r) /\ r[1] = <<"type", "data">> => LenOf(r[2]) >= MAX_INBUF
    PROVE  Numbered(r, b, b) /\ Bodies(r)
<1>1. /\ r \in Seq(Cell) /\ Len(r) \in Nat \ {0}
      /\ \A i \in 1..Len(r) : r[i] \in TypeCell => i = 1
      /\ Complete(r, 1) => AllOf(r) /\ LenOf(r[2]) \in Nat
  BY OneHeader
<1>2. Numbered(r, b, b)
  <2>1. (b + 1)..b = {}
    OBVIOUS
  <2> QED
    BY <2>1 DEF Numbered
<1>3. Bodies(r)
  <2> SUFFICES ASSUME NEW i \in 1..Len(r), Complete(r, i) PROVE Body(r, i, LenOf(r[i + 1]))
    BY DEF Bodies
  <2>1. i = 1 /\ i + 1 = 2
    BY <1>1 DEF Complete
  <2>2. AllOf(r) /\ LenOf(r[2]) \in Nat
    BY <1>1, <2>1
  <2>3. \A p \in (1 + 2)..(1 + 1 + LenOf(r[2])) : r[p] \notin DataCell
    <3>1. Len(r) = 2 + LenOf(r[2])
      BY <2>2 DEF AllOf
    <3>2. \A p \in (1 + 2)..(1 + 1 + LenOf(r[2])) : p \in 1..Len(r)
      BY <2>2, <3>1
    <3> QED
      BY <3>2
  <2>4. Body(r, 1, LenOf(r[2]))
    BY <2>2, <2>3 DEF Body
  <2> QED
    BY <2>1, <2>4
<1> QED
  BY <1>2, <1>3

(* A record on its own is in order. *)
LEMMA RecordEnds ==
    ASSUME NEW r, Piece(r), NEW s, NEW d,
           \A p \in 1..Len(r) : /\ r[p] # Msg("undefined")
                                /\ r[p] = Msg("finished") => s = "data"
                                /\ r[p] = Msg("close_notify") => d
    PROVE  Ending(r, s, d)
<1>1. Len(r) \in Nat \ {0} /\ \A i \in 1..Len(r) : r[i] \in TypeCell => i = 1
  BY OneHeader
<1>2. HandCell \subseteq TypeCell
  BY DEF HandCell, TypeCell
<1>3. \A p, q \in 1..Len(r) : p < q => r[q] \notin TypeCell
  BY <1>1
<1> QED
  BY <1>2, <1>3 DEF Ending

(* The cells of a record tell its kind. *)
LEMMA CellsDiffer ==
    /\ \A c \in TypeCell \cup LenCell \cup {Iv, Mac, Byte(0)} :
          c \notin DataCell /\ \A m : c # Msg(m)
    /\ \A c \in LenCell \cup BodyCell : c \notin HandCell
    /\ \A m : Msg(m) \notin DataCell
    /\ \A k, m : Msg(k) = Msg(m) => k = m
    /\ \A k \in Nat \ {0} : Byte(k) \in DataCell /\ Num(Byte(k)) = k
    /\ \A c \in DataCell : c = Byte(Num(c)) /\ Num(c) \in Nat \ {0}
    /\ \A k, m : Byte(k) # Msg(m)
<1>1. \A c \in TypeCell \cup LenCell \cup {Iv, Mac, Byte(0)} :
          c \notin DataCell /\ \A m : c # Msg(m)
  BY DEF TypeCell, LenCell, Iv, Mac, Byte, DataCell, Msg
<1>2. \A c \in LenCell \cup BodyCell : c \notin HandCell
  <2>1. HandCell \subseteq TypeCell
    BY DEF HandCell, TypeCell
  <2> QED
    BY <2>1, CellKinds
<1>3. \A m : Msg(m) \notin DataCell
  BY DEF Msg, DataCell
<1>4. \A k, m : Msg(k) = Msg(m) => k = m
  BY DEF Msg
<1>5. \A k \in Nat \ {0} : Byte(k) \in DataCell /\ Num(Byte(k)) = k
  BY DEF Byte, DataCell, Num
<1>6. \A c \in DataCell : c = Byte(Num(c)) /\ Num(c) \in Nat \ {0}
  BY DEF Byte, DataCell, Num
<1>7. \A k, m : Byte(k) # Msg(m)
  BY DEF Byte, Msg
<1> QED
  BY <1>1, <1>2, <1>3, <1>4, <1>5, <1>6, <1>7

(* Every cell of a record is part of its header, an iv, a mac or payload. *)
LEMMA RecordPlaces ==
    ASSUME NEW t \in Types, NEW payload \in Seq(BodyCell), NEW enc \in BOOLEAN,
           NEW p \in 1..Len(Record(t, payload, enc))
    PROVE  LET c == Record(t, payload, enc)[p] IN
           \/ p = 1 /\ c = <<"type", t>> /\ c \in TypeCell
           \/ c \in LenCell \cup {Iv, Mac}
           \/ \E j \in 1..Len(payload) : c = payload[j]
<1> DEFINE r == Record(t, payload, enc)
<1>1. Piece(r) /\ AllOf(r) /\ r[1] = <<"type", t>>
  BY RecordCells
<1>2. \/ p \in 3..Len(r) => r[p] \in {Iv, Mac}
      \/ \E j \in 1..Len(payload) : r[p] = payload[j]
  BY RecordHolds
<1> HIDE DEF r
<1>3. Len(r) \in Nat /\ Len(r) >= 2 /\ r[2] \in LenCell /\ r[1] \in TypeCell /\ p \in 1..Len(r)
  BY <1>1, LenProperties DEF Piece, AllOf, r
<1>4. p = 1 \/ p = 2 \/ p \in 3..Len(r)
  BY <1>3
<1> QED
  BY <1>1, <1>2, <1>3, <1>4 DEF r

(* A message of the handshake, a ChangeCipherSpec or an alert. *)
LEMMA MessageRecord ==
    ASSUME NEW t \in Types, t # "data", NEW m \in Messages, m # "undefined",
           NEW enc \in BOOLEAN, NEW b \in Nat, NEW s, NEW d,
           m = "finished" => s = "data", m = "close_notify" => d
    PROVE  LET r == Record(t, <<Msg(m)>>, enc) IN
           /\ Piece(r) /\ AllOf(r) /\ Numbered(r, b, b) /\ Bodies(r) /\ Ending(r, s, d)
           /\ t = "alert" => \A p \in 1..Len(r) : r[p] \notin HandCell
<1> DEFINE y == <<Msg(m)>>
           r == Record(t, y, enc)
<1>1. y \in Seq(BodyCell) /\ Msg(m) \in BodyCell
  BY Payloads DEF BodyCell, Msg
<1>2. \A j \in 1..Len(y) : y[j] = Msg(m)
  OBVIOUS
<1> HIDE DEF y
<1>3. Piece(r) /\ AllOf(r) /\ r[1] = <<"type", t>>
  BY <1>1, RecordCells
<1>4. \A p \in 1..Len(r) : \/ p = 1 /\ r[p] = <<"type", t>> /\ r[p] \in TypeCell
                           \/ r[p] \in LenCell \cup {Iv, Mac}
                           \/ r[p] = Msg(m)
  <2> SUFFICES ASSUME NEW p \in 1..Len(r)
               PROVE  \/ p = 1 /\ r[p] = <<"type", t>> /\ r[p] \in TypeCell
                      \/ r[p] \in LenCell \cup {Iv, Mac}
                      \/ r[p] = Msg(m)
    OBVIOUS
  <2>1. \/ p = 1 /\ r[p] = <<"type", t>> /\ r[p] \in TypeCell
        \/ r[p] \in LenCell \cup {Iv, Mac}
        \/ \E j \in 1..Len(y) : r[p] = y[j]
    BY <1>1, RecordPlaces
  <2> HIDE DEF r
  <2> QED
    BY <1>2, <2>1
<1> HIDE DEF r
<1>5. \A p \in 1..Len(r) : r[p] \notin DataCell
  BY <1>4, CellsDiffer
<1>6. r[1] # <<"type", "data">>
  BY <1>3
<1>7. Numbered(r, b, b) /\ Bodies(r)
  BY <1>3, <1>5, <1>6, QuietRecord
<1>8. \A p \in 1..Len(r) : /\ r[p] # Msg("undefined")
                           /\ r[p] = Msg("finished") => s = "data"
                           /\ r[p] = Msg("close_notify") => d
  <2> SUFFICES ASSUME NEW p \in 1..Len(r), NEW k, r[p] = Msg(k) PROVE k = m
    <3>1. \A q \in 1..Len(r) : \A x : r[q] = Msg(x) => x = m
      OBVIOUS
    <3> QED
      BY <3>1
  <2>1. r[p] = Msg(m)
    <3>1. r[p] \notin TypeCell \cup LenCell \cup {Iv, Mac}
      BY CellsDiffer
    <3> QED
      BY <1>4, <3>1
  <2> QED
    BY <2>1, CellsDiffer
<1>9. Ending(r, s, d)
  BY <1>3, <1>8, RecordEnds
<1>10. ASSUME t = "alert", NEW p \in 1..Len(r) PROVE r[p] \notin HandCell
  <2>1. <<"type", "alert">> \notin HandCell
    BY DEF HandCell
  <2>2. \A c \in LenCell \cup {Iv, Mac, Msg(m)} : c \notin HandCell
    <3>1. Iv \in BodyCell /\ Mac \in BodyCell
      BY DEF BodyCell
    <3> QED
      BY <1>1, <3>1, CellsDiffer
  <2> QED
    BY <1>4, <1>10, <2>1, <2>2
<1> QED
  BY <1>3, <1>7, <1>9, <1>10 DEF r, y

(* A record of application data. *)
LEMMA DataRecord ==
    ASSUME NEW n \in Nat \ {0}, NEW b \in Nat, NEW s, NEW d
    PROVE  LET r == Record("data", [i \in 1..n |-> Byte(b + i)], TRUE) IN
           /\ Piece(r) /\ AllOf(r) /\ Numbered(r, b, b + n) /\ Bodies(r) /\ Ending(r, s, d)
           /\ \A p \in 1..Len(r) : r[p] \notin HandCell
<1> DEFINE y == [i \in 1..n |-> Byte(b + i)]
           r == Record("data", y, TRUE)
<1>1. y \in Seq(BodyCell)
  BY Payloads
<1>2. Len(y) = n /\ \A j \in 1..n : y[j] = Byte(b + j)
  OBVIOUS
<1> HIDE DEF y
<1>3. "data" \in Types /\ TRUE \in BOOLEAN
  <2>1. TRUE \in BOOLEAN
    BY Zenon
  <2> QED
    BY <2>1 DEF Types
<1>4. /\ Piece(r) /\ AllOf(r) /\ r[1] = <<"type", "data">>
      /\ LenOf(r[2]) = n + 2 /\ r[3] = Iv /\ r[4 + n] = Mac
      /\ \A j \in 1..n : r[3 + j] = y[j]
  BY <1>1, <1>2, <1>3, RecordCells
<1> HIDE DEF r
<1>5. \A j \in 1..n : r[3 + j] = Byte(b + j) /\ Byte(b + j) \in DataCell /\ Num(Byte(b + j)) = b + j
  <2>1. \A j \in 1..n : b + j \in Nat \ {0}
    OBVIOUS
  <2> QED
    BY <1>2, <1>4, <2>1, CellsDiffer
<1>6. Len(r) = n + 4 /\ r[2] \in LenCell
  BY <1>4 DEF AllOf, Piece
<1>7. \A p \in 1..Len(r) : p = 1 \/ p = 2 \/ p = 3 \/ p = 4 + n \/ (p - 3 \in 1..n /\ 3 + (p - 3) = p)
  BY <1>6
<1>8. r[1] \in TypeCell
  BY <1>4 DEF Piece
<1>9. \A p \in 1..Len(r) : r[p] \in DataCell => p - 3 \in 1..n /\ 3 + (p - 3) = p /\ Num(r[p]) = b + (p - 3)
  <2> SUFFICES ASSUME NEW p \in 1..Len(r), r[p] \in DataCell
               PROVE  p - 3 \in 1..n /\ 3 + (p - 3) = p /\ Num(r[p]) = b + (p - 3)
    OBVIOUS
  <2>1. p - 3 \in 1..n /\ 3 + (p - 3) = p
    BY <1>4, <1>6, <1>7, <1>8, CellsDiffer
  <2> QED
    BY <1>5, <2>1
<1>10. Numbered(r, b, b + n)
  <2>1. ASSUME NEW k \in (b + 1)..(b + n) PROVE \E p \in 1..Len(r) : r[p] = Byte(k)
    <3>1. k - b \in 1..n /\ b + (k - b) = k /\ 3 + (k - b) \in 1..Len(r)
      BY <1>6
    <3> QED
      BY <1>5, <3>1
  <2>2. ASSUME NEW p \in 1..Len(r), r[p] \in DataCell PROVE Num(r[p]) \in (b + 1)..(b + n)
    BY <1>9, <2>2
  <2>3. ASSUME NEW p \in 1..Len(r), NEW q \in 1..Len(r), p < q, r[p] \in DataCell, r[q] \in DataCell
        PROVE  Num(r[p]) < Num(r[q])
    BY <1>9, <2>3
  <2> QED
    BY <2>1, <2>2, <2>3 DEF Numbered
<1>11. Bodies(r)
  <2> SUFFICES ASSUME NEW i \in 1..Len(r), Complete(r, i) PROVE Body(r, i, LenOf(r[i + 1]))
    BY DEF Bodies
  <2>1. i = 1 /\ i + 1 = 2
    BY <1>4, OneHeader DEF Complete
  <2>2. DataBody(r, 1, n + 2)
    <3>1. r[1 + 2] \notin DataCell /\ r[1 + 1 + (n + 2)] \notin DataCell
      <4>1. 1 + 2 = 3 /\ 1 + 1 + (n + 2) = 4 + n
        OBVIOUS
      <4> QED
        BY <1>4, <4>1, CellsDiffer
    <3>2. r[1 + 3] \in DataCell /\ Num(r[1 + 3]) = b + 1
      <4>1. 1 + 3 = 3 + 1 /\ 1 \in 1..n
        OBVIOUS
      <4> QED
        BY <1>5, <4>1
    <3>3. ASSUME NEW j \in 1..(n + 2 - 2) PROVE r[1 + 2 + j] = Byte(Num(r[1 + 3]) - 1 + j)
      <4>1. j \in 1..n /\ 1 + 2 + j = 3 + j /\ b + 1 - 1 + j = b + j
        OBVIOUS
      <4> QED
        BY <1>5, <3>2, <4>1
    <3> QED
      BY <3>1, <3>2, <3>3 DEF DataBody
  <2> QED
    BY <1>4, <2>1, <2>2 DEF Body
<1>12. \A p \in 1..Len(r) : r[p] \notin HandCell /\ \A m : r[p] # Msg(m)
  <2> SUFFICES ASSUME NEW p \in 1..Len(r) PROVE r[p] \notin HandCell /\ \A m : r[p] # Msg(m)
    OBVIOUS
  <2>1. CASE p = 1
    BY <1>4, <1>8, <2>1, CellsDiffer DEF HandCell
  <2>2. CASE p = 2 \/ p = 3 \/ p = 4 + n
    <3>1. r[p] \in LenCell \cup {Iv, Mac} /\ Iv \in BodyCell /\ Mac \in BodyCell
      BY <1>4, <1>6, <2>2 DEF BodyCell
    <3> QED
      BY <3>1, CellsDiffer
  <2>3. CASE p - 3 \in 1..n /\ 3 + (p - 3) = p
    <3> DEFINE j == p - 3
    <3>0. j \in 1..n /\ 3 + j = p
      BY <2>3
    <3> HIDE DEF j
    <3>3. r[3 + j] = Byte(b + j)
      BY <1>5, <3>0
    <3>4. b + j \in Nat
      BY <3>0
    <3>1. r[p] = Byte(b + j) /\ b + j \in Nat
      BY <3>0, <3>3, <3>4
    <3>2. r[p] \in BodyCell
      BY <3>1 DEF BodyCell, Byte
    <3> QED
      BY <3>1, <3>2, CellsDiffer
  <2> QED
    BY <1>7, <2>1, <2>2, <2>3
<1>13. Ending(r, s, d)
  BY <1>4, <1>12, RecordEnds
<1> QED
  BY <1>4, <1>10, <1>11, <1>12, <1>13 DEF r, y

(* A record of zeros, the beginning of one or the whole of one that is too *)
(* long.                                                                   *)
LEMMA ZeroRecord ==
    ASSUME NEW y \in Seq(BodyCell), \A j \in 1..Len(y) : y[j] = Byte(0), NEW enc \in BOOLEAN,
           NEW r, Piece(r), NEW b \in Nat, NEW s, NEW d,
           Len(r) <= Len(Record("data", y, enc)),
           \A p \in 1..Len(r) : r[p] = Record("data", y, enc)[p],
           AllOf(r) => LenOf(r[2]) >= MAX_INBUF
    PROVE  /\ Numbered(r, b, b) /\ Bodies(r) /\ Ending(r, s, d)
           /\ \A p \in 1..Len(r) : r[p] \notin HandCell
<1> DEFINE R == Record("data", y, enc)
<1>1. "data" \in Types
  BY DEF Types
<1>2. Piece(R) /\ R[1] = <<"type", "data">>
  BY <1>1, RecordCells
<1>3. \A p \in 1..Len(R) : \/ p = 1 /\ R[p] = <<"type", "data">> /\ R[p] \in TypeCell
                           \/ R[p] \in LenCell \cup {Iv, Mac}
                           \/ \E j \in 1..Len(y) : R[p] = y[j]
  BY <1>1, RecordPlaces
<1> HIDE DEF R
<1>4. \A p \in 1..Len(r) : p \in 1..Len(R) /\ r[p] = R[p]
  <2>1. Len(r) \in Nat /\ Len(R) \in Nat
    BY <1>2, OneHeader
  <2> QED
    BY <2>1 DEF R
<1>5. ASSUME NEW p \in 1..Len(r)
      PROVE  r[p] \notin DataCell /\ r[p] \notin HandCell /\ \A m : r[p] # Msg(m)
  <2>1. \/ r[p] = <<"type", "data">> /\ r[p] \in TypeCell
        \/ r[p] \in LenCell \cup {Iv, Mac, Byte(0)}
    BY <1>3, <1>4
  <2>2. Iv \in BodyCell /\ Mac \in BodyCell /\ Byte(0) \in BodyCell
    BY DEF BodyCell, Byte
  <2>3. <<"type", "data">> \notin HandCell
    BY DEF HandCell
  <2> QED
    BY <2>1, <2>2, <2>3, CellsDiffer
<1>6. Numbered(r, b, b) /\ Bodies(r)
  BY <1>5, QuietRecord
<1>7. Ending(r, s, d)
  BY <1>5, RecordEnds
<1> QED
  BY <1>5, <1>6, <1>7

-----------------------------------------------------------------------------
(* What the server sends, and where it stands then *)

Delivered(r, n, m) ==
    /\ Piece(r) /\ Numbered(r, n.sent, m.sent) /\ Bodies(r) /\ Ending(r, m.stage, m.closed)
    /\ n.stage = "data" => \A p \in 1..Len(r) : r[p] \notin HandCell
    /\ m.wire = n.wire \o r

PlainSent(n, m) ==
    \E k \in Nat : /\ m.sent = n.sent + k
                   /\ \/ k = 0 /\ m.wire = n.wire
                      \/ m.wire = n.wire \o [i \in 1..k |-> Byte(n.sent + i)]

Delivers(n, m) ==
    /\ n.sent <= m.sent /\ (n.stage = "data" => m.stage = "data")
    /\ n.stage = "plain" => PlainSent(n, m)
    /\ n.stage # "plain" => \/ m.wire = n.wire /\ m.sent = n.sent
                            \/ \E r : Delivered(r, n, m)

(* The application data is not empty, HelloRequest and the alerts that     *)
(* tls_xread_record does not know are not sent.                            *)
Regular == 0 \notin DataSizes /\ ServerMay \cap {"hello_request", "undefined"} = {}

(* A record on the wire. *)
LEMMA PushIs ==
    ASSUME net \in NetType, NEW t \in Types, NEW payload \in Seq(BodyCell)
    PROVE  LET m == Push(t, payload) IN
           /\ m \in NetType /\ m.stage = net.stage /\ m.closed = net.closed /\ m.sent = net.sent
           /\ m.wire = net.wire \o Record(t, payload, Encrypting(net.stage))
<1> DEFINE r == Record(t, payload, Encrypting(net.stage))
           w == net.wire \o r
           q == SetWire(net, w)
<1>1. Encrypting(net.stage) \in BOOLEAN
  BY DEF Encrypting
<1>2. Piece(r)
  BY <1>1, RecordCells
<1>3. Push(t, payload) = q
  BY DEF Push, SetWire
<1> HIDE DEF r
<1>4. w \in Seq(Cell)
  <2>1. r \in Seq(Cell) /\ net.wire \in Seq(Cell)
    BY <1>2, PieceIsSeq DEF NetType
  <2> QED
    BY <2>1, ConcatProperties
<1> HIDE DEF w
<1>5. q \in NetType /\ q.stage = net.stage /\ q.wire = w /\ q.closed = net.closed /\ q.sent = net.sent
  BY <1>4, NetWire
<1> HIDE DEF q
<1> QED
  BY <1>3, <1>5 DEF w, r

(* The same beyond the handshake. *)
LEMMA ExtraIs ==
    ASSUME net \in NetType, net.records < MaxRecords, NEW t \in Types,
           NEW payload \in Seq(BodyCell)
    PROVE  LET m == Extra(t, payload) IN
           /\ m \in NetType /\ m.stage = net.stage /\ m.closed = net.closed /\ m.sent = net.sent
           /\ m.wire = net.wire \o Record(t, payload, Encrypting(net.stage))
<1> DEFINE q == Push(t, payload)
           k == q.records + 1
           m == SetRecords(q, k)
           r == Record(t, payload, Encrypting(net.stage))
<1>1. /\ q \in NetType /\ q.stage = net.stage /\ q.closed = net.closed /\ q.sent = net.sent
      /\ q.wire = net.wire \o r
  BY PushIs
<1>2. Extra(t, payload) = m
  BY DEF Extra, SetRecords
<1>3. Pushed(net, q)
  BY PushPushes
<1> HIDE DEF q, r
<1>4. k \in 0..MaxRecords
  <2>1. net.records \in 0..MaxRecords /\ q.records = net.records
    BY <1>3 DEF NetType, Pushed
  <2> QED
    BY <2>1, BoundsAssumption
<1> HIDE DEF k
<1>5. m \in NetType /\ m.stage = q.stage /\ m.closed = q.closed /\ m.wire = q.wire /\ m.sent = q.sent
  BY <1>1, <1>4, NetRecords
<1> HIDE DEF m
<1>6. m \in NetType /\ m.stage = net.stage /\ m.closed = net.closed /\ m.sent = net.sent
      /\ m.wire = net.wire \o r
  BY <1>1, <1>5
<1> QED
  BY <1>2, <1>6 DEF r

(* An alert is a record without bytes. *)
LEMMA AlertDelivered ==
    ASSUME net \in NetType, NEW n, NEW k \in Messages, k # "undefined", k # "finished",
           k = "close_notify" => n.closed, n.sent = net.sent,
           n.wire = net.wire \o Record("alert", <<Msg(k)>>, Encrypting(net.stage))
    PROVE  \E r : Delivered(r, net, n)
<1> DEFINE r == Record("alert", <<Msg(k)>>, Encrypting(net.stage))
           b == net.sent
           s == n.stage
           d == n.closed
<1>1. Encrypting(net.stage) \in BOOLEAN /\ "alert" \in Types /\ b \in Nat
  BY DEF Encrypting, Types, NetType
<1> HIDE DEF b, s, d
<1>2. /\ Piece(r) /\ Numbered(r, b, b) /\ Bodies(r) /\ Ending(r, s, d)
      /\ \A p \in 1..Len(r) : r[p] \notin HandCell
  BY <1>1, MessageRecord DEF d
<1> HIDE DEF r
<1>3. n.wire = net.wire \o r
  BY DEF r
<1>4. Delivered(r, net, n)
  BY <1>2, <1>3 DEF Delivered, b, s, d
<1> QED
  BY <1>4

(* The handshake. *)
LEMMA HandshakeDelivers ==
    ASSUME net \in NetType, ServerHandshake
    PROVE  Delivers(net, net')
<1> DEFINE m == net.stage
           t == IF m = "change_cipher_spec" THEN "ccs" ELSE "handshake"
           next == ServerMessages[m]
           q == Push(t, <<Msg(m)>>)
           r == Record(t, <<Msg(m)>>, Encrypting(net.stage))
           b == net.sent
<1>1. m \in DOMAIN ServerMessages
  BY DEF ServerHandshake
<1>2. m \in Messages /\ m # "plain" /\ m # "data" /\ next \in Stages /\ next # "plain"
  BY <1>1, Order
<1>3. net' = SetStage(q, next) \/ net' = SetStage(net, next)
  BY DEF ServerHandshake, SetStage
<1>4. t \in Types /\ t # "data" /\ <<Msg(m)>> \in Seq(BodyCell)
      /\ Encrypting(net.stage) \in BOOLEAN /\ b \in Nat
  BY <1>2, Payloads DEF Types, Encrypting, NetType
<1>5. q \in NetType /\ q.closed = net.closed /\ q.sent = b /\ q.wire = net.wire \o r
  BY <1>4, PushIs
<1>6. m # "undefined" /\ m # "close_notify" /\ (m = "finished" => next = "data")
  BY <1>1 DEF ServerMessages
<1> HIDE DEF q, next, t
<1>7. CASE net' = SetStage(net, next)
  <2>1. net'.sent = net.sent /\ net'.wire = net.wire
    BY <1>2, <1>7, NetStage
  <2>2. net.sent <= net'.sent
    BY <1>4, <2>1
  <2> QED
    BY <1>2, <2>1, <2>2 DEF Delivers
<1>8. CASE net' = SetStage(q, next)
  <2>1. /\ net'.stage = next /\ net'.closed = net.closed /\ net'.sent = b
        /\ net'.wire = net.wire \o r
    BY <1>2, <1>5, <1>8, NetStage
  <2> DEFINE d == net'.closed
  <2>2. Piece(r) /\ Numbered(r, b, b) /\ Bodies(r) /\ Ending(r, next, d)
    BY <1>2, <1>4, <1>6, MessageRecord
  <2> HIDE DEF r
  <2>3. Delivered(r, net, net')
    BY <1>2, <2>1, <2>2 DEF Delivered
  <2>4. net.sent <= net'.sent
    BY <1>4, <2>1
  <2> QED
    BY <1>2, <2>3, <2>4 DEF Delivers
<1> QED
  BY <1>3, <1>7, <1>8

(* Application data, and the other records of a regular server. *)
LEMMA SendsDelivers ==
    ASSUME Regular, net \in NetType, ServerSends
    PROVE  Delivers(net, net')
<1> DEFINE b == net.sent
<1>1. net.records < MaxRecords /\ b \in Nat /\ net.wire \in Seq(Cell)
      /\ net.records \in 0..MaxRecords /\ Encrypting(net.stage) \in BOOLEAN
  <2>1. net.records < MaxRecords
    BY DEF ServerSends
  <2> QED
    BY <2>1 DEF NetType, Encrypting
<1>2. "data" \in Types /\ "alert" \in Types
  BY DEF Types
<1>3. DataSizes \subseteq Nat \ {0} /\ MAX_INBUF \in Nat
  BY SizesAssumption DEF Regular
<1>4. CASE /\ net.stage = "data"
           /\ \E n \in DataSizes :
                net' = [Extra("data", [i \in 1..n |-> Byte(net.sent + i)]) EXCEPT !.sent = @ + n]
  <2> DEFINE y(n) == [i \in 1..n |-> Byte(b + i)]
  <2>1. PICK n \in DataSizes : net' = [Extra("data", y(n)) EXCEPT !.sent = @ + n]
    BY <1>4
  <2> DEFINE q == Extra("data", y(n))
             k == q.sent + n
             r == Record("data", y(n), TRUE)
  <2>2. n \in Nat \ {0} /\ y(n) \in Seq(BodyCell)
    BY <1>1, <1>3, Payloads
  <2>3. Encrypting(net.stage) = TRUE
    BY <1>4 DEF Encrypting
  <2>4. q \in NetType /\ q.stage = net.stage /\ q.sent = b /\ q.wire = net.wire \o r
    BY <1>1, <1>2, <2>2, <2>3, ExtraIs
  <2>5. net' = SetSent(q, k)
    BY <2>1 DEF SetSent
  <2> DEFINE s == net'.stage
             d == net'.closed
  <2> HIDE DEF s, d
  <2>6. /\ Piece(r) /\ Numbered(r, b, b + n) /\ Bodies(r) /\ Ending(r, s, d)
        /\ \A p \in 1..Len(r) : r[p] \notin HandCell
    BY <1>1, <2>2, DataRecord
  <2> HIDE DEF q, r, y
  <2>7. k \in Nat /\ k = b + n /\ b <= b + n
    BY <1>1, <2>2, <2>4
  <2> HIDE DEF k
  <2>8. net'.stage = q.stage /\ net'.wire = q.wire /\ net'.sent = k
    BY <2>4, <2>5, <2>7, NetSent
  <2>9. Delivered(r, net, net')
    BY <2>4, <2>6, <2>7, <2>8 DEF Delivered, s, d
  <2>10. net.sent <= net'.sent
    BY <2>7, <2>8
  <2> QED
    BY <1>4, <2>4, <2>8, <2>9, <2>10 DEF Delivers
<1>5. CASE /\ net.stage # "plain"
           /\ net' \in {OtherRecords[a] : a \in DOMAIN OtherRecords \cap ServerMay}
  <2>1. PICK a \in DOMAIN OtherRecords \cap ServerMay : net' = OtherRecords[a]
    BY <1>5
  <2>2. a \in {"long", "warning", "fatal"}
    <3>1. a \in {"long", "hello_request", "warning", "undefined", "fatal"}
      BY DEF OtherRecords
    <3> QED
      BY <3>1 DEF Regular
  <2>3. ASSUME NEW t \in Types, NEW y \in Seq(BodyCell), net' = Extra(t, y)
        PROVE  /\ net'.stage = net.stage /\ net'.sent = b
               /\ net'.wire = net.wire \o Record(t, y, Encrypting(net.stage))
    BY <1>1, <2>3, ExtraIs
  <2>4. CASE a \in {"warning", "fatal"}
    <3>1. net' = Extra("alert", <<Msg(a)>>)
      BY <2>1, <2>4 DEF OtherRecords
    <3>2. a \in Messages /\ a # "undefined" /\ a # "finished" /\ a # "close_notify"
      BY <2>4 DEF Messages
    <3>3. <<Msg(a)>> \in Seq(BodyCell)
      BY <3>2, Payloads
    <3>4. /\ net'.stage = net.stage /\ net'.sent = b
          /\ net'.wire = net.wire \o Record("alert", <<Msg(a)>>, Encrypting(net.stage))
      BY <1>2, <2>3, <3>1, <3>3
    <3>5. \E r : Delivered(r, net, net')
      BY <3>2, <3>4, AlertDelivered
    <3>6. net.sent <= net'.sent
      BY <1>1, <3>4
    <3> QED
      BY <1>5, <3>4, <3>5, <3>6 DEF Delivers
  <2>5. CASE a = "long"
    <3> DEFINE y == [i \in 1..MAX_INBUF |-> Byte(0)]
               r == Record("data", y, Encrypting(net.stage))
               s == net'.stage
               d == net'.closed
    <3>1. net' = Extra("data", y)
      BY <2>1, <2>5 DEF OtherRecords
    <3>2. y \in Seq(BodyCell) /\ Len(y) = MAX_INBUF /\ \A j \in 1..Len(y) : y[j] = Byte(0)
      BY <1>3, Payloads
    <3> HIDE DEF y
    <3>3. net'.stage = net.stage /\ net'.sent = b /\ net'.wire = net.wire \o r
      BY <1>2, <2>3, <3>1, <3>2
    <3>4. Piece(r) /\ (LenOf(r[2]) = MAX_INBUF + 2 \/ LenOf(r[2]) = MAX_INBUF)
      BY <1>1, <1>2, <3>2, RecordCells
    <3>5. LenOf(r[2]) >= MAX_INBUF /\ Len(r) <= Len(r)
      <4>1. Len(r) \in Nat
        BY <3>4, OneHeader
      <4> HIDE DEF r
      <4> QED
        BY <1>3, <3>4, <4>1
    <3> HIDE DEF s, d
    <3>6. /\ Numbered(r, b, b) /\ Bodies(r) /\ Ending(r, s, d)
          /\ \A p \in 1..Len(r) : r[p] \notin HandCell
      BY <1>1, <3>2, <3>4, <3>5, ZeroRecord
    <3> HIDE DEF r
    <3>7. Delivered(r, net, net')
      BY <3>3, <3>4, <3>6 DEF Delivered, s, d
    <3>8. net.sent <= net'.sent
      BY <1>1, <3>3
    <3> QED
      BY <1>5, <3>3, <3>7, <3>8 DEF Delivers
  <2> QED
    BY <2>2, <2>4, <2>5
<1>6. CASE /\ net.stage = "plain"
           /\ \E n \in DataSizes \ {0} :
                 net' = [net EXCEPT !.wire = @ \o [i \in 1..n |-> Byte(net.sent + i)],
                                    !.records = @ + 1, !.sent = @ + n]
  <2> DEFINE y(n) == [i \in 1..n |-> Byte(net.sent + i)]
             w(n) == net.wire \o y(n)
             k == net.records + 1
             c(n) == net.sent + n
  <2>1. PICK n \in DataSizes : net' = [net EXCEPT !.wire = w(n), !.records = k, !.sent = c(n)]
    BY <1>6
  <2>2. n \in Nat
    BY <1>3
  <2> HIDE DEF w, k, c
  <2>3. net'.wire = w(n) /\ net'.sent = c(n) /\ net'.stage = net.stage
    BY <2>1 DEF NetType
  <2>4. PlainSent(net, net')
    BY <2>2, <2>3 DEF PlainSent, w, c
  <2>5. net.sent <= net'.sent
    BY <1>1, <2>2, <2>3 DEF c
  <2> QED
    BY <1>6, <2>4, <2>5 DEF Delivers
<1> QED
  BY <1>4, <1>5, <1>6 DEF ServerSends

(* The peer closes. *)
LEMMA ClosesDelivers ==
    ASSUME net \in NetType, ServerCloses
    PROVE  Delivers(net, net')
<1> DEFINE b == net.sent
<1>1. b \in Nat /\ net.wire \in Seq(Cell) /\ Encrypting(net.stage) \in BOOLEAN
  BY DEF NetType, Encrypting
<1>2. CASE /\ net.stage # "plain"
           /\ net' = [Push("alert", <<Msg("close_notify")>>) EXCEPT !.closed = TRUE]
  <2> DEFINE q == Push("alert", <<Msg("close_notify")>>)
             r == Record("alert", <<Msg("close_notify")>>, Encrypting(net.stage))
  <2>1. "close_notify" \in Messages /\ "alert" \in Types
    BY DEF Messages, Types
  <2>2. q \in NetType /\ q.stage = net.stage /\ q.sent = b /\ q.wire = net.wire \o r
    BY <2>1, Payloads, PushIs
  <2>3. net' = SetClosed(q)
    BY <1>2 DEF SetClosed
  <2> HIDE DEF q
  <2>4. net'.stage = net.stage /\ net'.sent = b /\ net'.wire = net.wire \o r /\ net'.closed
    BY <2>2, <2>3, NetClosed
  <2>5. \E x : Delivered(x, net, net')
    BY <2>1, <2>4, AlertDelivered
  <2>6. net.sent <= net'.sent
    BY <1>1, <2>4
  <2> QED
    BY <1>2, <2>4, <2>5, <2>6 DEF Delivers
<1>3. CASE net' = [net EXCEPT !.closed = TRUE]
  <2>1. net' = SetClosed(net)
    BY <1>3 DEF SetClosed
  <2>2. net'.stage = net.stage /\ net'.wire = net.wire /\ net'.sent = net.sent
    BY <2>1, NetClosed
  <2>3. PlainSent(net, net')
    <3>1. 0 \in Nat /\ net'.sent = net.sent + 0
      BY <1>1, <2>2
    <3> QED
      BY <2>2, <3>1 DEF PlainSent
  <2>4. net.sent <= net'.sent
    BY <1>1, <2>2
  <2> QED
    BY <2>2, <2>3, <2>4 DEF Delivers
<1>4. CASE /\ net.stage # "plain"
           /\ \E n \in 1..(Len(Record("data", <<Byte(0)>>, Encrypting(net.stage))) - 1) :
                net' = [net EXCEPT !.wire =
                          @ \o SubSeq(Record("data", <<Byte(0)>>, Encrypting(net.stage)), 1, n),
                          !.closed = TRUE]
  <2> DEFINE y == <<Byte(0)>>
             R == Record("data", y, Encrypting(net.stage))
             r(n) == SubSeq(R, 1, n)
             w(n) == net.wire \o r(n)
             s == net'.stage
             d == net'.closed
  <2>1. PICK n \in 1..(Len(R) - 1) : net' = [net EXCEPT !.wire = w(n), !.closed = TRUE]
    BY <1>4
  <2>2. y \in Seq(BodyCell) /\ \A j \in 1..Len(y) : y[j] = Byte(0)
    BY Payloads
  <2> HIDE DEF y
  <2>3. Piece(R) /\ AllOf(R)
    <3>1. "data" \in Types
      BY DEF Types
    <3> QED
      BY <1>1, <2>2, <3>1, RecordCells
  <2> HIDE DEF w
  <2>4. net'.wire = w(n) /\ net'.sent = net.sent /\ net'.stage = net.stage
    BY <2>1 DEF NetType
  <2> HIDE DEF R
  <2>5. R \in Seq(Cell) /\ Len(R) \in Nat /\ n \in 1..Len(R) /\ n < Len(R)
    BY <2>3, OneHeader
  <2>6. Piece(r(n))
    BY <2>3, <2>5, PieceCut
  <2>7. Len(r(n)) = n /\ \A p \in 1..n : r(n)[p] = R[p]
    <3>1. 1 \in Nat \ {0} /\ n \in Int /\ n <= Len(R) /\ \A p \in 1..n : 1 + p - 1 = p
      BY <2>5
    <3>2. /\ Len(r(n)) = IF 1 <= n THEN n - 1 + 1 ELSE 0
          /\ \A p \in 1..(n - 1 + 1) : r(n)[p] = R[1 + p - 1]
      BY <2>5, <3>1, Part
    <3>3. n - 1 + 1 = n /\ 1 <= n
      BY <2>5
    <3> HIDE DEF r
    <3> QED
      BY <3>1, <3>2, <3>3
  <2> HIDE DEF r
  <2>8. ~AllOf(r(n))
    <3> SUFFICES ASSUME AllOf(r(n)) PROVE FALSE
      OBVIOUS
    <3>1. n >= 2 /\ n = 2 + LenOf(r(n)[2])
      BY <2>7 DEF AllOf
    <3>2. r(n)[2] = R[2] /\ Len(R) = 2 + LenOf(R[2])
      BY <2>3, <2>5, <2>7, <3>1 DEF AllOf
    <3> QED
      BY <2>5, <3>1, <3>2
  <2> DEFINE z == r(n)
  <2>9. /\ Piece(z) /\ Len(z) <= Len(R) /\ \A p \in 1..Len(z) : z[p] = R[p]
    BY <2>5, <2>6, <2>7
  <2>10. ~AllOf(z) /\ net'.wire = net.wire \o z
    BY <2>4, <2>8 DEF w
  <2> HIDE DEF z, s, d
  <2>11. /\ Numbered(z, b, b) /\ Bodies(z) /\ Ending(z, s, d)
         /\ \A p \in 1..Len(z) : z[p] \notin HandCell
    BY <1>1, <2>2, <2>9, <2>10, ZeroRecord DEF R
  <2>12. Delivered(z, net, net')
    BY <2>4, <2>9, <2>10, <2>11 DEF Delivered, s, d
  <2>13. net.sent <= net'.sent
    BY <1>1, <2>4
  <2> QED
    BY <1>4, <2>4, <2>12, <2>13 DEF Delivers
<1> QED
  BY <1>2, <1>3, <1>4 DEF ServerCloses

-----------------------------------------------------------------------------
(* The records the client has not taken, when the server sends another *)

Quiet(S) == \A p \in 1..Len(S) : S[p] \notin HandCell

(* A record goes behind the others. *)
LEMMA ContentGrows ==
    ASSUME NEW S \in Seq(Cell), NEW a \in Nat, NEW n \in NetType, NEW m \in NetType,
           a <= n.sent, Content(S, a, n), ~n.closed, Framed(S), Whole(S),
           NEW r, Delivered(r, n, m), n.sent <= m.sent, n.stage = "data" => m.stage = "data"
    PROVE  Content(S \o r, a, m) /\ (n.stage = "data" /\ Quiet(S) => Quiet(S \o r))
<1> DEFINE b == n.sent
           c == m.sent
           s == n.stage
           t == m.stage
           d == m.closed
<1>1. /\ Piece(r) /\ Numbered(r, b, c) /\ Bodies(r) /\ Ending(r, t, d)
      /\ s = "data" => Quiet(r)
  BY DEF Delivered, Quiet
<1>2. r \in Seq(Cell) /\ Linked(r, Len(r))
  BY <1>1, OneHeader
<1>3. b \in Nat /\ c \in Nat /\ n.closed = FALSE
  BY DEF NetType
<1>4. Numbered(S, a, b) /\ Bodies(S) /\ Ending(S, s, FALSE)
  BY <1>3 DEF Content
<1>5. s = "data" => t = "data"
  OBVIOUS
<1>6. a <= b /\ b <= c
  OBVIOUS
<1> HIDE DEF b, c, s, t, d
<1>7. Numbered(S \o r, a, c)
  BY <1>1, <1>2, <1>3, <1>4, <1>6, NumberedAppend
<1>8. Bodies(S \o r)
  BY <1>1, <1>2, <1>4, BodiesAppend
<1>9. Ending(S \o r, t, d)
  BY <1>1, <1>2, <1>4, <1>5, EndingAppend DEF Quiet
<1>10. ASSUME s = "data", Quiet(S) PROVE Quiet(S \o r)
  <2> DEFINE T == S \o r
  <2>1. PartOf(S, T, 0) /\ PartOf(r, T, Len(S)) /\ Len(T) = Len(S) + Len(r)
    BY <1>2, PartsOf
  <2>2. Len(S) \in Nat /\ Len(r) \in Nat
    BY <1>2
  <2>3. /\ \A i \in (0 + 1)..(0 + Len(S)) : i - 0 \in 1..Len(S) /\ T[i] = S[i - 0]
        /\ \A i \in (Len(S) + 1)..(Len(S) + Len(r)) : i - Len(S) \in 1..Len(r) /\ T[i] = r[i - Len(S)]
    BY <2>1, InPart
  <2> HIDE DEF T
  <2>4. \A i \in 1..Len(T) : i \in (0 + 1)..(0 + Len(S)) \/ i \in (Len(S) + 1)..(Len(S) + Len(r))
    BY <2>1, <2>2
  <2>5. Quiet(T)
    BY <1>1, <1>10, <2>3, <2>4 DEF Quiet
  <2> QED
    BY <2>5 DEF T
<1> QED
  BY <1>7, <1>8, <1>9, <1>10 DEF Content, c, t, d, s

(* A step of the server is one of the peer of a stream, or none. *)
LEMMA ServerImplements ==
    ASSUME Inv, StreamInv, Sends(net, net'), Delivers(net, net'), ~net.closed,
           UNCHANGED <<pc, fd, count, g_tls_fd, in_read, in_write, read_pos,
                       read_avail, tls, status, got>>
    PROVE  StreamInv' /\ Stream!PeerWrites
<1>1. /\ net' \in NetType /\ net \in NetType /\ (net'.stage = "plain" <=> net.stage = "plain")
      /\ got \in Seq(Cell) /\ net.wire \in Seq(Cell)
  BY InvParts DEF Sends
<1>2. net.sent <= net'.sent /\ net.sent \in Nat /\ net'.sent \in Nat
      /\ (net.stage = "data" => net'.stage = "data")
  BY <1>1 DEF Delivers, NetType
<1>3. Stream!PeerWrites
  BY <1>2 DEF Stream!PeerWrites
<1>4. /\ Listening' <=> Listening
      /\ Kept' = Kept /\ Unread' = Unread /\ Before' = Before
  BY <1>1 DEF Listening, Kept, Rewound, Reading, Unread, Before
<1>5. ASSUME Listening
      PROVE  /\ Before <= net'.sent /\ Content(Kept \o net'.wire, Before, net')
             /\ (pc \in {"idle", "read"} => net'.stage = "data" /\ Quiet(Kept \o net'.wire))
  <2> DEFINE S == Pending
             a == Before
  <2>1. Kept \in Seq(Cell) /\ net.stage # "plain"
    BY <1>5, KeptIsSeq DEF Listening
  <2>2. S = Kept \o net.wire /\ S \in Seq(Cell)
    BY <1>1, <2>1, ConcatProperties DEF Pending
  <2>3. Framed(S) /\ Whole(S)
    BY <1>5, <2>2 DEF Inv, RecordsInv, Sound
  <2>4. /\ a \in Nat /\ a <= net.sent /\ Content(S, a, net)
        /\ pc \in {"idle", "read"} => net.stage = "data" /\ Quiet(S)
    <3>1. Len(got) \in Nat
      BY <1>1
    <3>2. Unread \in Nat /\ a <= net.sent /\ Content(S, a, net)
          /\ (pc \in {"idle", "read"} => net.stage = "data" /\ Quiet(S))
      BY <1>5 DEF StreamInv, ContentInv, Established, Quiet
    <3>3. a = Len(got) + Unread
      BY DEF Before
    <3> QED
      BY <3>1, <3>2, <3>3
  <2> HIDE DEF S, a
  <2>5. a <= net'.sent
    BY <1>2, <2>4
  <2>6. CASE net'.wire = net.wire /\ net'.sent = net.sent
    <3>1. net.closed = FALSE
      BY <1>1 DEF NetType
    <3>2. Content(S, a, net')
      BY <1>2, <2>4, <2>6, <3>1 DEF Content, Ending
    <3> QED
      BY <1>2, <2>2, <2>4, <2>5, <2>6, <3>2 DEF a
  <2>7. ASSUME NEW r, Delivered(r, net, net')
        PROVE  Content(Kept \o net'.wire, a, net') /\ (net.stage = "data" /\ Quiet(S) => Quiet(Kept \o net'.wire))
    <3>1. Content(S \o r, a, net') /\ (net.stage = "data" /\ Quiet(S) => Quiet(S \o r))
      BY <1>1, <1>2, <2>2, <2>3, <2>4, <2>7, ContentGrows
    <3>2. r \in Seq(Cell) /\ net'.wire = net.wire \o r
      BY <2>7, OneHeader DEF Delivered
    <3>3. S \o r = Kept \o net'.wire
      <4>1. (Kept \o net.wire) \o r = Kept \o (net.wire \o r)
        BY <1>1, <2>1, <3>2, CellsAssociative, Zenon
      <4> QED
        BY <2>2, <3>2, <4>1
    <3> QED
      BY <3>1, <3>3
  <2> QED
    BY <1>2, <2>1, <2>4, <2>5, <2>6, <2>7 DEF Delivers, a
<1>6. ContentInv'
  <2> SUFFICES ASSUME Listening'
               PROVE  /\ Unread' \in Nat /\ Before' <= net'.sent /\ Content(Pending', Before', net')
                      /\ \A j \in 1..Unread' : tls'.inbuf[2 + read_pos' + j] = Byte(Len(got') + j)
                      /\ pc' = "finished" => tls'.encrypted
                      /\ pc' \in {"idle", "read"} => Established'
    BY DEF ContentInv
  <2>1. Listening /\ Pending' = Kept \o net'.wire
    BY <1>4 DEF Pending
  <2>2. /\ Unread \in Nat /\ \A j \in 1..Unread : tls.inbuf[2 + read_pos + j] = Byte(Len(got) + j)
        /\ pc = "finished" => tls.encrypted
        /\ pc \in {"idle", "read"} => tls.encrypted
    BY <2>1 DEF StreamInv, ContentInv, Established
  <2>3. /\ Before' <= net'.sent /\ Content(Pending', Before', net')
    BY <1>4, <1>5, <2>1
  <2>4. pc' \in {"idle", "read"} => Established'
    BY <1>5, <2>1, <2>2 DEF Established, Quiet
  <2> QED
    BY <1>4, <2>2, <2>3, <2>4
<1>7. PlainInv'
  <2> SUFFICES ASSUME pc = "idle", status = "open", net.stage = "plain"
               PROVE  /\ Len(got) + Len(net'.wire) = net'.sent
                      /\ \A j \in 1..Len(net'.wire) : net'.wire[j] = Byte(Len(got) + j)
    BY <1>1 DEF PlainInv
  <2> DEFINE v == net.wire
             l == Len(net.wire)
             g == Len(got)
  <2>1. g + l = net.sent /\ \A j \in 1..l : v[j] = Byte(g + j)
    BY DEF StreamInv, PlainInv
  <2>2. PICK k \in Nat : /\ net'.sent = net.sent + k
                         /\ \/ k = 0 /\ net'.wire = v
                            \/ net'.wire = v \o [i \in 1..k |-> Byte(net.sent + i)]
    BY DEF Delivers, PlainSent
  <2>3. l \in Nat /\ g \in Nat /\ v \in Seq(Cell)
    BY <1>1
  <2>4. CASE k = 0 /\ net'.wire = v
    BY <1>2, <2>1, <2>2, <2>4
  <2>5. CASE net'.wire = v \o [i \in 1..k |-> Byte(net.sent + i)]
    <3> DEFINE y == [i \in 1..k |-> Byte(net.sent + i)]
               w == v \o y
    <3>1. y \in Seq(Cell)
      <4>1. y \in Seq(BodyCell) /\ BodyCell \subseteq Cell
        BY <1>2, Payloads, CellKinds
      <4> QED
        BY <4>1, SeqMonotonic
    <3>2. Len(y) = k /\ \A i \in 1..k : y[i] = Byte(net.sent + i)
      OBVIOUS
    <3> HIDE DEF y, v
    <3>3. /\ Len(w) = Len(v) + Len(y)
          /\ \A i \in 1..Len(v) : w[i] = v[i]
          /\ \A i \in 1..Len(y) : w[Len(v) + i] = y[i]
      BY <2>3, <3>1, Joined
    <3>4. net'.wire = w /\ Len(v) = l
      BY <2>5 DEF y, v
    <3> HIDE DEF w, l, g
    <3>5. Len(w) = l + k /\ g + (l + k) = net.sent + k
      BY <1>2, <2>1, <2>3, <3>2, <3>3, <3>4
    <3>6. ASSUME NEW j \in 1..(l + k) PROVE w[j] = Byte(g + j)
      <4>1. CASE j \in 1..l
        BY <2>1, <3>3, <3>4, <4>1
      <4>2. CASE j \notin 1..l
        <5> DEFINE i == j - l
        <5>1. i \in 1..k /\ l + i = j /\ net.sent + i = g + j
          BY <1>2, <2>1, <2>3, <4>2
        <5> HIDE DEF i
        <5>2. w[l + i] = Byte(net.sent + i)
          BY <3>2, <3>3, <3>4, <5>1
        <5> QED
          BY <5>1, <5>2
      <4> QED
        BY <4>1, <4>2
    <3> QED
      BY <2>2, <3>4, <3>5, <3>6 DEF g
  <2> QED
    BY <2>2, <2>4, <2>5
<1>8. (pc' = "none" => status' # "open") /\ (pc' = "read" => count' # 0)
  BY DEF StreamInv
<1> QED
  BY <1>3, <1>6, <1>7, <1>8 DEF StreamInv

-----------------------------------------------------------------------------
(* The record the client takes *)

After == Rewound(Decrypted) \o net.wire

(* The first record of what is pending, and what comes after it. *)
TakenInv ==
    /\ Listening /\ Pending = tls.inbuf \o net.wire /\ Before = Len(got) /\ Before \in Nat
    /\ Len(got) <= net.sent /\ net.sent \in Nat /\ Content(Pending, Len(got), net)
    /\ Len(Pending) \in Nat /\ \A i \in 1..Total : Pending[i] = tls.inbuf[i]
    /\ Target \in Nat /\ 2 <= Target /\ Target <= Len(Pending)
    /\ Pending[1] = <<"type", RecType>> /\ Pending[1] \in TypeCell /\ RecType \in Types
    /\ Pending[2] \in LenCell
    /\ Body(Pending, 1, Target - 2)
    /\ PartOf(After, Pending, Target) /\ Len(Pending) = Target + Len(After)
    /\ After \in Seq(Cell) /\ Framed(After)
    /\ Bodies(After) /\ Ending(After, net.stage, net.closed)

(* tls_xread_record has a complete record. *)
LEMMA RecordPending ==
    ASSUME Inv, StreamInv, Reading, HaveRecord, ~TooShort
    PROVE  TakenInv
<1> DEFINE w == tls.inbuf \o net.wire
           b == tls.inbuf
           T == After
<1>1. Taken
  BY RecordTaken
<1>2. b \in Seq(Cell) /\ net.wire \in Seq(Cell) /\ Total \in Nat /\ Total = Len(b)
      /\ Len(net.wire) \in Nat /\ got \in Seq(Cell) /\ net \in NetType
  BY InvParts DEF Total
<1>3. Listening /\ Kept = b /\ pc # "idle"
  BY DEF Listening, Inv, ActiveInv, Kept, Reading, Handshaking
<1>4. Pending = w /\ Unread = 0 /\ Len(got) \in Nat /\ net.sent \in Nat
  BY <1>2, <1>3 DEF Pending, Unread, NetType
<1>5. Before = Len(got)
  BY <1>4 DEF Before
<1>6. Len(got) <= net.sent /\ Content(w, Len(got), net)
  BY <1>3, <1>4, <1>5 DEF StreamInv, ContentInv
<1>7. /\ w \in Seq(Cell) /\ Len(w) = Total + Len(net.wire)
      /\ \A i \in 1..Total : w[i] = b[i]
  BY <1>2, Joined, ZenonT(30)
<1>8. Target \in Nat /\ 2 <= Target /\ Target <= Total
  BY <1>1 DEF Taken
<1>9. Target = 2 + LenOf(b[2]) /\ b[2] \in LenCell
  <2>1. HaveHeader
    BY DEF HaveRecord
  <2> QED
    BY <2>1, HeaderIs
<1>10. T = SubSeq(w, Target + 1, Len(w)) /\ Sound(T, net.closed)
  BY <1>1 DEF Taken, After
<1>11. T \in Seq(Cell)
  BY <1>1, <1>2, ConcatProperties DEF Taken, After
<1>12. Sound(w, net.closed)
  BY <1>3, <1>4 DEF Inv, RecordsInv, Pending
<1> HIDE DEF w, T, b
<1>13. Len(w) \in Nat /\ Target <= Len(w) /\ 1 \in 1..Total /\ 2 \in 1..Total /\ 1 \in 1..Len(w)
  BY <1>2, <1>7, <1>8
<1>14. w[1] \in TypeCell /\ w[2] = b[2] /\ w[1] = b[1]
  <2>1. w # <<>>
    BY <1>13
  <2> QED
    BY <1>7, <1>12, <1>13, <2>1 DEF Sound, Framed
<1>15. w[1] = <<"type", RecType>> /\ RecType \in Types
  <2>1. w[1] = <<"type", w[1][2]>> /\ w[1][2] \in Types
    BY <1>14 DEF TypeCell, Types
  <2> QED
    BY <1>14, <2>1 DEF RecType, b
<1>16. PartOf(T, w, Target) /\ Len(T) = Len(w) - Target
  BY <1>7, <1>8, <1>10, <1>13, PartsOf
<1>17. Framed(T)
  BY <1>10 DEF Sound
<1>18. Len(w) = Target + Len(T) /\ Len(T) \in Nat
  BY <1>8, <1>11, <1>13, <1>16
<1>19. Bodies(w) /\ Ending(w, net.stage, net.closed)
  BY <1>6 DEF Content
<1>20. Bodies(T)
  BY <1>16, <1>17, <1>18, <1>19, BodiesDrop
<1>21. Ending(T, net.stage, net.closed)
  BY <1>16, <1>19, EndingDrop
<1>22. Body(w, 1, Target - 2)
  <2> DEFINE k == LenOf(w[2])
  <2>1. k \in Nat /\ Target = 2 + k
    BY <1>9, <1>14, CellKinds
  <2>2. k = Target - 2 /\ 1 + 1 = 2 /\ 1 + 1 + k <= Len(w) /\ 1 + 1 <= Len(w)
    BY <1>8, <1>13, <2>1
  <2>3. Complete(w, 1)
    <3>1. LenOf(w[1 + 1]) = k
      BY <2>2
    <3> HIDE DEF k
    <3> QED
      BY <1>14, <2>2, <3>1 DEF Complete
  <2>4. Body(w, 1, LenOf(w[1 + 1]))
    BY <1>13, <1>19, <2>3 DEF Bodies
  <2> QED
    BY <2>2, <2>4
<1>23. Pending = tls.inbuf \o net.wire
  BY <1>4 DEF w
<1>24. /\ Len(Pending) \in Nat /\ \A i \in 1..Total : Pending[i] = tls.inbuf[i]
       /\ Target <= Len(Pending) /\ Pending[1] = <<"type", RecType>> /\ Pending[1] \in TypeCell
       /\ Pending[2] \in LenCell /\ Body(Pending, 1, Target - 2)
       /\ PartOf(T, Pending, Target) /\ Len(Pending) = Target + Len(T)
       /\ Content(Pending, Len(got), net)
  BY <1>4, <1>6, <1>7, <1>9, <1>13, <1>14, <1>15, <1>16, <1>18, <1>22 DEF b
<1> QED
  BY <1>3, <1>4, <1>5, <1>6, <1>8, <1>11, <1>15, <1>17, <1>20, <1>21, <1>23, <1>24 DEF TakenInv, T

(* A record that is not application data holds no bytes of the stream. *)
LEMMA TakesNoBytes ==
    ASSUME TakenInv, RecType # "data"
    PROVE  Content(After, Len(got), net)
<1> DEFINE S == Pending
           a == Len(got)
<1>1. /\ a \in Nat /\ net.sent \in Nat /\ a <= net.sent /\ Content(S, a, net)
      /\ Target \in Nat /\ 2 <= Target /\ S[1] = <<"type", RecType>> /\ S[1] \in TypeCell
      /\ S[2] \in LenCell /\ Body(S, 1, Target - 2)
      /\ PartOf(After, S, Target) /\ Len(S) = Target + Len(After)
  BY DEF TakenInv
<1> HIDE DEF S, a
<1>2. S[1] # <<"type", "data">>
  BY <1>1
<1>3. \A p \in (1 + 2)..(1 + 1 + (Target - 2)) : S[p] \notin DataCell
  BY <1>1, <1>2 DEF Body
<1>4. ASSUME NEW p \in 1..Target PROVE S[p] \notin DataCell
  <2>1. p = 1 \/ p = 2 \/ p \in (1 + 2)..(1 + 1 + (Target - 2))
    BY <1>1
  <2> QED
    BY <1>1, <1>3, <2>1, CellsDiffer
<1>5. Numbered(S, a, net.sent)
  BY <1>1 DEF Content
<1> DEFINE z == net.sent
<1>6. z \in Nat /\ Numbered(S, a, z) /\ a <= a
  BY <1>1, <1>5
<1> HIDE DEF z
<1>7. Numbered(After, a, z)
  BY <1>1, <1>4, <1>6, NumberedDrop
<1> QED
  BY <1>7 DEF Content, TakenInv, a, z

(* What is left after the last record: nothing, when all bytes were read. *)
LEMMA NothingLeft ==
    ASSUME NEW S \in Seq(Cell), S = <<>>, NEW a \in Nat, NEW b \in Nat, a <= b, Numbered(S, a, b)
    PROVE  a = b
<1>1. \A k \in (a + 1)..b : FALSE
  BY DEF Numbered
<1> QED
  BY <1>1

(* The plaintext of an encrypted record. *)
LEMMA PlainIs ==
    ASSUME Taken, TakenInv, tls.encrypted, ~TooShort, Total \in Nat, tls.inbuf \in Seq(Cell)
    PROVE  /\ Target >= 4 /\ Len(Plain) = Target - 4
           /\ \A j \in 1..Len(Plain) : Plain[j] = Pending[3 + j]
<1> DEFINE b == tls.inbuf
<1>1. Target \in Nat /\ Target <= Total /\ Total = Len(b) /\ 2 <= Target
      /\ \A i \in 1..Total : Pending[i] = b[i]
  BY DEF Taken, TakenInv, Total
<1>2. Target >= 4
  BY <1>1 DEF TooShort, RECHDR_LEN, IvLen, MacLen
<1>3. Plain = SubSeq(b, 4, Target - 1)
  <2>1. RECHDR_LEN + IvLen + 1 = 4 /\ MacLen = 1
    BY DEF RECHDR_LEN, IvLen, MacLen
  <2> QED
    BY <2>1 DEF Plain
<1> HIDE DEF b
<1>4. 4 \in Nat \ {0} /\ Target - 1 \in Int /\ Target - 1 <= Len(b) /\ b \in Seq(Cell)
  BY <1>1 DEF b
<1>5. /\ Len(Plain) = IF 4 <= Target - 1 THEN Target - 1 - 4 + 1 ELSE 0
      /\ \A j \in 1..(Target - 1 - 4 + 1) : Plain[j] = b[4 + j - 1]
  BY <1>3, <1>4, Part
<1>6. Len(Plain) = Target - 4
  BY <1>1, <1>2, <1>5
<1>7. ASSUME NEW j \in 1..Len(Plain) PROVE Plain[j] = Pending[3 + j]
  <2>1. j \in 1..(Target - 1 - 4 + 1) /\ 4 + j - 1 = 3 + j /\ 3 + j \in 1..Total
    BY <1>1, <1>2, <1>6
  <2> QED
    BY <1>1, <1>5, <2>1
<1> QED
  BY <1>2, <1>6, <1>7

(* The bytes of a record of application data are the next ones. *)
LEMMA TakesBytes ==
    ASSUME Inv, Taken, TakenInv, tls.encrypted, ~TooShort, ~TooLong, HaveHeader,
           RecType = "data"
    PROVE  /\ Len(Plain) \in Nat \ {0} /\ Len(got) + Len(Plain) <= net.sent
           /\ \A j \in 1..Len(Plain) : Plain[j] = Byte(Len(got) + j)
           /\ Content(After, Len(got) + Len(Plain), net)
<1> DEFINE S == Pending
           a == Len(got)
           z == net.sent
           n == Target - 4
           c == a + n
<1>1. /\ a \in Nat /\ z \in Nat /\ a <= z /\ Content(S, a, net)
      /\ Target \in Nat /\ 2 <= Target /\ S[1] = <<"type", RecType>> /\ S[1] \in TypeCell
      /\ S[2] \in LenCell /\ Body(S, 1, Target - 2)
      /\ PartOf(After, S, Target) /\ Len(S) = Target + Len(After) /\ Len(S) \in Nat
      /\ Target <= Len(S)
  BY DEF TakenInv
<1>2. Target >= 4 /\ Len(Plain) = n /\ \A j \in 1..Len(Plain) : Plain[j] = S[3 + j]
  BY InvParts, PlainIs
<1>3. Target <= MAX_INBUF /\ MAX_INBUF \in Nat
  BY <1>1, SizesAssumption DEF TooLong
<1> HIDE DEF S, a, z
<1>4. DataBody(S, 1, Target - 2)
  <2>1. ~(Target - 2 >= MAX_INBUF)
    BY <1>1, <1>3
  <2>2. S[1] = <<"type", "data">>
    BY <1>1
  <2> QED
    BY <1>1, <2>1, <2>2 DEF Body
<1>5. /\ Target - 2 > 2 /\ S[3] \notin DataCell /\ S[Target] \notin DataCell /\ S[4] \in DataCell
      /\ \A j \in 1..n : S[3 + j] = Byte(Num(S[4]) - 1 + j)
  <2>1. 1 + 2 = 3 /\ 1 + 1 + (Target - 2) = Target /\ 1 + 3 = 4 /\ Target - 2 - 2 = n
    BY <1>1
  <2>2. /\ Target - 2 > 2 /\ S[1 + 2] \notin DataCell /\ S[1 + 1 + (Target - 2)] \notin DataCell
        /\ S[1 + 3] \in DataCell
        /\ \A j \in 1..(Target - 2 - 2) : S[1 + 2 + j] = Byte(Num(S[1 + 3]) - 1 + j)
    BY <1>4 DEF DataBody
  <2> QED
    BY <2>1, <2>2
<1>6. n \in Nat \ {0} /\ Target = n + 4
  BY <1>1, <1>2, <1>5
<1> HIDE DEF n
<1>7. Numbered(S, a, z)
  BY <1>1 DEF Content, z
<1>8. Num(S[4]) = a + 1
  <2> DEFINE f == Num(S[4])
  <2>1. 4 \in 1..Len(S) /\ 1 \in 1..Len(S) /\ 2 \in 1..Len(S) /\ 3 \in 1..Len(S)
    BY <1>1, <1>2
  <2>2. f \in (a + 1)..z
    BY <1>5, <1>7, <2>1 DEF Numbered
  <2>3. a + 1 \in (a + 1)..z /\ a + 1 \in Nat \ {0}
    BY <1>1, <2>2
  <2>4. PICK q \in 1..Len(S) : S[q] = Byte(a + 1)
    BY <1>7, <2>3 DEF Numbered
  <2>5. S[q] \in DataCell /\ Num(S[q]) = a + 1
    BY <2>3, <2>4, CellsDiffer
  <2>6. ~(4 < q) \/ f < a + 1
    BY <1>5, <1>7, <2>1, <2>5 DEF Numbered
  <2>7. q # 1 /\ q # 2 /\ q # 3
    BY <1>1, <1>5, <2>5, CellsDiffer
  <2>8. q \in Nat /\ q >= 1
    BY <1>1
  <2>9. q = 4 \/ f < a + 1
    BY <2>6, <2>7, <2>8
  <2>10. ~(f < a + 1)
    <3> HIDE DEF f
    <3> QED
      BY <1>1, <2>2
  <2> QED
    BY <2>5, <2>9, <2>10
<1>9. \A j \in 1..n : S[3 + j] = Byte(a + j) /\ Byte(a + j) \in DataCell /\ Num(Byte(a + j)) = a + j
  <2> SUFFICES ASSUME NEW j \in 1..n
               PROVE  S[3 + j] = Byte(a + j) /\ Byte(a + j) \in DataCell /\ Num(Byte(a + j)) = a + j
    OBVIOUS
  <2>1. a + j \in Nat \ {0} /\ a + 1 - 1 + j = a + j
    BY <1>1, <1>6
  <2> DEFINE f == Num(S[4])
  <2>2. S[3 + j] = Byte(f - 1 + j) /\ f = a + 1
    BY <1>5, <1>8
  <2> HIDE DEF f
  <2>3. S[3 + j] = Byte(a + j)
    <3>1. f - 1 + j = a + j
      BY <1>1, <1>6, <2>2
    <3> QED
      BY <2>2, <3>1
  <2>4. Byte(a + j) \in DataCell /\ Num(Byte(a + j)) = a + j
    BY <2>1, CellsDiffer
  <2> QED
    BY <2>3, <2>4
<1>10. ASSUME NEW p \in 1..Target, S[p] \in DataCell PROVE Num(S[p]) <= c
  <2>1. p # 1 /\ p # 2 /\ p # 3 /\ p # Target
    BY <1>1, <1>5, <1>10, CellsDiffer
  <2> DEFINE j == p - 3
  <2>2. j \in 1..n /\ p = 3 + j /\ a + j <= c
    BY <1>1, <1>6, <2>1
  <2> HIDE DEF j
  <2> QED
    BY <1>9, <2>2
<1>11. \E p \in 1..Target : S[p] = Byte(c)
  <2>1. n \in 1..n /\ 3 + n \in 1..Target
    BY <1>6
  <2> QED
    BY <1>9, <2>1
<1>12. c \in Nat /\ a <= c /\ c <= z
  <2>1. n \in 1..n /\ 3 + n \in 1..Len(S)
    BY <1>1, <1>6
  <2>2. S[3 + n] \in DataCell /\ Num(S[3 + n]) = a + n
    BY <1>9, <2>1
  <2>3. Num(S[3 + n]) \in (a + 1)..z
    BY <1>7, <2>1, <2>2 DEF Numbered
  <2> QED
    BY <1>1, <1>6, <2>2, <2>3
<1> HIDE DEF c
<1>13. Numbered(After, c, z)
  BY <1>1, <1>7, <1>10, <1>11, <1>12, NumberedDrop
<1>14. Content(After, c, net)
  BY <1>13 DEF Content, TakenInv, z
<1>15. \A j \in 1..Len(Plain) : Plain[j] = Byte(a + j)
  BY <1>2, <1>9
<1> QED
  BY <1>2, <1>6, <1>12, <1>14, <1>15 DEF a, c, z

-----------------------------------------------------------------------------
(* Steps of the client *)

(* The connection fails or is closed. *)
LEMMA EndImplements ==
    ASSUME StreamInv, pc' = "none", status' \in {"failed", "none"}, net'.sent = net.sent,
           UNCHANGED got
    PROVE  StreamInv' /\ Stream!End
<1>1. ~Listening' /\ pc' # "idle" /\ pc' # "read"
  BY DEF Listening, Reading, Handshaking
<1>2. ContentInv' /\ PlainInv'
  BY <1>1 DEF ContentInv, PlainInv
<1>3. Stream!End
  BY DEF Stream!End
<1> QED
  BY <1>1, <1>2, <1>3 DEF StreamInv

(* A death of the program. *)
LEMMA DieImplements ==
    ASSUME StreamInv, Die, UNCHANGED net
    PROVE  StreamInv' /\ Stream!End
<1>1. pc' = "none" /\ status' \in {"failed", "none"} /\ net'.sent = net.sent /\ UNCHANGED got
  BY DEF Die
<1> QED
  BY <1>1, EndImplements

(* End of file when nothing is pending. *)
LEMMA EofImplements ==
    ASSUME StreamInv, pc' = "idle", status = "open", status' = "eof", Len(got) = net.sent,
           net'.sent = net.sent, UNCHANGED got
    PROVE  StreamInv' /\ Stream!Eof
<1>1. ~Listening' /\ pc' # "none" /\ pc' # "read"
  BY DEF Listening, Reading, Handshaking
<1>2. ContentInv' /\ PlainInv'
  BY <1>1 DEF ContentInv, PlainInv
<1>3. Stream!Eof
  BY DEF Stream!Eof
<1> QED
  BY <1>1, <1>2, <1>3 DEF StreamInv

(* The client goes on with records that follow. *)
LEMMA GoesOnImplements ==
    ASSUME Inv, Inv', Reading', StreamInv, NEW T, Pending' = T, Content(T, Len(got), net'),
           Len(got) <= net.sent, net'.sent = net.sent, UNCHANGED <<status, got>>,
           pc' = "read" => count' # 0,
           pc' = "finished" => tls'.encrypted,
           pc' = "read" => tls'.encrypted /\ net'.stage = "data" /\ Quiet(T)
    PROVE  StreamInv' /\ UNCHANGED Stream!vars
<1>1. pc' # "idle" /\ pc' # "none"
  BY DEF Reading, Handshaking
<1>2. Unread' = 0 /\ Len(got) \in Nat
  BY <1>1, InvParts DEF Unread
<1>3. Before' = Len(got)
  BY <1>2 DEF Before
<1>4. pc' = "read" => Established'
  BY DEF Established, Quiet
<1>5. ContentInv'
  <2> SUFFICES ASSUME Listening'
               PROVE  /\ Unread' \in Nat /\ Before' <= net'.sent /\ Content(Pending', Before', net')
                      /\ \A j \in 1..Unread' : tls'.inbuf[2 + read_pos' + j] = Byte(Len(got') + j)
                      /\ pc' = "finished" => tls'.encrypted
                      /\ pc' \in {"idle", "read"} => Established'
    BY DEF ContentInv
  <2>1. 1..Unread' = {} /\ Unread' \in Nat
    BY <1>2
  <2>2. Before' <= net'.sent /\ Content(Pending', Before', net')
    BY <1>3
  <2> QED
    BY <1>1, <1>4, <2>1, <2>2
<1>6. PlainInv'
  BY <1>1 DEF PlainInv
<1> QED
  BY <1>1, <1>5, <1>6 DEF StreamInv, Stream!vars

(* read(2) moves cells from the wire to tls->inbuf. *)
LEMMA ReadRawImplements ==
    ASSUME Inv, Inv', StreamInv, XReadRaw
    PROVE  StreamInv' /\ UNCHANGED Stream!vars
<1> DEFINE b == tls.inbuf
           v == net.wire
           c(sz) == SubSeq(v, 1, sz)
           d(sz) == SubSeq(v, sz + 1, Len(v))
           x(sz) == b \o c(sz)
<1>1. PICK sz \in 1..MinOf(Room, Len(v)) :
          tls' = SetRead(tls, x(sz), GrownSize) /\ net' = SetWire(net, d(sz))
  BY DEF XReadRaw, SetRead, SetWire
<1>2. /\ Reading /\ UNCHANGED <<pc, fd, count, g_tls_fd, in_read, in_write, read_pos,
                                read_avail, status, got>>
  BY DEF XReadRaw
<1>3. b \in Seq(Cell) /\ v \in Seq(Cell) /\ tls \in TlsType /\ net \in NetType
      /\ Len(v) \in Nat /\ Total \in Nat /\ GrownSize \in Nat
  BY InvParts, Growth
<1>4. sz \in 0..Len(v)
  BY <1>3 DEF Room, MinOf
<1>5. pc # "idle" /\ Listening /\ Reading' /\ Pending = b \o v
  BY <1>2 DEF Reading, Handshaking, Listening, Inv, ActiveInv, Pending, Kept
<1> HIDE DEF b, v
<1>6. c(sz) \in Seq(Cell) /\ d(sz) \in Seq(Cell) /\ x(sz) \o d(sz) = b \o v
  <2>1. b \in Seq(Cell) /\ v \in Seq(Cell) /\ sz \in 0..Len(v)
    BY <1>3, <1>4
  <2>2. c(sz) \in Seq(Cell) /\ d(sz) \in Seq(Cell) /\ c(sz) \o d(sz) = v
    BY <2>1, CutInTwo
  <2> HIDE DEF c, d
  <2>3. (b \o c(sz)) \o d(sz) = b \o v
    BY <2>1, <2>2, CellsAssociative, Zenon
  <2> QED
    BY <2>2, <2>3
<1> HIDE DEF c, d
<1>7. x(sz) \in Seq(Cell)
  BY <1>3, <1>6, ConcatProperties
<1> HIDE DEF x
<1>8. tls'.inbuf = x(sz) /\ tls'.encrypted = tls.encrypted
  <2> DEFINE k == GrownSize
             y == x(sz)
  <2>1. tls' = [tls EXCEPT !.inbuf = y, !.inbuf_size = k]
    BY <1>1 DEF SetRead
  <2> HIDE DEF k, y
  <2>2. tls'.inbuf = y /\ tls'.encrypted = tls.encrypted
    BY <1>3, <2>1 DEF TlsType
  <2> QED
    BY <2>2 DEF y
<1>9. net'.stage = net.stage /\ net'.wire = d(sz) /\ net'.closed = net.closed /\ net'.sent = net.sent
  BY <1>1, <1>3, <1>6, NetWire
<1>10. Pending' = Pending
  BY <1>5, <1>6, <1>8, <1>9 DEF Pending, Kept
<1>11. Unread = 0 /\ Len(got) \in Nat
  BY <1>5, InvParts DEF Unread
<1>12. Before = Len(got)
  BY <1>11 DEF Before
<1>13. /\ Len(got) <= net.sent /\ Content(Pending, Len(got), net)
       /\ pc = "finished" => tls.encrypted
       /\ pc = "read" => tls.encrypted /\ net.stage = "data" /\ Quiet(Pending)
  BY <1>5, <1>12 DEF StreamInv, ContentInv, Established, Quiet
<1>14. Content(Pending, Len(got), net')
  BY <1>9, <1>13 DEF Content
<1>15. pc' = "read" => count' # 0
  BY <1>2 DEF StreamInv
<1> QED
  BY <1>2, <1>5, <1>8, <1>9, <1>10, <1>13, <1>14, <1>15, GoesOnImplements

(* The end of the stream between two records. *)
LEMMA ReadEofImplements ==
    ASSUME Inv, StreamInv, XReadEof
    PROVE  StreamInv' /\ (Stream!Eof \/ Stream!End)
<1>1. Reading /\ UNCHANGED net /\ net.wire = <<>>
  BY DEF XReadEof
<1>2. CASE Die
  BY <1>1, <1>2, DieImplements
<1>3. CASE Total = 0 /\ pc = "read" /\ ReturnEof
  <2>1. pc' = "idle" /\ status' = "eof" /\ UNCHANGED got
    BY <1>3 DEF ReturnEof
  <2>2. status = "open" /\ Listening /\ Kept = tls.inbuf
    BY <1>1 DEF Inv, ActiveInv, Listening, Kept
  <2>3. Pending = <<>> /\ Pending \in Seq(Cell)
    <3>1. tls.inbuf = <<>>
      BY <1>3, InvParts, EmptySeq DEF Total
    <3> QED
      BY <1>1, <2>2, <3>1 DEF Pending
  <2>4. Unread = 0 /\ Len(got) \in Nat /\ net.sent \in Nat
    BY <1>3, InvParts DEF Unread, NetType
  <2>5. Before = Len(got)
    BY <2>4 DEF Before
  <2> DEFINE a == Len(got)
             z == net.sent
             S == Pending
  <2>6. a \in Nat /\ z \in Nat /\ a <= z /\ Numbered(S, a, z) /\ S \in Seq(Cell) /\ S = <<>>
    BY <2>2, <2>3, <2>4, <2>5 DEF StreamInv, ContentInv, Content
  <2> HIDE DEF a, z, S
  <2>7. a = z
    BY <2>6, NothingLeft
  <2>8. Len(got) = net.sent /\ net'.sent = net.sent
    BY <1>1, <2>7 DEF a, z
  <2> QED
    BY <2>1, <2>2, <2>8, EofImplements
<1> QED
  BY <1>2, <1>3 DEF XReadEof

(* A turn of "goto again" in tls_xread_record, or the next message of the  *)
(* handshake.                                                              *)
LEMMA AgainImplements ==
    ASSUME Inv, Inv', StreamInv, Reading, Taken, TakenInv, RecType # "data", NEW e \in BOOLEAN,
           tls' = [Rewind(Decrypted) EXCEPT !.encrypted = e],
           pc' \in Handshaking \cup {"read"}, pc' = "read" <=> pc = "read",
           pc' \in {"finished", "read"} => e,
           UNCHANGED <<fd, count, g_tls_fd, in_read, in_write, read_pos, read_avail,
                       net, status, got>>
    PROVE  StreamInv' /\ UNCHANGED Stream!vars
<1> DEFINE t == Decrypted
           b == Rewound(Decrypted)
<1>1. t \in TlsType /\ b \in Seq(Cell)
  BY DEF Taken
<1>2. tls' = [t EXCEPT !.inbuf = b, !.encrypted = e]
  BY DEF Rewind, Rewound
<1> HIDE DEF t, b
<1>3. tls'.inbuf = b /\ tls'.encrypted = e
  BY <1>1, <1>2 DEF TlsType
<1>4. Reading' /\ Pending' = After
  <2>1. Reading'
    BY DEF Reading
  <2> QED
    BY <1>3, <2>1 DEF Pending, Kept, After, b
<1>5. Content(After, Len(got), net')
  BY TakesNoBytes
<1>6. pc = "read" => net'.stage = "data" /\ Quiet(After)
  <2> SUFFICES ASSUME pc = "read" PROVE net.stage = "data" /\ Quiet(After)
    OBVIOUS
  <2>1. net.stage = "data" /\ Quiet(Pending)
    BY DEF StreamInv, ContentInv, TakenInv, Established, Quiet
  <2>2. \A i \in 1..Len(After) : Target + i \in 1..Len(Pending) /\ Pending[Target + i] = After[i]
    <3>1. PartOf(After, Pending, Target)
      BY DEF TakenInv
    <3> QED
      BY <3>1, InPart
  <2> QED
    BY <2>1, <2>2 DEF Quiet
<1>7. Len(got) <= net.sent
  BY DEF TakenInv
<1>8. pc' = "read" => count' # 0
  BY DEF StreamInv
<1>9. /\ pc' = "finished" => tls'.encrypted
      /\ pc' = "read" => tls'.encrypted
  BY <1>3
<1> QED
  BY <1>4, <1>5, <1>6, <1>7, <1>8, <1>9, GoesOnImplements

(* The client returns to its caller, with bytes or at the end of the       *)
(* handshake.                                                              *)
LEMMA ReturnsImplements ==
    ASSUME Inv, Inv', StreamInv, Taken, tls' = Decrypted, tls.encrypted, pc' = "idle",
           status' = "open", UNCHANGED net, net.stage # "plain",
           read_pos' \in Nat, read_avail' \in Nat, read_pos' <= read_avail',
           Len(got') + (read_avail' - read_pos') <= net.sent,
           Content(After, Len(got') + (read_avail' - read_pos'), net),
           net.stage = "data", Quiet(After),
           \A j \in 1..(read_avail' - read_pos') :
              Decrypted.inbuf[2 + read_pos' + j] = Byte(Len(got') + j)
    PROVE  StreamInv'
<1>1. ~Reading' /\ pc' # "none" /\ pc' # "read" /\ pc' # "finished"
  BY DEF Reading, Handshaking
<1>2. Kept' = Rewound(Decrypted)
  BY <1>1 DEF Kept, Rewound
<1>3. Pending' = After
  BY <1>2 DEF Pending, After
<1>4. Unread' = read_avail' - read_pos' /\ Unread' \in Nat
  <2>1. Unread' = read_avail' - read_pos'
    BY DEF Unread
  <2>2. \A i, j \in Nat : i <= j => j - i \in Nat
    OBVIOUS
  <2> QED
    BY <2>1, <2>2
<1>5. Before' = Len(got') + (read_avail' - read_pos')
  BY <1>4 DEF Before
<1>6. tls'.encrypted
  BY DEF Taken
<1>7. Established'
  BY <1>3, <1>6 DEF Established, Quiet
<1>8. \A j \in 1..Unread' : tls'.inbuf[2 + read_pos' + j] = Byte(Len(got') + j)
  BY <1>4
<1>9. Before' <= net'.sent /\ Content(Pending', Before', net')
  BY <1>3, <1>5
<1>10. ContentInv'
  BY <1>1, <1>4, <1>7, <1>8, <1>9 DEF ContentInv
<1>11. PlainInv'
  BY DEF PlainInv
<1> QED
  BY <1>1, <1>10, <1>11 DEF StreamInv

(* The message that ends the handshake. *)
LEMMA IdleIsFinished ==
    ASSUME pc \in Handshaking, "idle" \in AfterHandshakeRecord
    PROVE  pc = "finished" /\ IsMsg("finished")
<1> DEFINE next(m) == IF m = "finished" THEN "idle" ELSE ServerMessages[m]
           ms == CASE pc = "server_key_exchange" ->
                        {"server_key_exchange", "certificate_request", "server_hello_done"}
                   [] pc = "certificate_request" ->
                        {"certificate_request", "server_hello_done"}
                   [] OTHER -> {pc}
<1>1. PICK m \in ms : IsMsg(m) /\ "idle" = next(m)
  BY DEF AfterHandshakeRecord
<1>2. m \in DOMAIN ServerMessages /\ (m = "finished" => pc = "finished")
  <2>1. DOMAIN ServerMessages = Handshaking
    BY DEF ServerMessages, Handshaking
  <2>2. CASE pc = "server_key_exchange"
    BY <1>1, <2>1, <2>2 DEF Handshaking
  <2>3. CASE pc = "certificate_request"
    BY <1>1, <2>1, <2>3 DEF Handshaking
  <2>4. CASE pc # "server_key_exchange" /\ pc # "certificate_request"
    BY <1>1, <2>1, <2>4
  <2> QED
    BY <2>2, <2>3, <2>4
<1>3. m = "finished"
  <2> SUFFICES ASSUME m # "finished" PROVE FALSE
    OBVIOUS
  <2>1. ServerMessages[m] \in Handshaking
    BY <1>2, Order
  <2>2. ServerMessages[m] = "idle"
    BY <1>1
  <2> QED
    BY <2>1, <2>2 DEF Handshaking
<1> QED
  BY <1>1, <1>2, <1>3

(* What a message at the start of a record says of the rest. *)
LEMMA FirstMessage ==
    ASSUME Inv, Taken, TakenInv, tls.encrypted, ~TooShort, NEW m, IsMsg(m)
    PROVE  /\ m # "undefined"
           /\ m = "finished" => net.stage = "data" /\ Quiet(After)
           /\ m = "close_notify" => After = <<>>
<1> DEFINE S == Pending
<1>1. /\ Target >= 4 /\ Len(Plain) = Target - 4
      /\ \A j \in 1..Len(Plain) : Plain[j] = S[3 + j]
  BY InvParts, PlainIs
<1>2. Len(Plain) > 0 /\ Plain[1] = Msg(m)
  BY DEF IsMsg
<1>3. /\ Target \in Nat /\ Target <= Len(S) /\ Len(S) \in Nat
      /\ Ending(S, net.stage, net.closed) /\ PartOf(After, S, Target)
      /\ After \in Seq(Cell) /\ Framed(After)
  BY DEF TakenInv, Content
<1> HIDE DEF S
<1>4. 1 \in 1..Len(Plain) /\ 4 \in 1..Len(S) /\ 4 < Target /\ 3 + 1 = 4
  BY <1>1, <1>2, <1>3
<1>5. S[4] = Msg(m)
  BY <1>1, <1>2, <1>4
<1>6. \A i \in 1..Len(After) : Target + i \in 1..Len(S) /\ S[Target + i] = After[i] /\ 4 < Target + i
  <2>1. \A i \in 1..Len(After) : Target + i \in 1..Len(S) /\ S[Target + i] = After[i]
    BY <1>3, InPart
  <2>2. \A i \in 1..Len(After) : 4 < Target + i
    BY <1>3, <1>4
  <2> QED
    BY <2>1, <2>2
<1>7. m # "undefined"
  BY <1>3, <1>4, <1>5 DEF Ending
<1>8. m = "finished" => net.stage = "data" /\ Quiet(After)
  BY <1>3, <1>4, <1>5, <1>6 DEF Ending, Quiet
<1>9. m = "close_notify" => After = <<>>
  <2> SUFFICES ASSUME m = "close_notify", After # <<>> PROVE FALSE
    OBVIOUS
  <2>1. 1 \in 1..Len(After)
    BY <1>3, EmptySeq
  <2>2. After[1] \in TypeCell
    BY <1>3 DEF Framed
  <2> QED
    BY <1>3, <1>4, <1>5, <1>6, <2>1, <2>2 DEF Ending
<1> QED
  BY <1>7, <1>8, <1>9

(* The records of the handshake. *)
LEMMA HandshakeImplements ==
    ASSUME Inv, Inv', StreamInv, XHandshakeRecord
    PROVE  StreamInv' /\ (Stream!End \/ UNCHANGED Stream!vars)
<1>1. pc \in Handshaking /\ HaveRecord /\ ~TooShort /\ UNCHANGED net
  BY DEF XHandshakeRecord
<1>2. Reading /\ pc # "read" /\ pc # "none" /\ pc # "idle"
  BY <1>1 DEF Reading, Handshaking
<1>3. Taken /\ TakenInv
  BY <1>1, <1>2, RecordTaken, RecordPending
<1>4. status = "open" /\ net.stage # "plain"
  BY <1>2 DEF Inv, ActiveInv
<1>5. CASE Die
  BY <1>1, <1>5, DieImplements
<1>6. ASSUME NEW p \in AfterHandshakeRecord, RecType # "data",
             pc' = p,
             tls' = IF p = "idle" THEN Decrypted
                    ELSE [Rewind(Decrypted) EXCEPT !.encrypted = (p = "finished")],
             g_tls_fd' = IF p = "idle" THEN fd ELSE g_tls_fd,
             read_pos' = IF p = "idle" THEN 0 ELSE read_pos,
             read_avail' = IF p = "idle" THEN 0 ELSE read_avail,
             UNCHANGED <<fd, count, in_read, in_write, status, got>>
      PROVE  StreamInv' /\ UNCHANGED Stream!vars
  <2>0. Len(got) \in Nat /\ Len(got) <= net.sent /\ Content(After, Len(got), net) /\ Listening
    BY <1>3, <1>6, InvParts, TakesNoBytes DEF TakenInv
  <2>1. CASE p = "idle"
    <3>1. pc = "finished" /\ IsMsg("finished")
      BY <1>1, <2>1, IdleIsFinished
    <3>2. tls.encrypted
      BY <2>0, <3>1 DEF StreamInv, ContentInv
    <3>3. net.stage = "data" /\ Quiet(After)
      BY <1>1, <1>3, <3>1, <3>2, FirstMessage
    <3>4. read_pos' = 0 /\ read_avail' = 0 /\ tls' = Decrypted /\ got' = got
      BY <1>6, <2>1
    <3>5. Len(got') + (read_avail' - read_pos') = Len(got)
      BY <2>0, <3>4
    <3>6. read_pos' \in Nat /\ read_avail' \in Nat /\ read_pos' <= read_avail'
          /\ 1..(read_avail' - read_pos') = {}
      BY <3>4
    <3>7. StreamInv'
      BY <1>1, <1>3, <1>4, <1>6, <2>0, <2>1, <3>2, <3>3, <3>4, <3>5, <3>6, ReturnsImplements
    <3> QED
      BY <1>1, <1>6, <3>7 DEF Stream!vars
  <2>2. CASE p # "idle"
    <3>1. p \in Handshaking
      BY <1>1, <2>2, HandshakeGoesOn
    <3>2. /\ tls' = [Rewind(Decrypted) EXCEPT !.encrypted = (p = "finished")]
          /\ UNCHANGED <<fd, count, g_tls_fd, in_read, in_write, read_pos, read_avail,
                         net, status, got>>
      BY <1>1, <1>6, <2>2
    <3>3. pc' \in Handshaking \cup {"read"} /\ (pc' = "read" <=> pc = "read") /\ pc' # "read"
      BY <1>2, <1>6, <3>1 DEF Handshaking
    <3> DEFINE e == (p = "finished")
    <3>4. e \in BOOLEAN
      BY Zenon
    <3>5. tls' = [Rewind(Decrypted) EXCEPT !.encrypted = e] /\ (pc' \in {"finished", "read"} => e)
      BY <1>6, <3>2, <3>3
    <3> HIDE DEF e
    <3> QED
      BY <1>2, <1>3, <1>6, <3>2, <3>3, <3>4, <3>5, AgainImplements
  <2> QED
    BY <2>1, <2>2
<1>7. ASSUME RecType = IF pc = "change_cipher_spec" THEN "ccs" ELSE "handshake"
      PROVE  RecType # "data"
  BY <1>7
<1> QED
  BY <1>5, <1>6, <1>7 DEF XHandshakeRecord

(* The bytes a + 1 to a + n, one after the other. *)
Bytes(a, n) == [i \in 1..n |-> Byte(a + i)]

(* A part of tls->inbuf, or of the wire. *)
LEMMA BytesIs ==
    ASSUME NEW s \in Seq(Cell), NEW m \in Nat, NEW n \in Nat, m + n <= Len(s), NEW a \in Nat,
           \A j \in 1..n : s[m + j] = Byte(a + j)
    PROVE  SubSeq(s, m + 1, m + n) = Bytes(a, n)
<1> DEFINE t == SubSeq(s, m + 1, m + n)
           u == [i \in 1..n |-> Byte(a + i)]
<1>1. m + 1 \in Nat \ {0} /\ m + n \in Int /\ m + n - (m + 1) + 1 = n
  OBVIOUS
<1>2. /\ t \in Seq(Cell) /\ Len(t) = IF m + 1 <= m + n THEN m + n - (m + 1) + 1 ELSE 0
      /\ \A i \in 1..(m + n - (m + 1) + 1) : t[i] = s[m + 1 + i - 1]
  BY <1>1, Part
<1> HIDE DEF t
<1>3. Len(t) = n
  BY <1>1, <1>2
<1>4. \A i \in 1..n : m + 1 + i - 1 = m + i
  OBVIOUS
<1>5. \A i \in 1..n : t[i] = u[i]
  BY <1>1, <1>2, <1>4
<1>6. u \in Seq(Cell) /\ Len(u) = n
  <2>1. u \in Seq(BodyCell) /\ BodyCell \subseteq Cell
    BY Payloads, CellKinds
  <2> QED
    BY <2>1, SeqMonotonic
<1>7. t = u
  BY <1>2, <1>3, <1>5, <1>6, SeqEqual
<1> QED
  BY <1>7 DEF t, Bytes

(* read(2) returns the next bytes. *)
LEMMA BytesRead ==
    ASSUME got \in Seq(Cell), net.sent \in Nat, NEW n \in Nat \ {0}, Len(got) + n <= net.sent,
           got' = got \o Bytes(Len(got), n),
           status = "open", status' = "open", net'.sent = net.sent
    PROVE  Stream!Read /\ Len(got') = Len(got) + n
<1> DEFINE a == Len(got)
           k == a + n
           u == [i \in 1..n |-> Byte(a + i)]
<1>1. a \in Nat /\ k \in (a + 1)..net.sent /\ k - a = n
  OBVIOUS
<1>2. u = [i \in 1..(k - a) |-> Stream!Byte(a + i)]
  BY <1>1 DEF Byte, Stream!Byte
<1>3. u \in Seq(Cell) /\ Len(u) = n
  <2>1. Len(u) = n
    OBVIOUS
  <2>2. a \in Nat /\ n \in Nat
    BY <1>1
  <2> HIDE DEF a
  <2>3. u \in Seq(BodyCell) /\ BodyCell \subseteq Cell
    BY <2>2, Payloads, CellKinds
  <2> HIDE DEF u
  <2> QED
    BY <2>1, <2>3, SeqMonotonic
<1>4. got' = got \o u
  BY DEF Bytes
<1>5. Stream!Read
  BY <1>1, <1>2, <1>4 DEF Stream!Read
<1>6. Len(got') = a + n
  <2> HIDE DEF u
  <2> QED
    BY <1>3, <1>4, ConcatProperties
<1> QED
  BY <1>5, <1>6

(* A record of application data. *)
LEMMA DataRecordImplements ==
    ASSUME Inv, Inv', StreamInv, XDataRecord
    PROVE  StreamInv' /\ Stream!Read
<1> DEFINE l == Len(Plain)
           n == MinOf(count, l)
           a == Len(got)
           s == Decrypted.inbuf
<1>1. /\ pc = "read" /\ HaveRecord /\ HaveHeader /\ ~TooLong /\ ~TooShort /\ RecType # "alert"
      /\ UNCHANGED net
  BY DEF XDataRecord, HaveRecord
<1>2. Reading /\ status = "open" /\ net.stage # "plain" /\ count # 0
  BY <1>1 DEF Reading, Inv, ActiveInv, StreamInv
<1>3. Taken /\ TakenInv
  BY <1>1, <1>2, RecordTaken, RecordPending
<1>4. Established
  BY <1>1, <1>3 DEF StreamInv, ContentInv, TakenInv
<1>5. RecType = "data"
  <2>1. 1 \in 1..Len(Pending) /\ Pending[1] = <<"type", RecType>> /\ RecType \in Types
    BY <1>3 DEF TakenInv
  <2>2. <<"type", RecType>> \notin HandCell
    BY <1>4, <2>1 DEF Established
  <2> QED
    BY <1>1, <2>1, <2>2 DEF HandCell, Types
<1>0. ReturnData /\ tls' = Decrypted /\ pc' = "idle"
  BY <1>5 DEF XDataRecord, ReturnData
<1>6. tls.encrypted /\ net.stage = "data" /\ Quiet(Pending)
  BY <1>4 DEF Established, Quiet
<1>7. /\ l \in Nat \ {0} /\ a + l <= net.sent /\ \A j \in 1..l : Plain[j] = Byte(a + j)
      /\ Content(After, a + l, net)
  BY <1>1, <1>3, <1>5, <1>6, TakesBytes
<1>8. Plain # <<>> /\ a \in Nat /\ got \in Seq(Cell) /\ net.sent \in Nat /\ count \in Nat
  <2>1. Plain # <<>>
    BY <1>7
  <2> QED
    BY <2>1, InvParts DEF NetType
<1>9. /\ got' = got \o CopyOut(Decrypted, 0, n)
      /\ read_avail' = l /\ read_pos' = n /\ status' = "open"
  BY <1>0, <1>2, <1>8 DEF ReturnData
<1>10. n \in Nat \ {0} /\ n <= l
  BY <1>2, <1>7, <1>8 DEF MinOf
<1>11. /\ s \in Seq(Cell) /\ 2 + l <= Len(s) /\ \A j \in 1..l : s[2 + j] = Plain[j]
  <2>1. /\ Decrypted \in TlsType /\ Len(s) = Total /\ Target \in Nat /\ 2 + l <= Target
        /\ Target <= Total /\ \A j \in 1..l : s[2 + j] = Plain[j]
    BY <1>3 DEF Taken
  <2>2. s \in Seq(Cell) /\ Len(s) \in Nat
    BY <2>1 DEF TlsType
  <2> HIDE DEF s, l
  <2> QED
    BY <1>7, <2>1, <2>2
<1>12. \A j \in 1..l : s[2 + j] = Byte(a + j)
  BY <1>7, <1>11
<1> HIDE DEF l, n, a, s
<1>13. CopyOut(Decrypted, 0, n) = Bytes(a, n)
  <2>1. RECHDR_LEN + 0 + 1 = 2 + 1 /\ RECHDR_LEN + 0 + n = 2 + n
    BY <1>10 DEF RECHDR_LEN
  <2>2. CopyOut(Decrypted, 0, n) = SubSeq(s, 2 + 1, 2 + n)
    BY <2>1 DEF CopyOut, s
  <2>3. 2 + n <= Len(s) /\ \A j \in 1..n : s[2 + j] = Byte(a + j)
    <3>1. \A j \in 1..n : j \in 1..l
      BY <1>7, <1>10
    <3>2. 2 + n <= Len(s)
      BY <1>7, <1>10, <1>11
    <3> QED
      BY <1>12, <3>1, <3>2
  <2> DEFINE m == 2
  <2>4. m \in Nat /\ n \in Nat /\ m + n <= Len(s) /\ (\A j \in 1..n : s[m + j] = Byte(a + j))
        /\ CopyOut(Decrypted, 0, n) = SubSeq(s, m + 1, m + n)
    BY <1>10, <2>2, <2>3
  <2> HIDE DEF m
  <2>5. SubSeq(s, m + 1, m + n) = Bytes(a, n)
    <3>1. /\ s \in Seq(Cell) /\ m \in Nat /\ n \in Nat /\ m + n <= Len(s) /\ a \in Nat
          /\ \A j \in 1..n : s[m + j] = Byte(a + j)
      BY <1>8, <1>11, <2>4
    <3> QED
      BY <3>1, BytesIs, ZenonT(30)
  <2> QED
    BY <2>4, <2>5
<1>14. a + n <= net.sent
  BY <1>7, <1>8, <1>10
<1>15. Stream!Read /\ Len(got') = a + n
  BY <1>0, <1>1, <1>2, <1>8, <1>9, <1>10, <1>13, <1>14, BytesRead DEF a
<1>16. Len(got') + (read_avail' - read_pos') = a + l
  <2>1. (a + n) + (l - n) = a + l
    BY <1>7, <1>8, <1>10
  <2> QED
    BY <1>9, <1>15, <2>1
<1>17. \A j \in 1..(read_avail' - read_pos') : s[2 + read_pos' + j] = Byte(Len(got') + j)
  <2> SUFFICES ASSUME NEW j \in 1..(l - n) PROVE s[2 + n + j] = Byte(a + n + j)
    BY <1>9, <1>15
  <2>1. n + j \in 1..l /\ 2 + (n + j) = 2 + n + j /\ a + (n + j) = a + n + j
    BY <1>7, <1>8, <1>10
  <2>2. s[2 + (n + j)] = Byte(a + (n + j))
    BY <1>12, <2>1
  <2> QED
    BY <2>1, <2>2
<1>18. Quiet(After)
  <2>1. PartOf(After, Pending, Target)
    BY <1>3 DEF TakenInv
  <2>2. \A i \in 1..Len(After) : Target + i \in 1..Len(Pending) /\ Pending[Target + i] = After[i]
    BY <2>1, InPart
  <2> QED
    BY <1>6, <2>2 DEF Quiet
<1>19. read_pos' \in Nat /\ read_avail' \in Nat /\ read_pos' <= read_avail'
  BY <1>7, <1>9, <1>10
<1>20. StreamInv'
  BY <1>0, <1>1, <1>2, <1>3, <1>6, <1>7, <1>9, <1>16, <1>17, <1>18, <1>19, ReturnsImplements DEF s
<1> QED
  BY <1>15, <1>20

(* Alerts. *)
LEMMA AlertImplements ==
    ASSUME Inv, Inv', StreamInv, XAlertRecord
    PROVE  StreamInv' /\ (Stream!Eof \/ Stream!End \/ UNCHANGED Stream!vars)
<1>1. Reading /\ HaveRecord /\ ~TooShort /\ UNCHANGED net /\ RecType # "data"
  BY DEF XAlertRecord
<1>2. Taken /\ TakenInv
  BY <1>1, RecordTaken, RecordPending
<1>3. CASE Die
  BY <1>1, <1>3, DieImplements
<1>4. CASE /\ tls' = Rewind(Decrypted)
           /\ UNCHANGED <<pc, fd, count, g_tls_fd, in_read, in_write, read_pos,
                          read_avail, status, got>>
  <2> DEFINE e == tls.encrypted
             r == Rewind(Decrypted)
  <2>1. e \in BOOLEAN /\ r \in TlsType /\ r.encrypted = e
    <3>1. Decrypted \in TlsType /\ Decrypted.encrypted = e /\ Rewound(Decrypted) \in Seq(Cell)
      BY <1>2 DEF Taken
    <3>2. r = [Decrypted EXCEPT !.inbuf = Rewound(Decrypted)]
      BY DEF Rewind, Rewound
    <3>3. \A x \in TlsType, y \in Seq(Cell) :
             LET z == [x EXCEPT !.inbuf = y]
             IN  z \in TlsType /\ z.encrypted = x.encrypted /\ x.encrypted \in BOOLEAN
      BY DEF TlsType
    <3> HIDE DEF r, e
    <3> QED
      BY <3>1, <3>2, <3>3
  <2>2. tls' = r
    BY <1>4
  <2>3. pc \in {"finished", "read"} => e
    BY <1>2 DEF StreamInv, ContentInv, TakenInv, Established
  <2> HIDE DEF e
  <2>4. tls' = [r EXCEPT !.encrypted = e]
    <3> HIDE DEF r
    <3> QED
      BY <2>1, <2>2 DEF TlsType
  <2>5. pc' \in Handshaking \cup {"read"} /\ (pc' = "read" <=> pc = "read")
    BY <1>1, <1>4 DEF Reading
  <2> QED
    BY <1>1, <1>2, <1>4, <2>1, <2>3, <2>4, <2>5, AgainImplements
<1>5. CASE pc = "read" /\ (Alert("close_notify") \/ Alert("undefined")) /\ ReturnEof
  <2>1. pc' = "idle" /\ status' = "eof" /\ UNCHANGED got
    BY <1>5 DEF ReturnEof
  <2>2. status = "open" /\ tls.encrypted
    BY <1>1, <1>2, <1>5 DEF Inv, ActiveInv, StreamInv, ContentInv, TakenInv, Established
  <2>3. After = <<>>
    BY <1>1, <1>2, <1>5, <2>2, FirstMessage DEF Alert
  <2> DEFINE a == Len(got)
             z == net.sent
  <2>4. /\ a \in Nat /\ z \in Nat /\ a <= z /\ Numbered(After, a, z) /\ After \in Seq(Cell)
    BY <1>1, <1>2, TakesNoBytes DEF TakenInv, Content
  <2> HIDE DEF a, z
  <2>5. a = z
    BY <2>3, <2>4, NothingLeft
  <2>6. Len(got) = net.sent /\ net'.sent = net.sent
    BY <1>1, <2>5 DEF a, z
  <2> QED
    BY <2>1, <2>2, <2>6, EofImplements
<1> QED
  BY <1>3, <1>4, <1>5 DEF XAlertRecord

(* A record that cannot be read. *)
LEMMA BadRecordImplements ==
    ASSUME StreamInv, XBadRecord
    PROVE  StreamInv' /\ Stream!End
BY DieImplements DEF XBadRecord

(* A read that fails. *)
LEMMA ReadErrorImplements ==
    ASSUME StreamInv, XReadError
    PROVE  StreamInv' /\ Stream!End
BY DieImplements DEF XReadError

(* A new connection. *)
LEMMA ConnectImplements ==
    ASSUME Inv, StreamInv, Connect
    PROVE  StreamInv' /\ Stream!Open
<1>1. pc = "none" /\ status' = "open" /\ got' = <<>> /\ status # "open"
  BY DEF Connect, StreamInv
<1>2. NewNet.wire = <<>> /\ NewNet.sent = 0 /\ NewNet.stage = "server_hello"
  BY DEF NewNet
<1>3. CASE pc' = "server_hello" /\ net' = NewNet /\ tls' = NewTls
  <2>1. net'.wire = <<>> /\ net'.sent = 0 /\ tls'.inbuf = <<>> /\ net'.stage = "server_hello"
    BY <1>2, <1>3, Fresh
  <2>2. Reading' /\ pc' # "idle" /\ pc' # "read" /\ pc' # "none" /\ pc' # "finished"
    BY <1>3 DEF Reading, Handshaking
  <2>3. Pending' = <<>> /\ Unread' = 0
    BY <2>1, <2>2 DEF Pending, Kept, Unread
  <2>4. Before' = 0
    BY <1>1, <2>3 DEF Before
  <2>5. Content(<<>>, 0, net')
    <3>1. Numbered(<<>>, 0, 0)
      BY DEF Numbered
    <3>2. Bodies(<<>>) /\ \A s, d : Ending(<<>>, s, d)
      BY DEF Bodies, Ending
    <3> QED
      BY <2>1, <3>1, <3>2 DEF Content
  <2>6. ContentInv' /\ PlainInv'
    BY <2>1, <2>2, <2>3, <2>4, <2>5 DEF ContentInv, PlainInv
  <2>7. Stream!Open
    BY <1>1, <2>1 DEF Stream!Open
  <2> QED
    BY <2>2, <2>6, <2>7 DEF StreamInv
<1>4. CASE pc' = "idle" /\ net' = [NewNet EXCEPT !.stage = "plain"]
  <2>1. net'.wire = <<>> /\ net'.sent = 0 /\ net'.stage = "plain"
    BY <1>4 DEF NewNet
  <2>2. ContentInv' /\ PlainInv'
    BY <1>1, <2>1 DEF ContentInv, PlainInv, Listening
  <2>3. Stream!Open
    BY <1>1, <2>1 DEF Stream!Open
  <2> QED
    BY <1>4, <2>2, <2>3 DEF StreamInv
<1> QED
  BY <1>3, <1>4 DEF Connect

(* read(2), wrapped: the rest of a record, or the start of the next one. *)
LEMMA AppReadImplements ==
    ASSUME Inv, Inv', StreamInv, AppRead
    PROVE  StreamInv' /\ (Stream!Read \/ UNCHANGED Stream!vars)
<1>1. /\ pc = "idle" /\ status = "open" /\ g_tls_fd = fd
      /\ UNCHANGED <<fd, g_tls_fd, in_write, read_avail, net, status>>
  BY DEF AppRead, IsActive
<1>2. net.stage # "plain" /\ Listening /\ ~Reading
  BY <1>1 DEF Inv, ActiveInv, Listening, Reading, Handshaking
<1>3. /\ Unread \in Nat /\ Unread = read_avail - read_pos /\ Before = Len(got) + Unread
      /\ Before <= net.sent /\ Content(Pending, Before, net)
      /\ \A j \in 1..Unread : tls.inbuf[2 + read_pos + j] = Byte(Len(got) + j)
      /\ tls.encrypted /\ net.stage = "data" /\ Quiet(Pending)
  BY <1>1, <1>2 DEF StreamInv, ContentInv, Unread, Before, Established, Quiet
<1>4. PICK c \in Counts :
          IF read_pos < read_avail
          THEN LET n == MinOf(c, read_avail - read_pos)
               IN  /\ got' = got \o CopyOut(tls, read_pos, n)
                   /\ read_pos' = read_pos + n
                   /\ UNCHANGED <<pc, count, in_read, tls>>
          ELSE /\ in_read' = TRUE
               /\ pc' = "read" /\ count' = c
               /\ tls' = Rewind(tls)
               /\ UNCHANGED <<got, read_pos>>
  BY DEF AppRead
<1>5. c \in Nat \ {0}
  BY SizesAssumption
<1>6. /\ read_pos \in Nat /\ read_avail \in Nat /\ got \in Seq(Cell) /\ Len(got) \in Nat
      /\ net.sent \in Nat /\ tls \in TlsType /\ tls.inbuf \in Seq(Cell) /\ Len(tls.inbuf) \in Nat
      /\ read_pos < read_avail => 2 + read_avail <= Len(tls.inbuf)
  <2>1. net \in NetType
    BY InvParts
  <2> QED
    BY <1>1, <1>2, <2>1, InvParts DEF NetType, Inv, SpaceInv, RECHDR_LEN, Total
<1>7. CASE read_pos < read_avail
  <2> DEFINE n == MinOf(c, read_avail - read_pos)
             a == Len(got)
             s == tls.inbuf
             m == 2 + read_pos
  <2>1. /\ got' = got \o CopyOut(tls, read_pos, n) /\ read_pos' = read_pos + n
        /\ UNCHANGED <<pc, tls, count>>
    BY <1>4, <1>7
  <2>2. n \in Nat \ {0} /\ n <= read_avail - read_pos
    BY <1>5, <1>6, <1>7 DEF MinOf
  <2> HIDE DEF n
  <2>3. n <= Unread /\ m \in Nat /\ m + n <= Len(s) /\ a + n <= net.sent
    <3>1. /\ Unread = read_avail - read_pos /\ a + Unread <= net.sent
          /\ read_pos \in Nat /\ read_avail \in Nat /\ a \in Nat /\ net.sent \in Nat
          /\ Len(s) \in Nat /\ 2 + read_avail <= Len(s)
      BY <1>3, <1>6, <1>7
    <3> HIDE DEF a, s
    <3> QED
      BY <2>2, <3>1
  <2>4. CopyOut(tls, read_pos, n) = SubSeq(s, m + 1, m + n)
    BY DEF CopyOut, RECHDR_LEN
  <2>5. \A j \in 1..n : s[m + j] = Byte(a + j)
    <3>1. \A j \in 1..n : j \in 1..Unread
      BY <1>3, <2>2, <2>3
    <3> QED
      BY <1>3, <3>1
  <2> HIDE DEF m, a, s
  <2>6. SubSeq(s, m + 1, m + n) = Bytes(a, n)
    <3>1. /\ s \in Seq(Cell) /\ m \in Nat /\ n \in Nat /\ m + n <= Len(s) /\ a \in Nat
          /\ \A j \in 1..n : s[m + j] = Byte(a + j)
      BY <1>6, <2>2, <2>3, <2>5 DEF s, a
    <3> QED
      BY <3>1, BytesIs, ZenonT(30)
  <2>7. Stream!Read /\ Len(got') = Len(got) + n
    <3>1. got' = got \o Bytes(Len(got), n)
      BY <2>1, <2>4, <2>6 DEF a
    <3> QED
      BY <1>1, <1>6, <2>2, <2>3, <3>1, BytesRead DEF a
  <2>8. /\ Listening' /\ Pending' = Pending /\ Unread' = Unread - n /\ Unread' \in Nat
        /\ Before' = Before
    <3>1. Listening' /\ Pending' = Pending
      BY <1>1, <1>2, <2>1 DEF Listening, Pending, Kept, Rewound, Reading
    <3>2. Unread' = read_avail - (read_pos + n)
      BY <1>1, <2>1 DEF Unread
    <3>3. read_avail - (read_pos + n) = Unread - n /\ Unread - n \in Nat
      BY <1>3, <1>6, <2>2, <2>3
    <3>4. (Len(got) + n) + (Unread - n) = Len(got) + Unread
      BY <1>3, <1>6, <2>2
    <3>5. Before' = Len(got) + Unread
      BY <2>7, <3>2, <3>3, <3>4 DEF Before
    <3> QED
      BY <1>3, <3>1, <3>2, <3>3, <3>5
  <2>9. \A j \in 1..Unread' : tls'.inbuf[2 + read_pos' + j] = Byte(Len(got') + j)
    <3> SUFFICES ASSUME NEW j \in 1..(Unread - n)
                 PROVE  tls.inbuf[2 + (read_pos + n) + j] = Byte((Len(got) + n) + j)
      BY <2>1, <2>7, <2>8
    <3>1. n + j \in 1..Unread /\ 2 + read_pos + (n + j) = 2 + (read_pos + n) + j
          /\ Len(got) + (n + j) = (Len(got) + n) + j
      <4> DEFINE u == Unread
                 g == Len(got)
      <4>1. u \in Nat /\ n \in Nat /\ g \in Nat /\ read_pos \in Nat /\ j \in 1..(u - n)
        BY <1>3, <1>6, <2>2
      <4> HIDE DEF u, g
      <4>2. n + j \in 1..u /\ 2 + read_pos + (n + j) = 2 + (read_pos + n) + j
            /\ g + (n + j) = (g + n) + j
        BY <4>1
      <4> QED
        BY <4>2 DEF u, g
    <3>2. tls.inbuf[2 + read_pos + (n + j)] = Byte(Len(got) + (n + j))
      BY <1>3, <3>1
    <3> QED
      BY <3>1, <3>2
  <2>10. Established' /\ pc' # "finished"
    BY <1>1, <1>3, <2>1, <2>8 DEF Established, Quiet
  <2>11. ContentInv'
    BY <1>1, <1>3, <2>8, <2>9, <2>10 DEF ContentInv
  <2>12. PlainInv' /\ pc' = "idle"
    BY <1>1, <1>2, <2>1 DEF PlainInv
  <2> QED
    BY <2>7, <2>11, <2>12 DEF StreamInv
<1>8. CASE ~(read_pos < read_avail)
  <2> DEFINE b == Rewound(tls)
  <2>1. /\ pc' = "read" /\ count' = c /\ tls' = SetInbuf(tls, b) /\ UNCHANGED got
    BY <1>4, <1>8 DEF Rewind, Rewound, SetInbuf
  <2>2. Kept = b
    BY <1>2 DEF Kept
  <2> HIDE DEF b
  <2>3. tls'.inbuf = b /\ tls'.encrypted = tls.encrypted
    BY <1>6, <2>1 DEF TlsType, SetInbuf
  <2>4. Reading'
    BY <2>1 DEF Reading
  <2>5. Pending' = Pending
    BY <1>1, <2>2, <2>3, <2>4 DEF Pending, Kept
  <2>6. Before = Len(got)
    BY <1>3, <1>6, <1>8
  <2>7. Content(Pending, Len(got), net') /\ Len(got) <= net.sent
    BY <1>1, <1>3, <2>6
  <2>8. count' # 0
    BY <1>5, <2>1
  <2>9. tls'.encrypted /\ net'.stage = "data" /\ net'.sent = net.sent
    BY <1>1, <1>3, <2>3
  <2> QED
    BY <1>1, <1>3, <2>1, <2>4, <2>5, <2>7, <2>8, <2>9, GoesOnImplements
<1> QED
  BY <1>7, <1>8

(* read(2) on a plain connection. *)
LEMMA AppReadRawImplements ==
    ASSUME Inv, StreamInv, AppReadRaw
    PROVE  StreamInv' /\ (Stream!Read \/ Stream!Eof)
<1>1. /\ pc = "idle" /\ status = "open" /\ (in_read \/ g_tls_fd # fd) /\ UNCHANGED pc
  BY DEF AppReadRaw, IsActive
<1>2. net.stage = "plain"
  BY <1>1 DEF Inv, ActiveInv, FlagsInv, Died
<1>3. /\ Len(got) + Len(net.wire) = net.sent
      /\ \A j \in 1..Len(net.wire) : net.wire[j] = Byte(Len(got) + j)
  BY <1>1, <1>2 DEF StreamInv, PlainInv
<1>4. got \in Seq(Cell) /\ Len(got) \in Nat /\ net \in NetType /\ net.sent \in Nat
      /\ net.wire \in Seq(Cell) /\ Len(net.wire) \in Nat
  <2>1. net \in NetType /\ got \in Seq(Cell)
    BY InvParts
  <2> QED
    BY <2>1, InvParts DEF NetType
<1>5. CASE net.wire = <<>> /\ status' = "eof" /\ UNCHANGED <<net, got>>
  <2>1. Len(got) = net.sent /\ net'.sent = net.sent
    BY <1>3, <1>4, <1>5
  <2> QED
    BY <1>1, <1>5, <2>1, EofImplements
<1>6. ASSUME NEW n \in {MinOf(c, Len(net.wire)) : c \in Counts} \ {0},
             got' = got \o SubSeq(net.wire, 1, n),
             net' = [net EXCEPT !.wire = SubSeq(@, n + 1, Len(@))],
             UNCHANGED status
      PROVE  StreamInv' /\ Stream!Read
  <2> DEFINE v == net.wire
             l == Len(net.wire)
             y == SubSeq(v, n + 1, Len(v))
             a == Len(got)
             m == 0
  <2>1. PICK c \in Counts : n = MinOf(c, l)
    OBVIOUS
  <2>2. n \in Nat \ {0} /\ n <= l
    <3>1. c \in Nat \ {0}
      BY SizesAssumption
    <3> QED
      BY <1>4, <1>6, <2>1, <3>1 DEF MinOf
  <2>3. net' = SetWire(net, y)
    BY <1>6 DEF SetWire
  <2>4. a + l = net.sent /\ \A j \in 1..l : v[j] = Byte(a + j)
    BY <1>3
  <2>5. v \in Seq(Cell) /\ Len(v) = l /\ l \in Nat /\ a \in Nat
    BY <1>4
  <2>6. PartOf(y, v, n) /\ Len(y) = l - n
    BY <2>2, <2>5, PartsOf
  <2>7. y \in Seq(Cell)
    <3>1. n \in 0..Len(v)
      BY <2>2, <2>5
    <3> QED
      BY <2>5, <3>1, CutInTwo
  <2> HIDE DEF y
  <2>8. net'.stage = "plain" /\ net'.wire = y /\ net'.sent = net.sent
    BY <1>2, <1>4, <2>3, <2>7, NetWire
  <2>9. m \in Nat /\ m = 0 /\ SubSeq(v, 1, n) = SubSeq(v, m + 1, m + n)
    BY <2>2
  <2> HIDE DEF v, l, a, m
  <2>10. SubSeq(v, m + 1, m + n) = Bytes(a, n)
    <3>1. m + n <= Len(v) /\ \A j \in 1..n : j \in 1..l /\ m + j = j
      BY <2>2, <2>5, <2>9
    <3>2. /\ v \in Seq(Cell) /\ m \in Nat /\ n \in Nat /\ m + n <= Len(v) /\ a \in Nat
          /\ \A j \in 1..n : v[m + j] = Byte(a + j)
      BY <2>2, <2>4, <2>5, <2>9, <3>1
    <3> QED
      BY <3>2, BytesIs, ZenonT(30)
  <2>11. Stream!Read /\ Len(got') = a + n
    <3>1. got' = got \o Bytes(Len(got), n)
      BY <1>6, <2>9, <2>10 DEF a, v
    <3>2. Len(got) + n <= net.sent
      BY <1>4, <2>2, <2>4, <2>5 DEF a
    <3> QED
      BY <1>1, <1>4, <1>6, <2>2, <2>8, <3>1, <3>2, BytesRead DEF a
  <2>12. PlainInv'
    <3>1. (a + n) + (l - n) = net.sent
      BY <1>4, <2>2, <2>4, <2>5
    <3>2. \A j \in 1..(l - n) : y[j] = Byte((a + n) + j)
      <4> SUFFICES ASSUME NEW j \in 1..(l - n) PROVE y[j] = Byte((a + n) + j)
        OBVIOUS
      <4>1. j \in 1..Len(y) /\ n + j \in 1..l /\ a + (n + j) = (a + n) + j
        BY <2>2, <2>5, <2>6
      <4>2. v[n + j] = y[j]
        BY <2>6, <4>1, InPart
      <4>3. v[n + j] = Byte(a + (n + j))
        BY <2>4, <4>1
      <4> QED
        BY <4>1, <4>2, <4>3
    <3> QED
      BY <2>6, <2>8, <2>11, <3>1, <3>2 DEF PlainInv
  <2>13. ContentInv' /\ pc' = "idle"
    BY <1>1, <2>8 DEF ContentInv, Listening
  <2> QED
    BY <2>11, <2>12, <2>13 DEF StreamInv
<1> QED
  BY <1>5, <1>6 DEF AppReadRaw

(* write(2) does not touch what is read. *)
LEMMA AppWriteImplements ==
    ASSUME Inv, StreamInv, AppWrite
    PROVE  StreamInv' /\ (Stream!End \/ UNCHANGED Stream!vars)
<1>1. UNCHANGED <<read_pos, read_avail, tls, got, count>>
  BY DEF AppWrite
<1>2. net \in NetType /\ in_write \in BOOLEAN
  BY InvParts DEF Inv, TypeOK
<1>3. /\ net'.stage = net.stage /\ net'.wire = net.wire /\ net'.closed = net.closed
      /\ net'.sent = net.sent
  <2>1. \/ net' = [net EXCEPT !.clear = TRUE, !.writes = @ + 1]
        \/ net' = [net EXCEPT !.writes = @ + 1]
    BY DEF AppWrite
  <2> QED
    BY <1>2, <2>1 DEF NetType
<1>4. UNCHANGED <<pc, status>> \/ (pc' = "none" /\ status' = "failed")
  BY DEF AppWrite
<1>5. CASE pc' = "none" /\ status' = "failed"
  BY <1>1, <1>3, <1>5, EndImplements
<1>6. CASE UNCHANGED <<pc, status>>
  <2>1. /\ Listening' <=> Listening
        /\ Pending' = Pending /\ Unread' = Unread
    BY <1>1, <1>3, <1>6 DEF Listening, Pending, Kept, Rewound, Reading, Unread
  <2>2. Before' = Before /\ (Established' <=> Established)
    BY <1>1, <1>3, <2>1 DEF Before, Established
  <2>3. Content(Pending, Before, net) => Content(Pending', Before', net')
    BY <1>3, <2>1, <2>2 DEF Content
  <2>4. ContentInv'
    BY <1>1, <1>3, <1>6, <2>1, <2>2, <2>3 DEF StreamInv, ContentInv
  <2>5. PlainInv'
    BY <1>1, <1>3, <1>6 DEF StreamInv, PlainInv
  <2> QED
    BY <1>1, <1>3, <1>6, <2>4, <2>5 DEF StreamInv, Stream!vars
<1> QED
  BY <1>4, <1>5, <1>6

(* close(2). *)
LEMMA AppCloseImplements ==
    ASSUME StreamInv, AppClose
    PROVE  StreamInv' /\ Stream!End
<1>1. pc' = "none" /\ status' \in {"failed", "none"} /\ net'.sent = net.sent /\ UNCHANGED got
  BY DEF AppClose
<1> QED
  BY <1>1, EndImplements

-----------------------------------------------------------------------------
(* The refinement *)

(* Before the first connection. *)
LEMMA StreamInit == Init => StreamInv /\ Stream!Init
<1> SUFFICES ASSUME Init PROVE StreamInv /\ Stream!Init
  OBVIOUS
<1>1. pc = "none" /\ status = "none" /\ got = <<>> /\ net = NewNet
  BY DEF Init
<1>2. ~Listening
  BY <1>1 DEF Listening, Reading, Handshaking
<1>3. net.sent = 0
  BY <1>1 DEF NewNet
<1> QED
  BY <1>1, <1>2, <1>3 DEF StreamInv, ContentInv, PlainInv, Stream!Init

(* Nothing happens. *)
LEMMA StreamStutter == StreamInv /\ UNCHANGED vars => StreamInv' /\ UNCHANGED Stream!vars
<1> SUFFICES ASSUME StreamInv, UNCHANGED vars PROVE StreamInv' /\ UNCHANGED Stream!vars
  OBVIOUS
<1>1. UNCHANGED <<pc, fd, count, g_tls_fd, in_read, in_write, read_pos, read_avail,
                  tls, net, status, got>>
  BY DEF vars
<1>2. /\ Listening' <=> Listening
      /\ Pending' = Pending /\ Unread' = Unread
  BY <1>1 DEF Listening, Pending, Kept, Rewound, Reading, Unread
<1>3. Before' = Before /\ (Established' <=> Established)
  BY <1>1, <1>2 DEF Before, Established
<1>4. ContentInv'
  BY <1>1, <1>2, <1>3 DEF StreamInv, ContentInv
<1>5. PlainInv'
  BY <1>1 DEF StreamInv, PlainInv
<1> QED
  BY <1>1, <1>4, <1>5 DEF StreamInv, Stream!vars

(* Every step is one of the stream, or changes nothing of it. *)
LEMMA StreamStep ==
    ASSUME Regular, Inv, Inv', StreamInv, [Next]_vars
    PROVE  StreamInv' /\ [Stream!Next]_(Stream!vars)
<1>1. CASE Connect
  BY <1>1, ConnectImplements DEF Stream!Next
<1>2. CASE XReadRaw
  BY <1>2, ReadRawImplements
<1>3. CASE XReadEof
  BY <1>3, ReadEofImplements DEF Stream!Next
<1>4. CASE XHandshakeRecord
  BY <1>4, HandshakeImplements DEF Stream!Next
<1>5. CASE XDataRecord
  BY <1>5, DataRecordImplements DEF Stream!Next
<1>6. CASE XAlertRecord
  BY <1>6, AlertImplements DEF Stream!Next
<1>7. CASE XBadRecord
  BY <1>7, BadRecordImplements DEF Stream!Next
<1>8. CASE AppRead
  BY <1>8, AppReadImplements DEF Stream!Next
<1>9. CASE AppReadRaw
  BY <1>9, AppReadRawImplements DEF Stream!Next
<1>10. CASE AppWrite
  BY <1>10, AppWriteImplements DEF Stream!Next
<1>11. CASE AppClose
  BY <1>11, AppCloseImplements DEF Stream!Next
<1>12. CASE Server
  <2>1. net \in NetType
    BY InvParts
  <2>2. Sends(net, net') /\ Delivers(net, net')
    BY <1>12, <2>1, HandshakeSends, SendsSends, ClosesSends,
       HandshakeDelivers, SendsDelivers, ClosesDelivers DEF Server
  <2>3. /\ ~net.closed
        /\ UNCHANGED <<pc, fd, count, g_tls_fd, in_read, in_write, read_pos,
                       read_avail, tls, status, got>>
    BY <1>12 DEF Server, ServerHandshake, ServerSends, ServerCloses, Connected
  <2> QED
    BY <2>2, <2>3, ServerImplements DEF Stream!Next
<1>13. CASE UNCHANGED vars
  BY <1>13, StreamStutter
<1>14. CASE XReadError
  BY <1>14, ReadErrorImplements DEF Stream!Next
<1> QED
  BY <1>1, <1>2, <1>3, <1>4, <1>5, <1>6, <1>7, <1>8, <1>9, <1>10, <1>11, <1>12, <1>13, <1>14
  DEF Next, Client, App

(* wasi_tls_glue.c: for its reader a connection over TLS is no different   *)
(* from a plain descriptor.  However the peer cuts its bytes into records, *)
(* read(2) cuts the records and the program chooses its counts, the reads  *)
(* return the bytes of the peer in order, each once, and 0 only after the  *)
(* last of them.  The peer sends no empty record, no HelloRequest and no   *)
(* alert that tls_xread_record does not know, and no script connects again *)
(* after a read has died.                                                  *)
THEOREM TlsImplementsStream ==
    ASSUME "read" \notin AfterDeath, Regular
    PROVE  Spec => PlainDescriptor
<1>1. Inv /\ Inv' /\ StreamInv /\ [Next]_vars => StreamInv' /\ [Stream!Next]_(Stream!vars)
  BY StreamStep
<1>2. Spec => []Inv
  BY TlsInvariant
<1> QED
  BY <1>1, <1>2, StreamInit, PTL DEF Spec, PlainDescriptor, Stream!Spec

(* The same invariant for its own sake: what the client has not taken      *)
(* holds exactly the bytes that the reads did not return, in order.        *)
THEOREM TlsStreamInvariant ==
    ASSUME "read" \notin AfterDeath, Regular
    PROVE  Spec => []StreamInv
<1>1. Inv /\ Inv' /\ StreamInv /\ [Next]_vars => StreamInv'
  BY StreamStep
<1>2. Spec => []Inv
  BY TlsInvariant
<1> QED
  BY <1>1, <1>2, StreamInit, PTL DEF Spec
=============================================================================
