-------------------------- MODULE WshExpand_proofs --------------------------
(***************************************************************************)
(* A case clause in a function compares with its pattern as written, for   *)
(* any words, values and patterns.  run_word and FlattenSeq are recursive   *)
(* functions; each is shown to exist, and what it computes is proved at    *)
(* the least (or greatest) index where it would be wrong.                  *)
(***************************************************************************)
EXTENDS WshExpand, WshSequences

-----------------------------------------------------------------------------
(* FlattenSeq *)

Flatten(seqs) ==
    CHOOSE f : f = [i \in 1..Len(seqs) |-> IF i = 1 THEN seqs[i] ELSE f[i - 1] \o seqs[i]]

(* FlattenSeq is the last of the sequences Flatten joins. *)
LEMMA FlattenSeqIs ==
    \A seqs : FlattenSeq(seqs) = IF Len(seqs) = 0 THEN seqs ELSE Flatten(seqs)[Len(seqs)]
BY DEF FlattenSeq, Flatten

(* Flatten joins one more sequence at a time. *)
LEMMA FlattenRule ==
    ASSUME NEW C, NEW seqs \in Seq(Seq(C))
    PROVE  /\ \A i \in 1..Len(seqs) : Flatten(seqs)[i] \in Seq(C)
           /\ Len(seqs) # 0 => Flatten(seqs)[1] = seqs[1]
           /\ \A i \in 2..Len(seqs) : Flatten(seqs)[i] = Flatten(seqs)[i - 1] \o seqs[i]
<1> DEFINE n == Len(seqs)
           Body(f, i) == IF i = 1 THEN seqs[i] ELSE f[i - 1] \o seqs[i]
           Right(f, k) == /\ f \in [1..n -> Seq(C)]
                          /\ \A i \in 1..n : i <= k => f[i] = Body(f, i)
           Wrong == {k \in Nat : ~ \E f : Right(f, k)}
<1>1. n \in Nat /\ \A i \in 1..n : seqs[i] \in Seq(C)
  OBVIOUS
<1>2. \E f : Right(f, 0)
  <2> DEFINE f == [i \in 1..n |-> <<>>]
  <2>1. f \in [1..n -> Seq(C)] /\ \A i \in 1..n : ~(i <= 0)
    OBVIOUS
  <2>2. Right(f, 0)
    BY <2>1, Zenon
  <2> QED
    BY <2>2, Zenon
<1>3. ASSUME NEW k \in Nat, NEW f, Right(f, k) PROVE \E g : Right(g, k + 1)
  <2> DEFINE g == [i \in 1..n |-> IF i = k + 1 THEN Body(f, i) ELSE f[i]]
  <2>1. ASSUME NEW i \in 1..n PROVE Body(f, i) \in Seq(C)
    <3>1. CASE i = 1
      BY <1>1, <3>1
    <3>2. CASE i # 1
      <4>1. i - 1 \in 1..n
        BY <1>1, <3>2
      <4>2. f[i - 1] \in Seq(C) /\ seqs[i] \in Seq(C)
        BY <1>1, <1>3, <4>1
      <4> QED
        BY <3>2, <4>2
    <3> QED
      BY <3>1, <3>2
  <2>2. g \in [1..n -> Seq(C)]
    <3> HIDE DEF Body
    <3> QED
      BY <1>3, <2>1
  <2>3. ASSUME NEW i \in 1..n, i <= k + 1 PROVE g[i] = Body(g, i)
    <3>1. i # 1 => i - 1 \in 1..n /\ i - 1 # k + 1 /\ i - 1 <= k
      BY <1>1, <2>3
    <3>2. i # 1 => g[i - 1] = f[i - 1]
      BY <3>1
    <3>3. Body(g, i) = Body(f, i)
      <4> HIDE DEF g
      <4> QED
        BY <3>2
    <3>4. CASE i = k + 1
      <4> HIDE DEF Body
      <4> QED
        BY <3>3, <3>4
    <3>5. CASE i # k + 1
      <4>1. i <= k
        BY <1>1, <2>3, <3>5
      <4>2. f[i] = Body(f, i)
        BY <1>3, <4>1
      <4> HIDE DEF Body
      <4> QED
        BY <3>3, <3>5, <4>2
    <3> QED
      BY <3>4, <3>5
  <2> HIDE DEF g, Body
  <2>4. Right(g, k + 1)
    BY <2>2, <2>3, Zenon
  <2> QED
    BY <2>4, Zenon
<1> HIDE DEF Right
<1>4. Wrong = {}
  <2> SUFFICES ASSUME Wrong # {} PROVE FALSE
    OBVIOUS
  <2>1. PICK x \in Wrong : \A y \in Wrong : x <= y
    BY LeastNumber
  <2>2. x \in Nat /\ ~ \E f : Right(f, x)
    OBVIOUS
  <2>3. x # 0
    BY <1>2, <2>2
  <2>4. x - 1 \in Nat /\ ~(x <= x - 1) /\ (x - 1) + 1 = x
    BY <2>2, <2>3
  <2>5. PICK f : Right(f, x - 1)
    BY <2>1, <2>4
  <2> QED
    BY <1>3, <2>2, <2>4, <2>5
<1>5. PICK f : Right(f, n)
  BY <1>1, <1>4
<1> DEFINE F == Flatten(seqs)
<1>6. F = [i \in 1..n |-> Body(F, i)]
  <2>1. f \in [1..n -> Seq(C)] /\ \A i \in 1..n : f[i] = Body(f, i)
    <3> HIDE DEF Body
    <3>1. \A i \in 1..n : i <= n
      BY <1>1
    <3> QED
      BY <1>5, <3>1 DEF Right
  <2>2. f = [i \in 1..n |-> Body(f, i)]
    <3> HIDE DEF Body
    <3> QED
      BY <2>1
  <2>3. \E h : h = [i \in 1..n |-> Body(h, i)]
    BY <2>2, Zenon
  <2> QED
    BY <2>3 DEF Flatten
<1> HIDE DEF F
<1>7. ASSUME NEW i \in 1..n PROVE F[i] = Body(F, i)
  <2> HIDE DEF Body
  <2>1. [j \in 1..n |-> Body(F, j)][i] = Body(F, i)
    BY Zenon
  <2> QED
    BY <1>6, <2>1
<1> DEFINE Untyped == {i \in 1..n : F[i] \notin Seq(C)}
<1>8. Untyped = {}
  <2> SUFFICES ASSUME Untyped # {} PROVE FALSE
    OBVIOUS
  <2>1. Untyped \subseteq Nat
    OBVIOUS
  <2>2. PICK i \in Untyped : \A y \in Untyped : i <= y
    BY <2>1, LeastNumber
  <2>3. i \in 1..n /\ F[i] \notin Seq(C)
    OBVIOUS
  <2>4. CASE i = 1
    BY <1>1, <1>7, <2>3, <2>4
  <2>5. CASE i # 1
    <3>1. i - 1 \in 1..n /\ ~(i <= i - 1)
      BY <1>1, <2>3, <2>5
    <3>2. F[i - 1] \in Seq(C)
      BY <2>2, <3>1
    <3>3. F[i] = F[i - 1] \o seqs[i] /\ seqs[i] \in Seq(C)
      BY <1>1, <1>7, <2>3, <2>5
    <3> QED
      BY <2>3, <3>2, <3>3
  <2> QED
    BY <2>4, <2>5
<1>9. n # 0 => 1 \in 1..n
  BY <1>1
<1>10. \A i \in 2..n : i \in 1..n /\ i # 1
  BY <1>1
<1> QED
  BY <1>7, <1>8, <1>9, <1>10 DEF F

-----------------------------------------------------------------------------
(* Types.  Unset is a text, too; ToString gives what the code prints. *)

Chars == STRING \cup {"unset"} \cup {ToString(n) : n \in Nat}
Texts == Seq(Chars)
PieceSet == [s : Texts, q : Quotes, split : BOOLEAN]
Env == [Names -> Texts]

(* The text of pieces is a text. *)
LEMMA StrType ==
    ASSUME NEW pieces \in Seq(PieceSet)
    PROVE  /\ [i \in DOMAIN pieces |-> pieces[i].s] \in Seq(Texts)
           /\ Str(pieces) \in Texts
<1> DEFINE F == [i \in DOMAIN pieces |-> pieces[i].s]
           n == Len(pieces)
<1>1. n \in Nat /\ DOMAIN pieces = 1..n /\ \A i \in 1..n : pieces[i].s \in Texts
  <2>1. n \in Nat /\ DOMAIN pieces = 1..n /\ \A i \in 1..n : pieces[i] \in PieceSet
    OBVIOUS
  <2>2. \A p \in PieceSet : p.s \in Texts
    BY DEF PieceSet
  <2> QED
    BY <2>1, <2>2
<1>2. F \in [1..n -> Texts]
  BY <1>1
<1>3. F \in Seq(Texts) /\ Len(F) = n
  BY <1>1, <1>2
<1> HIDE DEF F
<1>4. CASE n = 0
  <2>1. F = <<>>
    BY <1>3, <1>4
  <2>2. FlattenSeq(F) = F
    BY <1>3, <1>4, FlattenSeqIs
  <2>3. <<>> \in Texts
    BY DEF Texts
  <2> QED
    BY <1>3, <2>1, <2>2, <2>3 DEF Str, F
<1>5. CASE n # 0
  <2>1. FlattenSeq(F) = Flatten(F)[n] /\ n \in 1..n
    BY <1>1, <1>3, <1>5, FlattenSeqIs
  <2>2. Flatten(F)[n] \in Texts
    BY <1>3, <2>1, FlattenRule DEF Texts
  <2> QED
    BY <1>3, <2>1, <2>2 DEF Str, F
<1> QED
  BY <1>4, <1>5

-----------------------------------------------------------------------------
(* run_word: the parts one after the other *)

Step(e, p) ==
    IF ~e.ok THEN e
    ELSE LET f == run_part(p, e.env) IN [f EXCEPT !.pieces = e.pieces \o @]
Base(env) == Expanded(TRUE, <<>>, env)
Fold(w, env) ==
    CHOOSE f : f = [S \in SUBSET DOMAIN w |->
        IF S = {} THEN Base(env) ELSE Step(f[S \ {Max(S)}], w[Max(S)])]

(* run_word is Fold of all the parts. *)
LEMMA RunWordIs == \A w, env : run_word(w, env) = Fold(w, env)[DOMAIN w]
BY DEF run_word, FoldLeft, MapThenFoldSet, Fold, Step, Base

(* The greatest of numbers up to k with k among them. *)
LEMMA MaxIs ==
    ASSUME NEW k \in Nat, NEW S, S \subseteq 1..k, k \in S
    PROVE  Max(S) = k
<1>1. \A y \in S : y \in Nat /\ y <= k
  OBVIOUS
<1>2. k \in S /\ \A y \in S : k >= y
  BY <1>1
<1>3. \A x \in S : (\A y \in S : x >= y) => x = k
  BY <1>1
<1> QED
  BY <1>2, <1>3 DEF Max

(* Fold starts with Base and takes one part at a time. *)
LEMMA FoldRule ==
    ASSUME NEW P, NEW w \in Seq(P), NEW env
    PROVE  /\ Fold(w, env)[{}] = Base(env)
           /\ \A k \in 1..Len(w) : Fold(w, env)[1..k] = Step(Fold(w, env)[1..(k - 1)], w[k])
<1> DEFINE n == Len(w)
           D == SUBSET (1..n)
           Body(f, S) == IF S = {} THEN Base(env) ELSE Step(f[S \ {Max(S)}], w[Max(S)])
           Right(f, k) == /\ f = [S \in D |-> f[S]]
                          /\ \A S \in D : S \subseteq 1..k => f[S] = Body(f, S)
           Wrong == {k \in Nat : ~ \E f : Right(f, k)}
<1>1. n \in Nat /\ DOMAIN w = 1..n
  OBVIOUS
<1> HIDE DEF n
<1>2. \E f : Right(f, 0)
  <2> DEFINE f == [S \in D |-> Base(env)]
  <2>1. f = [S \in D |-> f[S]]
    OBVIOUS
  <2>2. ASSUME NEW S \in D, S \subseteq 1..0 PROVE S = {} /\ f[S] = Base(env)
    BY <2>2
  <2>3. \A S \in D : S \subseteq 1..0 => f[S] = Body(f, S)
    BY <2>2, Zenon
  <2> HIDE DEF f, Body
  <2> QED
    BY <2>1, <2>3, Zenon
<1>3. ASSUME NEW k \in Nat, NEW f, Right(f, k) PROVE \E g : Right(g, k + 1)
  <2> DEFINE g == [S \in D |-> IF k + 1 \in S THEN Body(f, S) ELSE f[S]]
  <2>1. g = [S \in D |-> g[S]]
    <3> HIDE DEF Body
    <3> QED
      OBVIOUS
  <2>2. ASSUME NEW S \in D, S \subseteq 1..(k + 1), S # {}
        PROVE  S \ {Max(S)} \in D /\ k + 1 \notin S \ {Max(S)}
    <3>1. k + 1 \in Nat
      OBVIOUS
    <3>2. k + 1 \in S => Max(S) = k + 1
      BY <2>2, <3>1, MaxIs
    <3> QED
      BY <3>2
  <2>3. ASSUME NEW S \in D, S \subseteq 1..(k + 1) PROVE g[S] = Body(g, S)
    <3>1. S # {} => g[S \ {Max(S)}] = f[S \ {Max(S)}]
      <4> HIDE DEF Body
      <4> QED
        BY <2>2, <2>3
    <3>2. Body(g, S) = Body(f, S)
      <4> HIDE DEF g
      <4> QED
        BY <3>1
    <3>3. CASE k + 1 \in S
      <4> HIDE DEF Body
      <4> QED
        BY <3>2, <3>3
    <3>4. CASE k + 1 \notin S
      <4>1. S \subseteq 1..k
        BY <2>3, <3>4
      <4>2. f[S] = Body(f, S)
        BY <1>3, <4>1
      <4> HIDE DEF Body
      <4> QED
        BY <3>2, <3>4, <4>2
    <3> QED
      BY <3>3, <3>4
  <2> HIDE DEF g, Body
  <2>4. Right(g, k + 1)
    BY <2>1, <2>3, Zenon
  <2> QED
    BY <2>4, Zenon
<1> HIDE DEF Right
<1>4. Wrong = {}
  <2> SUFFICES ASSUME Wrong # {} PROVE FALSE
    OBVIOUS
  <2>1. PICK x \in Wrong : \A y \in Wrong : x <= y
    BY LeastNumber
  <2>2. x \in Nat /\ ~ \E f : Right(f, x)
    OBVIOUS
  <2>3. x # 0
    BY <1>2, <2>2
  <2>4. x - 1 \in Nat /\ ~(x <= x - 1) /\ (x - 1) + 1 = x
    BY <2>2, <2>3
  <2>5. PICK f : Right(f, x - 1)
    BY <2>1, <2>4
  <2> QED
    BY <1>3, <2>2, <2>4, <2>5
<1>5. PICK f : Right(f, n)
  BY <1>1, <1>4
<1> DEFINE F == Fold(w, env)
<1>6. F = [S \in D |-> Body(F, S)]
  <2>1. f = [S \in D |-> f[S]] /\ \A S \in D : f[S] = Body(f, S)
    <3> HIDE DEF Body
    <3>1. \A S \in D : S \subseteq 1..n
      OBVIOUS
    <3> QED
      BY <1>5, <3>1 DEF Right
  <2>2. f = [S \in D |-> Body(f, S)]
    <3> HIDE DEF Body, D
    <3>1. [S \in D |-> f[S]] = [S \in D |-> Body(f, S)]
      BY <2>1, Zenon
    <3> QED
      BY <2>1, <3>1
  <2>3. \E h : h = [S \in D |-> Body(h, S)]
    BY <2>2, Zenon
  <2> QED
    BY <1>1, <2>3 DEF Fold
<1> HIDE DEF F
<1>7. ASSUME NEW S \in D PROVE F[S] = Body(F, S)
  <2> HIDE DEF Body, D
  <2>1. [T \in D |-> Body(F, T)][S] = Body(F, S)
    BY Zenon
  <2> QED
    BY <1>6, <2>1
<1>8. {} \in D
  OBVIOUS
<1>9. ASSUME NEW k \in 1..n PROVE F[1..k] = Step(F[1..(k - 1)], w[k])
  <2>1. 1..k \in D /\ k \in Nat /\ k \in 1..k /\ 1..k # {} /\ (1..k) \ {k} = 1..(k - 1)
    BY <1>1
  <2>2. Max(1..k) = k
    BY <2>1, MaxIs
  <2> QED
    BY <1>7, <2>1, <2>2
<1> QED
  BY <1>7, <1>8, <1>9 DEF F, n

-----------------------------------------------------------------------------
(* The type of what run_part and run_word give *)

Exp == [ok : BOOLEAN, pieces : Seq(PieceSet), env : Env]

(* A part of a sequence up to its end is a sequence of the same things. *)
LEMMA SubSeqType ==
    ASSUME NEW C, NEW s \in Seq(C), NEW a \in Int, a >= 1, NEW b \in Int, b <= Len(s)
    PROVE  SubSeq(s, a, b) \in Seq(C)
OBVIOUS

(* The fields of a record of pieces. *)
LEMMA PieceFields ==
    /\ \A p \in PieceSet : p.s \in Texts /\ p.q \in Quotes /\ p.split \in BOOLEAN
    /\ \A s \in Texts, q \in Quotes, split \in BOOLEAN : Piece(s, q, split) \in PieceSet
BY DEF PieceSet, Piece

(* Text is text, whatever characters it has. *)
LEMMA StringsAreTexts == Seq(STRING) \subseteq Texts /\ <<>> \in Texts
<1>1. STRING \subseteq Chars
  BY DEF Chars
<1>2. ASSUME NEW s \in Seq(STRING) PROVE s \in Seq(Chars)
  <2>1. s \in [1..Len(s) -> STRING] /\ Len(s) \in Nat
    OBVIOUS
  <2>2. s \in [1..Len(s) -> Chars]
    BY <1>1, <2>1
  <2> QED
    BY <2>1, <2>2
<1> QED
  BY <1>2 DEF Texts

(* Mark and Quote keep pieces pieces. *)
LEMMA MarkQuoteType ==
    ASSUME NEW pieces \in Seq(PieceSet)
    PROVE  Mark(pieces) \in Seq(PieceSet) /\ \A q : Quote(pieces, q) \in Seq(PieceSet)
<1> DEFINE n == Len(pieces)
<1>1. n \in Nat /\ DOMAIN pieces = 1..n /\ pieces \in [1..n -> PieceSet]
  OBVIOUS
<1>2. \A p \in PieceSet : [p EXCEPT !.split = TRUE] \in PieceSet
  BY DEF PieceSet
<1>3. \A p \in PieceSet : [p EXCEPT !.q = "double"] \in PieceSet
  BY DEF PieceSet, Quotes
<1> HIDE DEF n
<1>4. Mark(pieces) \in [1..n -> PieceSet]
  BY <1>1, <1>2 DEF Mark
<1>5. [i \in DOMAIN pieces |-> [pieces[i] EXCEPT !.q = "double"]] \in [1..n -> PieceSet]
  BY <1>1, <1>3
<1>6. \A f \in [1..n -> PieceSet] : f \in Seq(PieceSet)
  BY <1>1
<1> QED
  BY <1>4, <1>5, <1>6 DEF Quote

(* The argument of an operator expands to pieces. *)
LEMMA ArgPiecesType ==
    ASSUME NEW arg \in Seq(ArgParts), NEW env \in Env
    PROVE  ArgPieces(arg, env) \in Seq(PieceSet)
<1>1. CASE arg = <<>>
  <2> DEFINE p == Piece(<<>>, "none", FALSE)
  <2>1. p \in PieceSet
    BY PieceFields, StringsAreTexts DEF Quotes
  <2>2. ArgPieces(arg, env) = <<p>>
    BY <1>1 DEF ArgPieces
  <2> HIDE DEF p
  <2> QED
    BY <2>1, <2>2
<1>2. CASE arg # <<>>
  <2> DEFINE n == Len(arg)
             One(p) == IF p.k = "lit" THEN Piece(p.s, p.q, FALSE)
                       ELSE Piece(ArgValue(p.n, env), p.q, TRUE)
  <2>1. n \in Nat /\ DOMAIN arg = 1..n /\ \A i \in 1..n : arg[i] \in ArgParts
    OBVIOUS
  <2>2. ASSUME NEW p \in ArgParts PROVE One(p) \in PieceSet
    <3>1. CASE p \in Literals
      <4>1. p.k = "lit" /\ p.s \in Seq(STRING) /\ p.q \in Quotes
        BY <3>1 DEF Literals
      <4> QED
        BY <4>1, PieceFields, StringsAreTexts
    <3>2. CASE p \in ParametersOf(Names, {"none"}, {<<>>})
      <4>1. p.k = "par" /\ p.n \in Names /\ p.q \in Quotes
        BY <3>2 DEF ParametersOf
      <4>2. ArgValue(p.n, env) \in Texts
        BY <4>1, StringsAreTexts DEF ArgValue, Env
      <4> QED
        BY <4>1, <4>2, PieceFields
    <3> QED
      BY <3>1, <3>2 DEF ArgParts
  <2> HIDE DEF n
  <2>3. ArgPieces(arg, env) = [i \in 1..n |-> One(arg[i])]
    BY <1>2, <2>1 DEF ArgPieces
  <2> HIDE DEF One
  <2>4. ArgPieces(arg, env) \in [1..n -> PieceSet]
    BY <2>1, <2>2, <2>3
  <2> QED
    BY <2>1, <2>4
<1> QED
  BY <1>1, <1>2

(* The least and the greatest of the places to cut are among them. *)
LEMMA MinMaxIn ==
    ASSUME NEW n \in Nat, NEW T, T \subseteq 0..n, T # {}
    PROVE  Min(T) \in T /\ Max(T) \in T
<1>1. \E x \in T : \A y \in T : x <= y
  <2>1. T \subseteq Nat
    OBVIOUS
  <2> QED
    BY <2>1, LeastNumber
<1>2. \E x \in T : \A y \in T : y <= x
  BY GreatestNumber
<1>3. \A x, y \in T : (x >= y <=> y <= x)
  OBVIOUS
<1>4. \E x \in T : \A y \in T : x >= y
  BY <1>2, <1>3
<1> QED
  BY <1>1, <1>4 DEF Min, Max

(* What is left of a value is a text. *)
LEMMA TrimType ==
    ASSUME NEW op, NEW s \in Texts, NEW pieces \in Seq(PieceSet)
    PROVE  Trim(op, s, pieces) \in Texts
<1>1. s \in Seq(Chars) /\ Len(s) \in Nat
  BY DEF Texts
<1>2. ASSUME NEW i \in Nat PROVE From(s, i) \in Texts
  <2>1. i + 1 \in Int /\ i + 1 >= 1 /\ Len(s) \in Int /\ Len(s) <= Len(s)
    BY <1>1
  <2> QED
    BY <1>1, <2>1, SubSeqType DEF From, Texts
<1>3. ASSUME NEW i \in Int, i <= Len(s) PROVE Before(s, i) \in Texts
  <2>1. 1 \in Int /\ 1 >= 1
    OBVIOUS
  <2> QED
    BY <1>1, <1>3, <2>1, SubSeqType DEF Before, Texts
<1>4. CASE NeedsPattern(pieces)
  <2> DEFINE suffix == IsSuffixOp(op)
             largest == IsLargest(op)
             cuts == Cuts(s, word_to_pattern(pieces), suffix, Positions(s))
             i == IF suffix = largest THEN Min(cuts) ELSE Max(cuts)
  <2>1. cuts \subseteq 0..Len(s)
    BY <1>1 DEF Cuts, Positions
  <2>2. Trim(op, s, pieces) = CutAt(s, cuts, suffix, largest)
    BY <1>4 DEF Trim, trim_pattern
  <2> HIDE DEF suffix, largest, cuts
  <2>3. CASE cuts = {}
    BY <2>2, <2>3 DEF CutAt
  <2>4. CASE cuts # {}
    <3>1. i \in 0..Len(s)
      BY <1>1, <2>1, <2>4, MinMaxIn
    <3>2. i \in Nat /\ i \in Int /\ i <= Len(s)
      <4> HIDE DEF i
      <4> QED
        BY <1>1, <3>1
    <3>3. CutAt(s, cuts, suffix, largest) = IF suffix THEN Before(s, i) ELSE From(s, i)
      BY <2>4 DEF CutAt
    <3> HIDE DEF i
    <3> QED
      BY <1>2, <1>3, <2>2, <3>2, <3>3
  <2> QED
    BY <2>3, <2>4
<1>5. CASE ~NeedsPattern(pieces)
  <2> DEFINE cut == Str(pieces)
             suffix == IsSuffixOp(op)
  <2>1. cut \in Seq(Chars)
    BY StrType DEF Texts
  <2>2. Trim(op, s, pieces) = trim_str(s, cut, suffix)
    BY <1>5 DEF Trim
  <2> HIDE DEF cut, suffix
  <2>3. Len(cut) \in Nat /\ Len(s) - Len(cut) \in Int /\ Len(s) - Len(cut) <= Len(s)
    BY <1>1, <2>1
  <2>4. Before(s, Len(s) - Len(cut)) \in Texts /\ From(s, Len(cut)) \in Texts
    BY <1>2, <1>3, <2>3
  <2> QED
    BY <2>2, <2>4 DEF trim_str
<1> QED
  BY <1>4, <1>5

(* One piece is a sequence of pieces. *)
LEMMA OnePiece ==
    ASSUME NEW s \in Texts, NEW q \in Quotes, NEW split \in BOOLEAN
    PROVE  <<Piece(s, q, split)>> \in Seq(PieceSet)
<1> DEFINE p == Piece(s, q, split)
<1>1. p \in PieceSet
  BY PieceFields
<1> HIDE DEF p
<1> QED
  BY <1>1 DEF p

(* The records run_word works with. *)
LEMMA ExpFields ==
    /\ \A e \in Exp : e.ok \in BOOLEAN /\ e.pieces \in Seq(PieceSet) /\ e.env \in Env
    /\ \A ok \in BOOLEAN, pieces \in Seq(PieceSet), env \in Env : Expanded(ok, pieces, env) \in Exp
    /\ \A e \in Exp, pieces \in Seq(PieceSet) :
          /\ [e EXCEPT !.pieces = pieces] \in Exp
          /\ [e EXCEPT !.pieces = pieces].pieces = pieces
          /\ [e EXCEPT !.pieces = pieces].env = e.env
          /\ [e EXCEPT !.pieces = pieces].ok = e.ok
BY DEF Exp, Expanded

(* What the parameters of a word look like. *)
LEMMA PartFields ==
    ASSUME NEW p \in Parts
    PROVE  /\ p.k \in {"lit", "par"} /\ p.q \in Quotes
           /\ p.k = "lit" => p.s \in Seq(STRING)
           /\ p.k = "par" => p.n \in Names \cup {"@"} /\ p.arg \in Seq(ArgParts)
<1>1. CASE p \in Literals
  BY <1>1 DEF Literals
<1>2. CASE p \in ParametersOf(Names \cup {"@"}, CondOps \cup TrimOps \cup {"length"}, Seq(ArgParts))
  BY <1>2 DEF ParametersOf
<1> QED
  BY <1>1, <1>2 DEF Parts

(* The operators that look whether a parameter is set. *)
LEMMA CondOpType ==
    ASSUME NEW p, p.n \in Names, p.arg \in Seq(ArgParts), NEW env \in Env
    PROVE  apply_parameter_cond_op(p, env) \in Exp
<1> DEFINE value == <<Piece(env[p.n], "none", TRUE)>>
           arg == Mark(ArgPieces(p.arg, env))
           after == IF p.op = "=" THEN [env EXCEPT ![p.n] = Str(arg)] ELSE env
<1>1. value \in Seq(PieceSet) /\ <<>> \in Seq(PieceSet)
  <2>1. env[p.n] \in Texts /\ "none" \in Quotes
    BY DEF Env, Quotes
  <2>2. value \in Seq(PieceSet)
    BY <2>1, OnePiece
  <2>3. <<>> \in Seq(PieceSet)
    OBVIOUS
  <2> QED
    BY <2>2, <2>3
<1>2. NoPieces \in Seq(PieceSet)
  <2>1. <<>> \in Texts /\ "none" \in Quotes
    BY StringsAreTexts DEF Quotes
  <2> QED
    BY <2>1, OnePiece DEF NoPieces
<1>3. arg \in Seq(PieceSet) /\ Str(arg) \in Texts
  BY ArgPiecesType, MarkQuoteType, StrType
<1>4. after \in Env
  <2> HIDE DEF arg
  <2> QED
    BY <1>3 DEF Env
<1>5. /\ Expanded(FALSE, <<>>, env) \in Exp /\ Expanded(TRUE, value, env) \in Exp
      /\ Expanded(TRUE, NoPieces, env) \in Exp /\ Expanded(TRUE, arg, after) \in Exp
  BY <1>1, <1>2, <1>3, <1>4, ExpFields, Zenon
<1>6. \/ apply_parameter_cond_op(p, env) = Expanded(FALSE, <<>>, env)
      \/ apply_parameter_cond_op(p, env) = Expanded(TRUE, value, env)
      \/ apply_parameter_cond_op(p, env) = Expanded(TRUE, NoPieces, env)
      \/ apply_parameter_cond_op(p, env) = Expanded(TRUE, arg, after)
  BY Zenon DEF apply_parameter_cond_op
<1> QED
  BY <1>5, <1>6, Zenon

(* The operators that look at the characters of the value. *)
LEMMA StrOpType ==
    ASSUME NEW p, p.n \in Names, p.arg \in Seq(ArgParts), NEW env \in Env
    PROVE  apply_parameter_str_op(p, env) \in Exp
<1> DEFINE s == env[p.n]
           str == IF s = Unset THEN <<>> ELSE s
           length == <<Piece(<<ToString(Len(str))>>, "none", TRUE)>>
           rest == <<Piece(Trim(p.op, s, ArgPieces(p.arg, env)), "none", TRUE)>>
<1>1. s \in Texts /\ "none" \in Quotes /\ <<>> \in Texts /\ <<>> \in Seq(PieceSet)
  BY StringsAreTexts DEF Env, Quotes
<1>2. NoPieces \in Seq(PieceSet)
  BY <1>1, OnePiece DEF NoPieces
<1>3. rest \in Seq(PieceSet)
  <2>1. Trim(p.op, s, ArgPieces(p.arg, env)) \in Texts
    BY <1>1, ArgPiecesType, TrimType
  <2> QED
    BY <1>1, <2>1, OnePiece
<1>4. length \in Seq(PieceSet)
  <2> DEFINE c == ToString(Len(str))
  <2>1. str \in Texts
    BY <1>1
  <2>2. Len(str) \in Nat
    <3> HIDE DEF str
    <3> QED
      BY <2>1 DEF Texts
  <2>3. c \in Chars
    <3> HIDE DEF str
    <3> QED
      BY <2>2 DEF Chars
  <2> HIDE DEF c
  <2>4. <<c>> \in Texts
    BY <2>3 DEF Texts
  <2> QED
    BY <1>1, <2>4, OnePiece DEF c
<1> HIDE DEF rest, length, s
<1>5. /\ Expanded(FALSE, <<>>, env) \in Exp /\ Expanded(TRUE, length, env) \in Exp
      /\ Expanded(TRUE, NoPieces, env) \in Exp /\ Expanded(TRUE, rest, env) \in Exp
  BY <1>1, <1>2, <1>3, <1>4, ExpFields, Zenon
<1>6. \/ apply_parameter_str_op(p, env) = Expanded(FALSE, <<>>, env)
      \/ apply_parameter_str_op(p, env) = Expanded(TRUE, length, env)
      \/ apply_parameter_str_op(p, env) = Expanded(TRUE, NoPieces, env)
      \/ apply_parameter_str_op(p, env) = Expanded(TRUE, rest, env)
  BY Zenon DEF apply_parameter_str_op, s, length, rest
<1> QED
  BY <1>5, <1>6, Zenon

(* $@ is pieces. *)
LEMMA AtType ==
    ASSUME NEW q, args \in Seq(Texts)
    PROVE  expand_positional_params(q) \in Seq(PieceSet)
<1> DEFINE n == Len(args)
           between == <<Piece(<<IFS[1]>>, "none", TRUE)>>
           one(i) == <<Piece(args[i], IF q = "double" THEN "single" ELSE "none", TRUE)>>
           item(i) == (IF i > 1 THEN between ELSE <<>>) \o one(i)
           G == [i \in DOMAIN args |-> item(i)]
<1>1. n \in Nat /\ DOMAIN args = 1..n /\ \A i \in 1..n : args[i] \in Texts
  OBVIOUS
<1>2. between \in Seq(PieceSet)
  <2> DEFINE c == IFS[1]
  <2>1. c \in Chars
    <3>1. c \in STRING
      BY IFSAssumption, TextsAssumption
    <3> QED
      BY <3>1 DEF Chars
  <2> HIDE DEF c
  <2>2. <<c>> \in Texts
    BY <2>1 DEF Texts
  <2>3. "none" \in Quotes
    BY DEF Quotes
  <2> QED
    BY <2>2, <2>3, OnePiece DEF c
<1>3. ASSUME NEW i \in 1..n PROVE item(i) \in Seq(PieceSet)
  <2>1. (IF q = "double" THEN "single" ELSE "none") \in Quotes
    BY DEF Quotes
  <2>2. one(i) \in Seq(PieceSet)
    BY <1>1, <2>1, OnePiece
  <2> HIDE DEF one, between
  <2> QED
    BY <1>2, <2>2
<1> HIDE DEF item, n
<1>4. G \in [1..n -> Seq(PieceSet)]
  BY <1>1, <1>3
<1>5. G \in Seq(Seq(PieceSet)) /\ Len(G) = n
  BY <1>1, <1>4
<1>6. expand_positional_params(q) = FlattenSeq(G)
  BY DEF expand_positional_params, item
<1> HIDE DEF G
<1>7. CASE n = 0
  <2>1. G = <<>> /\ FlattenSeq(G) = G
    BY <1>5, <1>7, FlattenSeqIs
  <2>2. <<>> \in Seq(PieceSet)
    OBVIOUS
  <2> QED
    BY <1>6, <2>1, <2>2, Zenon
<1>8. CASE n # 0
  <2>1. FlattenSeq(G) = Flatten(G)[n] /\ n \in 1..n
    BY <1>1, <1>5, <1>8, FlattenSeqIs
  <2>2. Flatten(G)[n] \in Seq(PieceSet)
    BY <1>5, <2>1, FlattenRule
  <2> QED
    BY <1>6, <2>1, <2>2, Zenon
<1> QED
  BY <1>7, <1>8

(* A part expands to pieces and leaves variables. *)
LEMMA RunPartType ==
    ASSUME NEW p \in Parts, NEW env \in Env, args \in Seq(Texts)
    PROVE  run_part(p, env) \in Exp
<1>1. CASE p.k = "lit"
  <2>1. p.s \in Texts /\ p.q \in Quotes
    BY <1>1, PartFields, StringsAreTexts
  <2>2. <<Piece(p.s, p.q, FALSE)>> \in Seq(PieceSet)
    BY <2>1, OnePiece
  <2>3. run_part(p, env) = Expanded(TRUE, <<Piece(p.s, p.q, FALSE)>>, env)
    BY <1>1 DEF run_part
  <2> QED
    BY <2>2, <2>3, ExpFields, Zenon
<1>2. CASE p.k # "lit" /\ p.n = "@"
  <2>1. run_part(p, env) = Expanded(TRUE, expand_positional_params(p.q), env)
    BY <1>2 DEF run_part
  <2>2. expand_positional_params(p.q) \in Seq(PieceSet)
    BY AtType
  <2> QED
    BY <2>1, <2>2, ExpFields, Zenon
<1>3. CASE p.k # "lit" /\ p.n # "@"
  <2> DEFINE e == IF p.op \in CondOps THEN apply_parameter_cond_op(p, env)
                  ELSE apply_parameter_str_op(p, env)
  <2>1. p.n \in Names /\ p.arg \in Seq(ArgParts)
    BY <1>3, PartFields
  <2>2. e \in Exp
    BY <2>1, CondOpType, StrOpType
  <2>3. run_part(p, env) = [e EXCEPT !.pieces = Quote(e.pieces, p.q)]
    BY <1>3 DEF run_part
  <2> HIDE DEF e
  <2>4. Quote(e.pieces, p.q) \in Seq(PieceSet)
    BY <2>2, ExpFields, MarkQuoteType
  <2> QED
    BY <2>2, <2>3, <2>4, ExpFields
<1> QED
  BY <1>1, <1>2, <1>3

(* A word expands to pieces and leaves variables, however many parts it    *)
(* has.                                                                    *)
LEMMA RunWordType ==
    ASSUME NEW w \in Seq(Parts), NEW env \in Env, args \in Seq(Texts)
    PROVE  run_word(w, env) \in Exp
<1> DEFINE F == Fold(w, env)
           n == Len(w)
           Untyped == {k \in 0..n : F[1..k] \notin Exp}
<1>1. n \in Nat /\ DOMAIN w = 1..n /\ \A k \in 1..n : w[k] \in Parts
  OBVIOUS
<1>2. F[{}] = Base(env) /\ \A k \in 1..n : F[1..k] = Step(F[1..(k - 1)], w[k])
  BY FoldRule
<1> HIDE DEF F, n
<1>3. F[1..0] \in Exp
  <2>1. 1..0 = {} /\ <<>> \in Seq(PieceSet)
    OBVIOUS
  <2>2. Expanded(TRUE, <<>>, env) \in Exp
    BY <2>1, ExpFields, Zenon
  <2> QED
    BY <1>2, <2>1, <2>2 DEF Base
<1>4. ASSUME NEW e \in Exp, NEW p \in Parts PROVE Step(e, p) \in Exp
  <2>1. CASE ~e.ok
    BY <2>1 DEF Step
  <2>2. CASE e.ok
    <3> DEFINE f == run_part(p, e.env)
    <3>1. e.env \in Env /\ e.pieces \in Seq(PieceSet)
      BY ExpFields
    <3>2. f \in Exp
      BY <3>1, RunPartType
    <3>3. Step(e, p) = [f EXCEPT !.pieces = e.pieces \o f.pieces]
      BY <2>2 DEF Step
    <3> HIDE DEF f
    <3>4. f.pieces \in Seq(PieceSet)
      BY <3>2, ExpFields
    <3>5. e.pieces \o f.pieces \in Seq(PieceSet)
      BY <3>1, <3>4
    <3>6. \A x \in Seq(PieceSet) : [f EXCEPT !.pieces = x] \in Exp
      BY <3>2, ExpFields
    <3> QED
      BY <3>3, <3>5, <3>6, ZenonT(30)
  <2> QED
    BY <2>1, <2>2
<1>5. Untyped = {}
  <2> SUFFICES ASSUME Untyped # {} PROVE FALSE
    OBVIOUS
  <2>1. Untyped \subseteq Nat
    BY <1>1
  <2>2. PICK k \in Untyped : \A y \in Untyped : k <= y
    BY <2>1, LeastNumber
  <2>3. k \in 0..n /\ F[1..k] \notin Exp
    OBVIOUS
  <2>4. k # 0
    BY <1>3, <2>3
  <2>5. k \in 1..n /\ k - 1 \in 0..n /\ ~(k <= k - 1)
    BY <1>1, <2>3, <2>4
  <2>6. F[1..(k - 1)] \in Exp
    BY <2>2, <2>5
  <2> QED
    BY <1>1, <1>2, <1>4, <2>3, <2>5, <2>6
<1>6. n \in 0..n
  BY <1>1
<1> QED
  BY <1>1, <1>5, <1>6, RunWordIs DEF F

-----------------------------------------------------------------------------
(* The subject of a case clause *)

Subject(n) == <<Par(n, "none", "none", FALSE, <<>>)>>

(* The text of one piece. *)
LEMMA StrOne ==
    ASSUME NEW s \in Texts, NEW q, NEW split
    PROVE  Str(<<Piece(s, q, split)>>) = s
<1> DEFINE P == <<Piece(s, q, split)>>
           F == [i \in DOMAIN P |-> P[i].s]
<1>1. F = <<s>>
  <2>1. DOMAIN P = {1} /\ P[1].s = s
    BY DEF Piece
  <2> QED
    BY <2>1
<1> HIDE DEF F
<1>2. F \in Seq(Seq(Chars)) /\ Len(F) = 1 /\ F[1] = s
  <2>1. s \in Seq(Chars)
    BY DEF Texts
  <2> QED
    BY <1>1, <2>1
<1>3. Flatten(F)[1] = F[1]
  <2>1. F \in Seq(Seq(Chars)) /\ Len(F) # 0
    BY <1>2
  <2> QED
    BY <2>1, FlattenRule
<1>4. FlattenSeq(F) = s
  <2>1. FlattenSeq(F) = IF Len(F) = 0 THEN F ELSE Flatten(F)[Len(F)]
    BY FlattenSeqIs
  <2>2. Len(F) = 1 /\ Flatten(F)[1] = s
    BY <1>2, <1>3
  <2> HIDE DEF F
  <2> QED
    BY <2>1, <2>2
<1> QED
  BY <1>4 DEF Str, F

(* The fields of what a part expands to. *)
LEMMA ExpandedIs ==
    \A pieces, env :
        /\ Expanded(TRUE, pieces, env).pieces = pieces /\ Expanded(TRUE, pieces, env).env = env
        /\ ~Expanded(FALSE, pieces, env).ok /\ Expanded(FALSE, pieces, env).env = env
BY DEF Expanded

(* The subject expands to the value of its variable and assigns nothing. *)
LEMMA SubjectIs ==
    ASSUME NEW n \in Names, NEW env \in Env
    PROVE  LET e == run_word(Subject(n), env)
           IN  e.env = env /\ (e.ok => Str(e.pieces) = ArgValue(n, env))
<1> DEFINE p == Par(n, "none", "none", FALSE, <<>>)
           w == Subject(n)
           e == run_word(w, env)
           c == apply_parameter_cond_op(p, env)
           value == <<Piece(env[n], "none", TRUE)>>
<1>1. p.k = "par" /\ p.n = n /\ p.q = "none" /\ p.op = "none" /\ p.arg = <<>>
  BY DEF Par
<1>2. n # "@" /\ "none" \in CondOps /\ "par" # "lit" /\ "none" # "double"
  BY WordsAssumption DEF CondOps
<1>3. w = <<p>>
  BY DEF Subject
<1> HIDE DEF p
<1>4. w \in Seq({p}) /\ Len(w) = 1 /\ w[1] = p /\ DOMAIN w = 1..1 /\ 1 \in 1..Len(w)
  BY <1>3
<1> HIDE DEF w
<1>5. e = Step(Base(env), p)
  <2>1. Fold(w, env)[{}] = Base(env) /\ Fold(w, env)[1..1] = Step(Fold(w, env)[1..(1 - 1)], p)
    BY <1>4, FoldRule
  <2>2. 1..(1 - 1) = {}
    OBVIOUS
  <2> QED
    BY <1>4, <2>1, <2>2, RunWordIs
<1>6. /\ c \in Exp
      /\ \/ c = Expanded(FALSE, <<>>, env)
         \/ env[n] # Unset /\ c = Expanded(TRUE, value, env)
         \/ env[n] = Unset /\ c = Expanded(TRUE, NoPieces, env)
  <2>1. c \in Exp
    <3>1. p.n \in Names /\ p.arg \in Seq(ArgParts)
      BY <1>1
    <3> QED
      BY <3>1, CondOpType
  <2>2. \/ c = Expanded(FALSE, <<>>, env)
        \/ env[n] # Unset /\ c = Expanded(TRUE, value, env)
        \/ env[n] = Unset /\ c = Expanded(TRUE, NoPieces, env)
    BY <1>1, Zenon DEF apply_parameter_cond_op
  <2> QED
    BY <2>1, <2>2
<1>7. run_part(p, env) = [c EXCEPT !.pieces = c.pieces]
  BY <1>1, <1>2 DEF run_part, Quote
<1> HIDE DEF c
<1>8. c.ok \in BOOLEAN /\ c.pieces \in Seq(PieceSet) /\ c.env = env
  <2> DEFINE none == <<>>
  <2>1. \/ c = Expanded(FALSE, none, env) \/ c = Expanded(TRUE, value, env)
        \/ c = Expanded(TRUE, NoPieces, env)
    BY <1>6
  <2> HIDE DEF none, value
  <2>2. c.env = env
    <3>1. CASE c = Expanded(FALSE, none, env)
      BY <3>1, ExpandedIs
    <3>2. CASE c = Expanded(TRUE, value, env)
      BY <3>2, ExpandedIs
    <3>3. CASE c = Expanded(TRUE, NoPieces, env)
      BY <3>3, ExpandedIs
    <3> QED
      BY <2>1, <3>1, <3>2, <3>3
  <2> QED
    BY <1>6, <2>2, ExpFields
<1>9. run_part(p, env) \in Exp /\ run_part(p, env).pieces = c.pieces
      /\ run_part(p, env).env = env /\ run_part(p, env).ok = c.ok
  BY <1>6, <1>7, <1>8, ExpFields
<1>10. e.ok = c.ok /\ e.pieces = c.pieces /\ e.env = env
  <2> DEFINE f == run_part(p, env)
             none == <<>>
  <2>1. Base(env).ok = TRUE /\ Base(env).pieces = none /\ Base(env).env = env
    BY DEF Base, Expanded
  <2>2. e = [f EXCEPT !.pieces = none \o f.pieces]
    BY <1>5, <2>1 DEF Step
  <2>3. none \o f.pieces = f.pieces
    BY <1>8, <1>9
  <2> HIDE DEF f, none
  <2>4. e = [f EXCEPT !.pieces = f.pieces]
    BY <2>2, <2>3
  <2> HIDE DEF e
  <2> QED
    BY <1>8, <1>9, <2>4, ExpFields DEF f
<1>11. ASSUME c.ok PROVE Str(c.pieces) = ArgValue(n, env)
  <2>1. CASE c = Expanded(FALSE, <<>>, env)
    BY <1>11, <2>1, ExpandedIs
  <2>2. CASE env[n] # Unset /\ c = Expanded(TRUE, value, env)
    <3>1. env[n] \in Texts
      BY DEF Env
    <3>2. c.pieces = value
      <4>1. c = Expanded(TRUE, value, env)
        BY <2>2
      <4> HIDE DEF value
      <4> QED
        BY <4>1, ExpandedIs
    <3>3. Str(value) = env[n]
      BY <3>1, StrOne
    <3>4. ArgValue(n, env) = env[n]
      BY <2>2 DEF ArgValue
    <3> QED
      BY <3>2, <3>3, <3>4, Zenon
  <2>3. CASE env[n] = Unset /\ c = Expanded(TRUE, NoPieces, env)
    <3>1. c.pieces = NoPieces
      BY <2>3, ExpandedIs
    <3>2. Str(NoPieces) = <<>>
      BY StringsAreTexts, StrOne DEF NoPieces
    <3> QED
      BY <2>3, <3>1, <3>2 DEF ArgValue
  <2> QED
    BY <1>6, <2>1, <2>2, <2>3
<1> QED
  BY <1>10, <1>11 DEF w

-----------------------------------------------------------------------------
(* The case clauses of a function *)

(* Between two commands the function table holds the pattern as written,   *)
(* and so does a call that has not evaluated it.                           *)
CaseInv ==
    /\ vals \in Env /\ args \in Seq(Texts)
    /\ source \in Patterns /\ def = source
    /\ call # NoCall /\ ~call.ran => call.pat = source

Selected ==
    outcome'.k = "case" /\ outcome'.ok =>
        LET e == run_word(source, vals)
            s == ArgValue(outcome'.words[1], vals)
        IN  outcome'.selected = Selects(e.pieces, s)

(* It holds at first. *)
LEMMA CaseInit == Init => CaseInv
<1> SUFFICES ASSUME Init PROVE CaseInv
  OBVIOUS
<1>1. vals \in Env
  <2>1. Unset \in Texts
    <3> DEFINE c == "unset"
    <3>2. c \in Chars
      BY DEF Chars
    <3> HIDE DEF c
    <3>3. <<c>> \in Texts
      BY <3>2 DEF Texts
    <3> QED
      BY <3>3 DEF Unset, c
  <2>2. Values \cup {Unset} \subseteq Texts
    BY <2>1, TextsAssumption, StringsAreTexts
  <2>3. vals \in [Names -> Values \cup {Unset}]
    BY DEF Init
  <2> QED
    BY <2>2, <2>3 DEF Env
<1>2. args \in Seq(Texts)
  <2>1. args \in Seq(Seq(STRING))
    BY TextsAssumption DEF Init
  <2>2. args \in [1..Len(args) -> Seq(STRING)] /\ Len(args) \in Nat
    BY <2>1
  <2>3. args \in [1..Len(args) -> Texts]
    BY <2>2, StringsAreTexts
  <2> QED
    BY <2>2, <2>3
<1> QED
  BY <1>1, <1>2 DEF Init, CaseInv

(* Every step keeps it, and selects with the pattern as written. *)
LEMMA CaseStep ==
    ASSUME CaseAgain = FALSE, CaseInv, [Next]_vars
    PROVE  CaseInv' /\ (vars' = vars \/ Selected)
<1>1. /\ vals \in Env /\ args \in Seq(Texts) /\ source \in Patterns /\ def = source
      /\ call # NoCall /\ ~call.ran => call.pat = source
  BY DEF CaseInv
<1>2. ASSUME NEW w \in Words \cup Sides \cup Patterns, NEW env \in Env
      PROVE  run_word(w, env) \in Exp
  <2>1. w \in Seq(Parts)
    BY WordsAssumption
  <2> QED
    BY <1>1, <2>1, RunWordType
<1>3. ASSUME UNCHANGED <<args, source, def, call>>, vals' \in Env PROVE CaseInv'
  BY <1>1, <1>3 DEF CaseInv
<1>4. CASE RunCommand
  <2>1. PICK w \in Words : /\ vals' = run_word(w, vals).env
                           /\ outcome'.k = "command"
                           /\ UNCHANGED <<args, source, def, call>>
    BY <1>4 DEF RunCommand, Result
  <2>2. vals' \in Env
    BY <1>1, <1>2, <2>1, ExpFields
  <2> QED
    BY <1>3, <2>1, <2>2 DEF Selected
<1>5. CASE RunAssignments
  <2> DEFINE E(v) == run_word(v, vals)
             F(v, w) == IF E(v).ok THEN run_word(w, E(v).env) ELSE E(v)
  <2>1. PICK n \in Names, m \in Names, v \in Sides, w \in Sides :
           /\ vals' = IF F(v, w).ok
                      THEN Assigned(n, Str(E(v).pieces), m, Str(F(v, w).pieces), F(v, w).env)
                      ELSE F(v, w).env
           /\ outcome'.k = "assign"
           /\ UNCHANGED <<args, source, def, call>>
    BY <1>5 DEF RunAssignments, Assign, Result
  <2>2. E(v) \in Exp
    BY <1>1, <1>2
  <2> HIDE DEF E
  <2>3. F(v, w) \in Exp
    BY <1>2, <2>2, ExpFields
  <2> HIDE DEF F
  <2>4. Str(E(v).pieces) \in Texts /\ Str(F(v, w).pieces) \in Texts /\ F(v, w).env \in Env
    BY <2>2, <2>3, ExpFields, StrType
  <2>5. \A a, b \in Texts, env \in Env : Assigned(n, a, m, b, env) \in Env
    BY DEF Assigned, Env
  <2>6. vals' \in Env
    BY <2>1, <2>4, <2>5
  <2> QED
    BY <1>3, <2>1, <2>6 DEF Selected
<1>6. CASE Call
  <2>1. call' = [pat |-> source, ran |-> FALSE] /\ UNCHANGED <<vals, args, source, def>>
    BY <1>1, <1>6 DEF Call
  <2>2. call'.pat = source'
    BY <2>1
  <2>3. outcome'.k = "none"
    BY <1>6 DEF Call, Running, NoResult, Result
  <2> QED
    BY <1>1, <2>1, <2>2, <2>3 DEF CaseInv, Selected
<1>7. CASE Return
  <2>1. call' = NoCall /\ UNCHANGED <<vals, args, source, def>>
    BY <1>7 DEF Return
  <2>2. outcome'.k = "none"
    BY <1>7 DEF Return, Running, NoResult, Result
  <2>3. CaseInv'
    <3>1. NoCall' = NoCall
      BY DEF NoCall
    <3> QED
      BY <1>1, <2>1, <3>1 DEF CaseInv
  <2> QED
    BY <2>2, <2>3 DEF Selected
<1>8. CASE RunCase
  <2> DEFINE S(n) == run_word(Subject(n), vals)
             E(n) == run_word(call.pat, S(n).env)
  <2>1. call # NoCall /\ ~call.ran /\ call.pat = source
    BY <1>1, <1>8 DEF RunCase
  <2>2. PICK n \in Names :
           /\ IF S(n).ok /\ E(n).ok
              THEN /\ call' = [pat |-> Replaced(E(n).pieces), ran |-> TRUE]
                   /\ def' = DefAfter(Replaced(E(n).pieces))
                   /\ outcome' = Result("case", TRUE, <<n>>, <<>>,
                                        Selects(E(n).pieces, Str(S(n).pieces)))
              ELSE /\ UNCHANGED <<call, def>>
                   /\ outcome' = Result("case", FALSE, <<n>>, <<>>, FALSE)
           /\ vals' = IF S(n).ok THEN E(n).env ELSE S(n).env
           /\ UNCHANGED <<args, nounset, source>>
    BY <1>8, Zenon DEF RunCase, Subject
  <2>3. S(n).env = vals /\ (S(n).ok => Str(S(n).pieces) = ArgValue(n, vals))
    BY <1>1, SubjectIs
  <2> HIDE DEF S
  <2>4. E(n) = run_word(source, vals) /\ E(n) \in Exp
    BY <1>1, <1>2, <2>1, <2>3
  <2> HIDE DEF E
  <2>5. vals' \in Env /\ args' \in Seq(Texts) /\ source' = source
    BY <1>1, <2>2, <2>3, <2>4, ExpFields
  <2>6. CASE S(n).ok /\ E(n).ok
    <3>1. /\ call' = [pat |-> Replaced(E(n).pieces), ran |-> TRUE]
          /\ def' = def
          /\ outcome' = Result("case", TRUE, <<n>>, <<>>, Selects(E(n).pieces, Str(S(n).pieces)))
      BY <2>2, <2>6 DEF DefAfter
    <3>2. call'.ran
      BY <3>1
    <3>3. CaseInv'
      BY <1>1, <2>5, <3>1, <3>2 DEF CaseInv
    <3>4. outcome'.selected = Selects(E(n).pieces, ArgValue(n, vals)) /\ outcome'.words[1] = n
      <4> DEFINE x == Selects(E(n).pieces, Str(S(n).pieces))
      <4>1. outcome' = Result("case", TRUE, <<n>>, <<>>, x)
        BY <3>1
      <4>2. x = Selects(E(n).pieces, ArgValue(n, vals))
        BY <2>3, <2>6
      <4> HIDE DEF x
      <4>3. outcome'.selected = x /\ outcome'.words = <<n>>
        BY <4>1 DEF Result
      <4> QED
        BY <4>2, <4>3
    <3> QED
      BY <2>4, <3>3, <3>4 DEF Selected
  <2>7. CASE ~(S(n).ok /\ E(n).ok)
    <3>1. UNCHANGED <<call, def>> /\ outcome' = Result("case", FALSE, <<n>>, <<>>, FALSE)
      BY <2>2, <2>7
    <3>2. ~outcome'.ok
      BY <3>1 DEF Result
    <3>3. CaseInv'
      BY <1>1, <2>5, <3>1 DEF CaseInv
    <3> QED
      BY <3>2, <3>3 DEF Selected
  <2> QED
    BY <2>6, <2>7
<1>9. CASE GoOn
  <2>1. outcome'.k = "none" /\ UNCHANGED <<vals, args, source, def, call>>
    BY <1>9 DEF GoOn, NoResult, Result
  <2> QED
    BY <1>1, <1>3, <2>1 DEF Selected
<1>10. CASE UNCHANGED vars
  <2>1. UNCHANGED <<vals, args, source, def, call>>
    BY <1>10 DEF vars
  <2> QED
    BY <1>1, <1>3, <1>10, <2>1
<1> QED
  BY <1>4, <1>5, <1>6, <1>7, <1>8, <1>9, <1>10 DEF Next

(* For any words, values and patterns of any length: in every script in    *)
(* which a function evaluates its case clause once in a call, the clause   *)
(* selects as its pattern as written, expanded with the values of the      *)
(* moment, does, whatever libc takes bracket expressions for               *)
(* (run_case_clause replaces the pattern in the syntax tree, which is the  *)
(* copy of the call).                                                      *)
THEOREM CasesFresh ==
    ASSUME CaseAgain = FALSE
    PROVE  Spec => CaseFresh
<1>1. Init => CaseInv
  BY CaseInit
<1>2. CaseInv /\ [Next]_vars => CaseInv'
  BY CaseStep
<1>3. CaseInv /\ [Next]_vars =>
      [ outcome'.k = "case" /\ outcome'.ok =>
          LET e == run_word(source, vals)
              s == ArgValue(outcome'.words[1], vals)
          IN  outcome'.selected = Selects(e.pieces, s)
      ]_vars
  <2> SUFFICES ASSUME CaseInv, [Next]_vars
               PROVE  vars' = vars \/ Selected
    BY DEF Selected
  <2> QED
    BY CaseStep
<1> QED
  BY <1>1, <1>2, <1>3, PTL DEF Spec, CaseFresh
=============================================================================
