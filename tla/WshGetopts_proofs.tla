------------------------- MODULE WshGetopts_proofs -------------------------
(***************************************************************************)
(* The argv arrays of WshFrame hold live strings, each one once, and       *)
(* implement the positional parameters of Positional; getopts keeps OPTIND *)
(* within them.  For every set of words, heap, bound and optstring.        *)
(***************************************************************************)
EXTENDS WshGetopts, WshSequences, FiniteSetTheorems

Strings == Words \cup {Name, Leaked, Freed}
LiveStrings == Words \cup {Name}

(* The strings a frame may hold are neither freed nor leaked. *)
LEMMA LiveIsLive ==
    \A s \in LiveStrings : s \in Strings /\ s \notin {Freed, Leaked}
BY WordsAssumption DEF LiveStrings, Strings, Freed, Leaked, Name

-----------------------------------------------------------------------------
(* malloc and free *)

(* When there is room, malloc returns different blocks that are not in use.*)
LEMMA MallocGives ==
    ASSUME NEW h, NEW k \in Nat, HasRoom(h, k)
    PROVE  /\ Malloc(h, k) \in Seq(Heap) /\ Len(Malloc(h, k)) = k
           /\ DOMAIN Malloc(h, k) = 1..k
           /\ Distinct(Malloc(h, k))
           /\ \A i \in 1..k : Malloc(h, k)[i] \in Heap /\ h[Malloc(h, k)[i]] = Freed
<1> DEFINE U == Unused(h)
<1>1. IsFiniteSet(U)
  BY HeapAssumption, FS_Subset DEF Unused
<1>2. Cardinality(U) \in Nat /\ ExistsBijection(1..Cardinality(U), U)
  BY <1>1, FS_CardinalityType
<1>3. PICK b \in Bijection(1..Cardinality(U), U) : TRUE
  BY <1>2 DEF ExistsBijection
<1>4. k <= Cardinality(U)
  BY <1>2 DEF HasRoom
<1> DEFINE w == [i \in 1..k |-> b[i]]
<1>5. \A i \in 1..k : i \in 1..Cardinality(U)
  BY <1>2, <1>4
<1>6. b \in [1..Cardinality(U) -> U]
      /\ \A i, j \in 1..Cardinality(U) : b[i] = b[j] => i = j
  BY <1>3 DEF Bijection, Injection, IsInjective
<1>7. w \in [1..k -> U]
  BY <1>5, <1>6
<1>8. Distinct(w)
  BY <1>5, <1>6 DEF Distinct
<1>9. Malloc(h, k) \in [1..k -> U] /\ Distinct(Malloc(h, k))
  BY <1>7, <1>8 DEF Malloc
<1>10. \A i \in 1..k : Malloc(h, k)[i] \in Heap /\ h[Malloc(h, k)[i]] = Freed
  BY <1>9 DEF Unused
<1>11. Malloc(h, k) \in [1..k -> Heap] /\ DOMAIN Malloc(h, k) = 1..k
  BY <1>9 DEF Unused
<1>12. Malloc(h, k) \in Seq(Heap) /\ Len(Malloc(h, k)) = k
  BY <1>11
<1> QED
  BY <1>9, <1>10, <1>11, <1>12, Zenon

(* strdup into different blocks leaves string i in block i, and the others *)
(* as they were.                                                           *)
LEMMA StoredHolds ==
    ASSUME NEW h \in [Heap -> Strings], NEW ps \in Seq(Heap), Distinct(ps),
           NEW strings \in Seq(Strings), Len(strings) = Len(ps)
    PROVE  /\ Stored(h, ps, strings) \in [Heap -> Strings]
           /\ \A i \in 1..Len(ps) : Stored(h, ps, strings)[ps[i]] = strings[i]
           /\ \A p \in Heap : (\A i \in 1..Len(ps) : ps[i] # p)
                                  => Stored(h, ps, strings)[p] = h[p]
<1> DEFINE k == Len(ps)
<1>1. DOMAIN ps = 1..k /\ \A i \in 1..k : ps[i] \in Heap
  BY LenProperties, ElementOfSeq
<1>2. \A i \in 1..k : strings[i] \in Strings
  BY ElementOfSeq
<1> HIDE DEF k
<1>3. \A i \in 1..k : i = CHOOSE j \in DOMAIN ps : ps[j] = ps[i]
  BY <1>1 DEF Distinct
<1>4. \A p \in Heap : Stored(h, ps, strings)[p]
        = IF \E i \in DOMAIN ps : ps[i] = p
          THEN strings[CHOOSE i \in DOMAIN ps : ps[i] = p] ELSE h[p]
  BY DEF Stored
<1>5. \A i \in 1..k : Stored(h, ps, strings)[ps[i]] = strings[i]
  BY <1>1, <1>3, <1>4, Zenon
<1>6. \A p \in Heap : (\A i \in 1..k : ps[i] # p) => Stored(h, ps, strings)[p] = h[p]
  BY <1>1, <1>4, Zenon
<1>7. ASSUME NEW p \in Heap
      PROVE  Stored(h, ps, strings)[p] \in Strings
  BY <1>2, <1>5, <1>6
<1>8. Stored(h, ps, strings) = [p \in Heap |-> Stored(h, ps, strings)[p]]
  BY DEF Stored
<1> QED
  BY <1>5, <1>6, <1>7, <1>8, Zenon DEF k

-----------------------------------------------------------------------------
(* The inductive invariant: the script's own frame has no argv, every      *)
(* other one has its name and at most MaxOperands parameters, every entry  *)
(* is a live string and no block is in two entries.  The last two are      *)
(* LiveArgs, taken apart; Sound speaks of any frames and any heap.         *)

Live(argv, h) == \A x \in 1..Len(argv) : h[argv[x]] \in LiveStrings
Apart(argv, g) == \A x \in 1..Len(argv), y \in 1..Len(g) : argv[x] # g[y]
Same(argv, h, h2) == \A x \in 1..Len(argv) : h2[argv[x]] = h[argv[x]]

Sound(fs, h) ==
    /\ fs \in Seq(Seq(Heap)) /\ Len(fs) >= 1 /\ h \in [Heap -> Strings]
    /\ fs[1] = <<>>
    /\ \A k \in 2..Len(fs) : Len(fs[k]) \in 1..(MaxOperands + 1)
    /\ \A k \in 1..Len(fs) : Live(fs[k], h) /\ Distinct(fs[k])
    /\ \A k, l \in 1..Len(fs) : k # l => Apart(fs[k], fs[l])

(* A new array that can be the last frame on top of the first n of fs. *)
Fits(fs, n, h, h2, g) ==
    /\ g \in Seq(Heap) /\ Len(g) \in 1..(MaxOperands + 1) /\ Distinct(g)
    /\ h2 \in [Heap -> Strings] /\ Live(g, h2)
    /\ \A k \in 1..n : Same(fs[k], h, h2) /\ Apart(fs[k], g)

ParamsOf(argv, h) == IF argv = <<>> THEN <<>>
                     ELSE [i \in 1..(Len(argv) - 1) |-> h[argv[i + 1]]]
AllParams(fs, h) == [k \in 1..Len(fs) |-> ParamsOf(fs[k], h)]

(* Parameters are sequences of strings. *)
LEMMA ParamsType ==
    ASSUME NEW fs, NEW h, Sound(fs, h)
    PROVE  AllParams(fs, h) \in Seq(Seq(Strings)) /\ Len(AllParams(fs, h)) = Len(fs)
<1>1. Len(fs) \in Nat
  BY DEF Sound
<1>2. ASSUME NEW k \in 1..Len(fs)
      PROVE  ParamsOf(fs[k], h) \in Seq(Strings)
  <2>1. fs[k] \in Seq(Heap) /\ Len(fs[k]) \in Nat
    BY DEF Sound
  <2>2. CASE fs[k] = <<>>
    BY <2>2, EmptySeq DEF ParamsOf
  <2>3. CASE fs[k] # <<>>
    <3>1. Len(fs[k]) - 1 \in Nat
      BY <2>1, <2>3
    <3>2. \A i \in 1..(Len(fs[k]) - 1) : h[fs[k][i + 1]] \in Strings
      BY <2>1 DEF Sound
    <3> QED
      BY <2>3, <3>1, <3>2 DEF ParamsOf
  <2> QED
    BY <2>2, <2>3
<1>3. AllParams(fs, h) \in [1..Len(fs) -> Seq(Strings)]
  BY <1>2 DEF AllParams
<1> QED
  BY <1>1, <1>3

(* What is true of an array is true of it on another heap where its        *)
(* strings are the same.                                                   *)
LEMMA SameStrings ==
    ASSUME NEW argv \in Seq(Heap), NEW h, NEW h2, Same(argv, h, h2)
    PROVE  /\ Live(argv, h) => Live(argv, h2)
           /\ ParamsOf(argv, h2) = ParamsOf(argv, h)
<1>1. Live(argv, h) => Live(argv, h2)
  BY DEF Live, Same
<1>2. Len(argv) \in Nat
  OBVIOUS
<1>3. \A i \in 1..(Len(argv) - 1) : h2[argv[i + 1]] = h[argv[i + 1]]
  BY <1>2 DEF Same
<1> QED
  BY <1>1, <1>3 DEF ParamsOf

(* Two arrays have no block in common, whichever is named first. *)
LEMMA ApartBothWays ==
    ASSUME NEW argv, NEW g, Apart(argv, g)
    PROVE  Apart(g, argv)
BY Zenon DEF Apart

(* push_frame: a new last frame, with its own parameters. *)
LEMMA PushFrame ==
    ASSUME NEW fs, NEW h, NEW h2, NEW g, Sound(fs, h), Fits(fs, Len(fs), h, h2, g)
    PROVE  /\ Sound(Append(fs, g), h2)
           /\ AllParams(Append(fs, g), h2) = Append(AllParams(fs, h), ParamsOf(g, h2))
<1> DEFINE n == Len(fs)
           f == Append(fs, g)
<1>1. n \in Nat \ {0} /\ fs \in Seq(Seq(Heap)) /\ g \in Seq(Heap)
  BY DEF Sound, Fits
<1>2. /\ f \in Seq(Seq(Heap)) /\ Len(f) = n + 1
      /\ \A k \in 1..n : f[k] = fs[k] /\ fs[k] \in Seq(Heap)
      /\ f[n + 1] = g
  BY <1>1, AppendProperties, ElementOfSeq
<1>3. /\ \A k \in 1..(n + 1) : k \in 1..n \/ k = n + 1
      /\ \A k \in 2..(n + 1) : k \in 2..n \/ k = n + 1
      /\ \A k \in 2..n : k \in 1..n
  BY <1>1
<1> HIDE DEF n, f
<1>4. h2 \in [Heap -> Strings] /\ f[1] = <<>>
  BY <1>1, <1>2 DEF Sound, Fits, n
<1>5. \A k \in 2..(n + 1) : Len(f[k]) \in 1..(MaxOperands + 1)
  BY <1>2, <1>3, Zenon DEF Sound, Fits, n
<1>6. \A k \in 1..n : Live(f[k], h2) /\ Distinct(f[k])
  BY <1>2, SameStrings, Zenon DEF Sound, Fits, n
<1>7. \A k \in 1..(n + 1) : Live(f[k], h2) /\ Distinct(f[k])
  BY <1>2, <1>3, <1>6, Zenon DEF Fits
<1>8. ASSUME NEW k \in 1..(n + 1), NEW l \in 1..(n + 1), k # l
      PROVE  Apart(f[k], f[l])
  <2>1. CASE k \in 1..n /\ l \in 1..n
    BY <1>2, <1>8, <2>1, Zenon DEF Sound, n
  <2>2. CASE k = n + 1 /\ l \in 1..n
    BY <1>2, <2>2, ApartBothWays, Zenon DEF Fits, n
  <2>3. CASE k \in 1..n /\ l = n + 1
    BY <1>2, <2>3, Zenon DEF Fits, n
  <2> QED
    BY <1>3, <1>8, <2>1, <2>2, <2>3, Zenon
<1>9. Sound(f, h2)
  <2>1. Len(f) >= 1
    BY <1>1, <1>2
  <2> QED
    BY <1>2, <1>4, <1>5, <1>7, <1>8, <2>1, Zenon DEF Sound
<1>10. /\ AllParams(fs, h) \in Seq(Seq(Strings)) /\ Len(AllParams(fs, h)) = n
       /\ AllParams(f, h2) \in Seq(Seq(Strings)) /\ Len(AllParams(f, h2)) = n + 1
  BY <1>2, <1>9, ParamsType DEF n
<1>11. AllParams(f, h2)[n + 1] = ParamsOf(g, h2)
  BY <1>1, <1>2 DEF AllParams
<1>12. \A k \in 1..n : AllParams(f, h2)[k] = AllParams(fs, h)[k]
  <2>1. \A k \in 1..n : ParamsOf(f[k], h2) = ParamsOf(fs[k], h)
    <3>1. \A k \in 1..n : ParamsOf(fs[k], h2) = ParamsOf(fs[k], h)
      BY <1>2, SameStrings DEF Fits, n
    <3> QED
      BY <1>2, <3>1
  <2> QED
    BY <1>1, <1>2, <2>1 DEF AllParams, n
<1>13. AllParams(f, h2) = Append(AllParams(fs, h), ParamsOf(g, h2))
  BY <1>1, <1>10, <1>11, <1>12, AppendLast
<1> QED
  BY <1>9, <1>13 DEF f

(* pop_frame: the frames below keep their strings and parameters. *)
LEMMA PopFrame ==
    ASSUME NEW fs, NEW h, NEW h2 \in [Heap -> Strings], Sound(fs, h), Len(fs) > 1,
           \A k \in 1..(Len(fs) - 1) : Same(fs[k], h, h2)
    PROVE  LET f == SubSeq(fs, 1, Len(fs) - 1)
               P == AllParams(fs, h)
           IN  /\ Sound(f, h2)
               /\ AllParams(f, h2) = SubSeq(P, 1, Len(P) - 1)
<1> DEFINE n == Len(fs) - 1
           f == SubSeq(fs, 1, n)
           P == AllParams(fs, h)
<1>1. n \in Nat \ {0} /\ fs \in Seq(Seq(Heap)) /\ Len(fs) = n + 1 /\ fs # <<>>
  BY DEF Sound
<1>2. f \in Seq(Seq(Heap)) /\ Len(f) = n /\ \A k \in 1..n : f[k] = fs[k]
  BY <1>1, FrontIs
<1>3. \A k \in 1..n : Same(fs[k], h, h2)
  OBVIOUS
<1> HIDE DEF n, f, P
<1>4. \A k \in 1..n : k \in 1..Len(fs) /\ fs[k] \in Seq(Heap)
  BY <1>1, ElementOfSeq
<1>5. \A k \in 2..n : k \in 1..n /\ k \in 2..Len(fs)
  BY <1>1
<1>6. Sound(f, h2)
  <2>1. f[1] = <<>> /\ Len(f) >= 1
    BY <1>1, <1>2 DEF Sound
  <2>2. \A k \in 2..n : Len(f[k]) \in 1..(MaxOperands + 1)
    BY <1>2, <1>5, Zenon DEF Sound
  <2>3. \A k \in 1..n : Live(f[k], h2) /\ Distinct(f[k])
    BY <1>2, <1>3, <1>4, SameStrings, Zenon DEF Sound
  <2>4. \A k, l \in 1..n : k # l => Apart(f[k], f[l])
    BY <1>2, <1>4, Zenon DEF Sound
  <2> QED
    BY <1>2, <2>1, <2>2, <2>3, <2>4, Zenon DEF Sound
<1>7. /\ P \in Seq(Seq(Strings)) /\ Len(P) = n + 1 /\ P # <<>>
      /\ AllParams(f, h2) \in Seq(Seq(Strings)) /\ Len(AllParams(f, h2)) = n
  BY <1>1, <1>2, <1>6, ParamsType DEF P
<1>8. \A k \in 1..n : AllParams(f, h2)[k] = P[k]
  <2>1. \A k \in 1..n : ParamsOf(f[k], h2) = ParamsOf(fs[k], h)
    <3>1. \A k \in 1..n : ParamsOf(fs[k], h2) = ParamsOf(fs[k], h)
      BY <1>3, <1>4, SameStrings
    <3> QED
      BY <1>2, <3>1
  <2> QED
    BY <1>2, <1>4, <2>1 DEF AllParams, P
<1>9. AllParams(f, h2) = SubSeq(P, 1, Len(P) - 1)
  <2> DEFINE Q == SubSeq(P, 1, Len(P) - 1)
  <2>1. Q \in Seq(Seq(Strings)) /\ Len(Q) = n /\ \A i \in 1..n : Q[i] = P[i]
    BY <1>1, <1>7, FrontIs
  <2> HIDE DEF Q
  <2>2. AllParams(f, h2) = Q
    BY <1>7, <1>8, <2>1, SeqEqual
  <2> QED
    BY <2>2 DEF Q
<1> QED
  BY <1>6, <1>9 DEF f, n, P

WithLast(s, e) == [s EXCEPT ![Len(s)] = e]

(* set and shift: the last frame gets another array. *)
LEMMA ReplaceFrame ==
    ASSUME NEW fs, NEW h, NEW h2, NEW g, Sound(fs, h), Len(fs) > 1,
           Fits(fs, Len(fs) - 1, h, h2, g)
    PROVE  /\ Sound(WithLast(fs, g), h2)
           /\ AllParams(WithLast(fs, g), h2) = WithLast(AllParams(fs, h), ParamsOf(g, h2))
<1> DEFINE n == Len(fs) - 1
           t == SubSeq(fs, 1, n)
           P == AllParams(fs, h)
<1>1. n \in Nat /\ fs \in Seq(Seq(Heap)) /\ fs # <<>> /\ g \in Seq(Heap)
  BY DEF Sound, Fits
<1>2. Len(t) = n /\ \A k \in 1..n : t[k] = fs[k] /\ fs[k] \in Seq(Heap)
  BY <1>1, FrontIs, ElementOfSeq
<1>3. h2 \in [Heap -> Strings] /\ \A k \in 1..n : Same(fs[k], h, h2)
  BY DEF Fits
<1>4. Sound(t, h2) /\ AllParams(t, h2) = SubSeq(P, 1, Len(P) - 1)
  BY <1>3, PopFrame
<1> HIDE DEF t
<1>5. Fits(t, Len(t), h2, h2, g)
  <2>1. Fits(fs, n, h, h2, g)
    OBVIOUS
  <2> HIDE DEF n
  <2>2. \A k \in 1..n : Same(t[k], h2, h2)
    BY DEF Same
  <2> QED
    BY <1>2, <2>1, <2>2, Zenon DEF Fits
<1>6. /\ Sound(Append(t, g), h2)
      /\ AllParams(Append(t, g), h2) = Append(AllParams(t, h2), ParamsOf(g, h2))
  BY <1>4, <1>5, PushFrame, SMTT(30)
<1>7. Append(t, g) = WithLast(fs, g)
  BY <1>1, ReplaceLast DEF t, WithLast
<1>8. P \in Seq(Seq(Strings)) /\ Len(P) = Len(fs) /\ P # <<>>
  BY <1>1, ParamsType
<1>9. ParamsOf(g, h2) \in Seq(Strings)
  <2>1. AllParams(Append(t, g), h2) \in Seq(Seq(Strings))
    BY <1>6, ParamsType
  <2>2. Len(Append(t, g)) = n + 1 /\ Append(t, g)[n + 1] = g
    BY <1>1, <1>2, <1>4, AppendProperties DEF Sound
  <2>3. AllParams(Append(t, g), h2)[n + 1] = ParamsOf(g, h2)
    BY <1>1, <2>2 DEF AllParams
  <2>4. Len(AllParams(Append(t, g), h2)) = n + 1
    BY <1>6, <2>2, ParamsType
  <2> QED
    BY <1>1, <2>1, <2>3, <2>4, ElementOfSeq
<1>10. Append(SubSeq(P, 1, Len(P) - 1), ParamsOf(g, h2)) = WithLast(P, ParamsOf(g, h2))
  BY <1>8, <1>9, ReplaceLast DEF WithLast
<1> QED
  BY <1>4, <1>6, <1>7, <1>8, <1>10

-----------------------------------------------------------------------------
(* Words of a call and of set. *)
LEMMA OperandsType ==
    ASSUME NEW ws \in Operands
    PROVE  /\ ws \in Seq(Words) /\ Len(ws) \in 0..MaxOperands
           /\ ws = [i \in 1..Len(ws) |-> ws[i]]
           /\ \A i \in 1..Len(ws) : ws[i] \in LiveStrings
<1>1. PICK k \in 0..MaxOperands : ws \in [1..k -> Words]
  BY DEF Operands
<1>2. k \in Nat
  BY <1>1, BoundsAssumption
<1>3. ws \in Seq(Words) /\ Len(ws) = k
  BY <1>1, <1>2
<1>4. \A i \in 1..Len(ws) : ws[i] \in LiveStrings
  BY <1>1, <1>3 DEF LiveStrings
<1> QED
  BY <1>1, <1>3, <1>4

(* A block that is not in use is in no frame. *)
LEMMA FreshApart ==
    ASSUME NEW fs, NEW h, Sound(fs, h), NEW k \in 1..Len(fs), NEW ps,
           \A i \in 1..Len(ps) : h[ps[i]] = Freed
    PROVE  Apart(fs[k], ps)
<1>1. \A x \in 1..Len(fs[k]) : h[fs[k][x]] \in LiveStrings
  BY Zenon DEF Sound, Live
<1>2. \A x \in 1..Len(fs[k]) : h[fs[k][x]] # Freed
  BY <1>1, LiveIsLive
<1> QED
  BY <1>2, Zenon DEF Apart

(* Storing strings in such blocks changes no frame's strings. *)
LEMMA StoredSame ==
    ASSUME NEW fs, NEW h, Sound(fs, h), NEW k \in 1..Len(fs),
           NEW ps, NEW strings, DOMAIN ps = 1..Len(ps), Apart(fs[k], ps)
    PROVE  Same(fs[k], h, Stored(h, ps, strings))
<1>1. \A x \in 1..Len(fs[k]) : fs[k][x] \in Heap
  BY ElementOfSeq DEF Sound
<1>2. \A x \in 1..Len(fs[k]) : ~\E i \in DOMAIN ps : ps[i] = fs[k][x]
  BY Zenon DEF Apart
<1> QED
  BY <1>1, <1>2, Zenon DEF Same, Stored

(* The parameters of an array with a name in front. *)
LEMMA ParamsBehindName ==
    ASSUME NEW g \in Seq(Heap), NEW h, NEW ws \in Seq(Words), Len(g) = Len(ws) + 1,
           \A i \in 1..Len(ws) : h[g[i + 1]] = ws[i]
    PROVE  ParamsOf(g, h) = ws
<1>1. Len(ws) \in Nat /\ g # <<>> /\ Len(g) - 1 = Len(ws)
  OBVIOUS
<1>2. ws = [i \in 1..Len(ws) |-> ws[i]]
  OBVIOUS
<1>3. ParamsOf(g, h) = [i \in 1..Len(ws) |-> h[g[i + 1]]]
  BY <1>1 DEF ParamsOf
<1> QED
  BY <1>2, <1>3

(* A call builds a frame of its own, whose parameters are the operands. *)
LEMMA CallFits ==
    ASSUME Sound(frames, heap), NEW ws \in Operands, push_frame(ws)
    PROVE  LET ps == Malloc(heap, Len(ws) + 1)
           IN  /\ Fits(frames, Len(frames), heap, heap', ps)
               /\ ParamsOf(ps, heap') = ws
               /\ frames' = Append(frames, ps)
<1> DEFINE k == Len(ws) + 1
           ps == Malloc(heap, k)
           strings == <<Name>> \o ws
<1>1. ws \in Seq(Words) /\ Len(ws) \in Nat /\ k \in Nat /\ k \in 1..(MaxOperands + 1)
  BY OperandsType, BoundsAssumption
<1>2. HasRoom(heap, k) /\ heap' = Stored(heap, ps, strings) /\ frames' = Append(frames, ps)
  BY DEF push_frame
<1>3. /\ ps \in Seq(Heap) /\ Len(ps) = k /\ DOMAIN ps = 1..k /\ Distinct(ps)
      /\ \A i \in 1..k : ps[i] \in Heap /\ heap[ps[i]] = Freed
  BY <1>1, <1>2, MallocGives
<1>4. /\ strings[1] = Name
      /\ \A i \in 1..Len(ws) : strings[i + 1] = ws[i]
      /\ \A i \in 1..k : i = 1 \/ (i - 1 \in 1..Len(ws) /\ strings[i] = ws[i - 1])
  BY <1>1
<1>5. \A i \in 1..k : strings[i] \in LiveStrings
  BY <1>4, OperandsType DEF LiveStrings
<1> HIDE DEF k, ps, strings
<1>6. heap \in [Heap -> Strings]
  BY DEF Sound
<1>7. /\ heap' \in [Heap -> Strings]
      /\ \A i \in 1..k : heap'[ps[i]] = strings[i]
  <2>1. strings \in Seq(Strings) /\ Len(strings) = Len(ps)
    BY <1>1, <1>3 DEF strings, Strings, k
  <2>2. /\ Stored(heap, ps, strings) \in [Heap -> Strings]
        /\ \A i \in 1..Len(ps) : Stored(heap, ps, strings)[ps[i]] = strings[i]
    BY <1>3, <1>6, <2>1, StoredHolds
  <2> QED
    BY <1>2, <1>3, <2>2
<1>8. Live(ps, heap')
  BY <1>3, <1>5, <1>7 DEF Live
<1>9. \A l \in 1..Len(frames) : Apart(frames[l], ps)
  BY <1>3, FreshApart
<1>10. \A l \in 1..Len(frames) : Same(frames[l], heap, heap')
  BY <1>2, <1>3, <1>9, StoredSame
<1>11. Fits(frames, Len(frames), heap, heap', ps)
  BY <1>1, <1>3, <1>7, <1>8, <1>9, <1>10, Zenon DEF Fits
<1>12. ParamsOf(ps, heap') = ws
  <2>1. \A i \in 1..Len(ws) : i + 1 \in 1..k
    BY <1>1 DEF k
  <2>2. \A i \in 1..Len(ws) : heap'[ps[i + 1]] = ws[i]
    BY <1>4, <1>7, <2>1
  <2> QED
    BY <1>1, <1>3, <2>2, ParamsBehindName DEF k
<1> QED
  BY <1>2, <1>11, <1>12 DEF ps, k

(* free keeps the heap's type and touches only the blocks it is given. *)
LEMMA FreeHeap ==
    ASSUME NEW h \in [Heap -> Strings], NEW ps
    PROVE  /\ Free(h, ps) \in [Heap -> Strings] /\ Leak(h, ps) \in [Heap -> Strings]
           /\ \A p \in Heap \ ps : Free(h, ps)[p] = h[p] /\ Leak(h, ps)[p] = h[p]
           /\ \A p \in Heap : p \in ps => Free(h, ps)[p] = Freed
<1>1. Freed \in Strings /\ Leaked \in Strings
  BY DEF Strings
<1> QED
  BY <1>1 DEF Free, Leak

(* The strings of one frame are not those of another. *)
LEMMA NotOwned ==
    ASSUME NEW argv \in Seq(Heap), NEW g, Apart(argv, g)
    PROVE  \A x \in 1..Len(argv) : argv[x] \in Heap \ Owned(g)
<1>1. \A x \in 1..Len(argv) : argv[x] \in Heap
  BY ElementOfSeq
<1> QED
  BY <1>1, Zenon DEF Apart, Owned

(* set builds the new array from blocks the old one does not own: its name *)
(* is duplicated before the old array is freed, and the words after.       *)
LEMMA SetFits ==
    ASSUME Sound(frames, heap), Len(frames) > 1, HasRoom(heap, 1), NEW ws \in Operands
    PROVE  LET argv_0 == Malloc(heap, 1)
               freed == Free(Stored(heap, argv_0, <<heap[Frame[1]]>>), Owned(Frame))
               ps == Malloc(freed, Len(ws))
           IN  HasRoom(freed, Len(ws)) =>
                   /\ Fits(frames, Len(frames) - 1, heap, Stored(freed, ps, ws), argv_0 \o ps)
                   /\ ParamsOf(argv_0 \o ps, Stored(freed, ps, ws)) = ws
<1> DEFINE n == Len(frames)
           k == Len(ws)
           argv_0 == Malloc(heap, 1)
           h1 == Stored(heap, argv_0, <<heap[Frame[1]]>>)
           freed == Free(h1, Owned(Frame))
           ps == Malloc(freed, k)
           h2 == Stored(freed, ps, ws)
           g == argv_0 \o ps
<1> SUFFICES ASSUME HasRoom(freed, k)
             PROVE  /\ Fits(frames, n - 1, heap, h2, g)
                    /\ ParamsOf(g, h2) = ws
  OBVIOUS
<1>1. n \in Nat /\ n > 1 /\ Frame = frames[n] /\ n \in 2..n /\ n \in 1..n
  BY DEF Sound, Frame, Depth
<1>2. ws \in Seq(Words) /\ k \in Nat /\ k + 1 \in 1..(MaxOperands + 1)
  BY OperandsType, BoundsAssumption
<1>3. /\ argv_0 \in Seq(Heap) /\ Len(argv_0) = 1 /\ DOMAIN argv_0 = 1..1
      /\ Distinct(argv_0) /\ argv_0[1] \in Heap /\ heap[argv_0[1]] = Freed
      /\ \A i \in 1..1 : heap[argv_0[i]] = Freed
  BY MallocGives
<1>4. /\ ps \in Seq(Heap) /\ Len(ps) = k /\ DOMAIN ps = 1..k /\ Distinct(ps)
      /\ \A i \in 1..k : ps[i] \in Heap /\ freed[ps[i]] = Freed
  BY <1>2, MallocGives
<1> HIDE DEF n, k, argv_0, h1, freed, ps, h2, g
<1>5. heap \in [Heap -> Strings] /\ Frame \in Seq(Heap) /\ Live(Frame, heap)
      /\ Len(Frame) \in 1..(MaxOperands + 1)
  BY <1>1, ElementOfSeq DEF Sound, n
<1>6. heap[Frame[1]] \in LiveStrings
  BY <1>5, BoundsAssumption DEF Live
<1>7. \A l \in 1..n : Apart(frames[l], argv_0)
  BY <1>3, FreshApart DEF n
<1>8. /\ h1 \in [Heap -> Strings] /\ h1[argv_0[1]] = heap[Frame[1]]
  <2> DEFINE name == <<heap[Frame[1]]>>
  <2>1. name[1] = heap[Frame[1]]
    OBVIOUS
  <2>2. name \in Seq(Strings) /\ Len(name) = Len(argv_0)
    BY <1>3, <1>6, LiveIsLive
  <2> HIDE DEF name
  <2>3. /\ Stored(heap, argv_0, name) \in [Heap -> Strings]
        /\ \A i \in 1..Len(argv_0) : Stored(heap, argv_0, name)[argv_0[i]] = name[i]
    BY <1>3, <1>5, <2>2, StoredHolds
  <2>4. 1 \in 1..Len(argv_0)
    BY <1>3
  <2> QED
    BY <2>1, <2>3, <2>4, Zenon DEF h1, name
<1>9. \A l \in 1..n : Same(frames[l], heap, h1)
  BY <1>3, <1>7, StoredSame DEF n, h1
<1>10. \A l \in 1..(n - 1) : l \in 1..n /\ l # n /\ frames[l] \in Seq(Heap)
  BY <1>1, ElementOfSeq DEF Sound, n
<1>11. freed \in [Heap -> Strings]
       /\ \A p \in Heap \ Owned(Frame) : freed[p] = h1[p]
  BY <1>8, FreeHeap DEF freed
<1>12. ASSUME NEW l \in 1..(n - 1)
       PROVE  Same(frames[l], heap, freed)
  <2>1. Apart(frames[l], Frame)
    BY <1>1, <1>10, Zenon DEF Sound, n
  <2>2. \A x \in 1..Len(frames[l]) : frames[l][x] \in Heap \ Owned(Frame)
    BY <1>10, <2>1, NotOwned
  <2> QED
    BY <1>9, <1>10, <1>11, <2>2 DEF Same
<1>13. argv_0[1] \in Heap \ Owned(Frame)
  <2>1. \A y \in 1..Len(Frame) : Frame[y] # argv_0[1]
    BY <1>1, <1>3, <1>7 DEF Apart
  <2> QED
    BY <1>3, <2>1 DEF Owned
<1>14. freed[argv_0[1]] \in LiveStrings
  BY <1>6, <1>8, <1>11, <1>13
<1>15. \A i \in 1..k : ps[i] # argv_0[1]
  BY <1>4, <1>14, LiveIsLive
<1>16. /\ h2 \in [Heap -> Strings]
       /\ \A i \in 1..k : h2[ps[i]] = ws[i]
       /\ \A p \in Heap : (\A i \in 1..k : ps[i] # p) => h2[p] = freed[p]
  <2>1. ws \in Seq(Strings) /\ Len(ws) = Len(ps)
    BY <1>2, <1>4, SeqMonotonic DEF k, Strings
  <2>2. /\ h2 \in [Heap -> Strings]
        /\ \A i \in 1..Len(ps) : h2[ps[i]] = ws[i]
        /\ \A p \in Heap : (\A i \in 1..Len(ps) : ps[i] # p) => h2[p] = freed[p]
    BY <1>4, <1>11, <2>1, StoredHolds DEF h2
  <2> QED
    BY <1>4, <2>2
<1>17. h2[argv_0[1]] \in LiveStrings
  BY <1>3, <1>14, <1>15, <1>16
<1>18. /\ g \in Seq(Heap) /\ Len(g) = k + 1 /\ g[1] = argv_0[1]
       /\ \A i \in 1..k : g[i + 1] = ps[i]
       /\ \A y \in 1..(k + 1) : y = 1 \/ (y - 1 \in 1..k /\ g[y] = ps[y - 1])
  <2>1. /\ g \in Seq(Heap) /\ Len(g) = 1 + k
        /\ \A i \in 1..(1 + k) : g[i] = IF i <= 1 THEN argv_0[i] ELSE ps[i - 1]
    <3>1. /\ g \in Seq(Heap) /\ Len(g) = Len(argv_0) + Len(ps)
          /\ \A i \in 1..(Len(argv_0) + Len(ps)) :
                g[i] = IF i <= Len(argv_0) THEN argv_0[i] ELSE ps[i - Len(argv_0)]
      BY <1>3, <1>4, ConcatProperties, Zenon DEF g
    <3> QED
      BY <1>3, <1>4, <3>1
  <2> QED
    BY <1>2, <2>1
<1>19. Live(g, h2)
  <2>1. \A i \in 1..k : h2[ps[i]] \in LiveStrings
    BY <1>16, OperandsType DEF k
  <2> QED
    BY <1>17, <1>18, <2>1 DEF Live
<1>20. Distinct(g)
  <2>1. DOMAIN g = 1..(k + 1)
    BY <1>18, LenProperties
  <2>2. \A i, j \in 1..k : i # j => ps[i] # ps[j]
    BY <1>4, Zenon DEF Distinct
  <2>3. ASSUME NEW i \in 1..(k + 1), NEW j \in 1..(k + 1), i # j
        PROVE  g[i] # g[j]
    BY <1>15, <1>18, <2>2, <2>3
  <2> QED
    BY <2>1, <2>3 DEF Distinct
<1>21. ASSUME NEW l \in 1..(n - 1)
       PROVE  Same(frames[l], heap, h2) /\ Apart(frames[l], g)
  <2>1. Live(frames[l], heap)
    BY <1>10, Zenon DEF Sound, n
  <2>2. Live(frames[l], freed)
    BY <1>10, <1>12, <2>1, SameStrings
  <2>3. Apart(frames[l], ps)
    BY <1>4, <2>2, LiveIsLive DEF Live, Apart
  <2>4. \A x \in 1..Len(frames[l]) : frames[l][x] \in Heap
    BY <1>10, ElementOfSeq
  <2>5. \A x \in 1..Len(frames[l]) : h2[frames[l][x]] = freed[frames[l][x]]
    BY <1>4, <1>16, <2>3, <2>4 DEF Apart
  <2>6. Same(frames[l], heap, h2)
    BY <1>12, <2>5 DEF Same
  <2>7. Apart(frames[l], g)
    BY <1>3, <1>4, <1>7, <1>10, <1>18, <2>3 DEF Apart
  <2> QED
    BY <2>6, <2>7
<1>22. Fits(frames, n - 1, heap, h2, g)
  BY <1>2, <1>16, <1>18, <1>19, <1>20, <1>21, Zenon DEF Fits
<1>23. ParamsOf(g, h2) = ws
  <2>1. \A i \in 1..Len(ws) : h2[g[i + 1]] = ws[i]
    BY <1>16, <1>18 DEF k
  <2> QED
    BY <1>2, <1>18, <2>1, ParamsBehindName, SMTT(30) DEF k
<1> QED
  BY <1>22, <1>23

(* shift by one, and by the number of parameters, keeps the name, moves    *)
(* the rest to the front and frees nothing.                                *)
LEMMA ShiftedIs ==
    ASSUME NEW n \in Int, argc \in Nat, n > 0, n <= argc - 1, ~(1 < n /\ n < argc - 1)
    PROVE  /\ DOMAIN Shifted(n) = 1..(argc - n) /\ argc - n \in Nat \ {0}
           /\ Shifted(n) = [x \in 1..(argc - n) |-> Shifted(n)[x]]
           /\ Shifted(n)[1] = Frame[1]
           /\ \A x \in 2..(argc - n) : Shifted(n)[x] = Frame[x + n]
           /\ Dropped(n) = {}
<1>1. \A x \in 1..(argc - n) : x - 1 \in Turns(n) /\ Moves(n, x - 1) <=> x > 1
  BY DEF Turns, Moves
<1>2. Dropped(n) = {}
  BY DEF Dropped, Turns, Moves
<1> HIDE DEF argc
<1>3. /\ DOMAIN Shifted(n) = 1..(argc - n)
      /\ Shifted(n) = [x \in 1..(argc - n) |-> Shifted(n)[x]]
      /\ \A x \in 1..(argc - n) : Shifted(n)[x] = IF x > 1 THEN Frame[x + n] ELSE Frame[x]
  BY <1>1 DEF Shifted, Remaining
<1> QED
  BY <1>2, <1>3

(* After such a shift the frame holds some of the strings it held, each    *)
(* once and untouched, and the parameters are those behind the first n.    *)
LEMMA ShiftFits ==
    ASSUME Sound(frames, heap), NEW n \in Int, n > 0, n <= argc - 1,
           ~(1 < n /\ n < argc - 1)
    PROVE  LET h2 == Free(Leak(heap, Owned(Frame) \ Owned(Shifted(n))), Dropped(n))
               P == ParamsOf(Frame, heap)
           IN  /\ Len(frames) > 1
               /\ Fits(frames, Len(frames) - 1, heap, h2, Shifted(n))
               /\ Len(P) = argc - 1 /\ n \in 0..Len(P)
               /\ ParamsOf(Shifted(n), h2) = SubSeq(P, n + 1, Len(P))
<1> DEFINE d == Len(frames)
           g == Shifted(n)
           h1 == Leak(heap, Owned(Frame) \ Owned(g))
           h2 == Free(h1, Dropped(n))
           P == ParamsOf(Frame, heap)
<1>1. d \in Nat \ {0} /\ Frame = frames[d] /\ Frame \in Seq(Heap) /\ argc \in Nat /\ argc = Len(Frame)
  BY ElementOfSeq DEF Sound, Frame, Depth, argc
<1>2. d > 1
  <2>1. argc # 0
    BY <1>1
  <2>2. d # 1
    BY <1>1, <2>1 DEF Sound
  <2>3. d \in Nat \ {0}
    BY <1>1
  <2> HIDE DEF d
  <2> QED
    BY <2>2, <2>3
<1>3. /\ DOMAIN g = 1..(argc - n) /\ argc - n \in Nat \ {0}
      /\ g = [x \in 1..(argc - n) |-> g[x]]
      /\ g[1] = Frame[1]
      /\ \A x \in 2..(argc - n) : g[x] = Frame[x + n]
      /\ Dropped(n) = {}
  BY <1>1, ShiftedIs
<1>4. heap \in [Heap -> Strings] /\ Live(Frame, heap) /\ Distinct(Frame)
      /\ argc \in 1..(MaxOperands + 1)
  BY <1>1, <1>2 DEF Sound
<1>5. \A x \in 1..argc : Frame[x] \in Heap /\ heap[Frame[x]] \in LiveStrings
  BY <1>1, <1>4, ElementOfSeq DEF Live
<1>6. \A x, y \in 1..argc : x # y => Frame[x] # Frame[y]
  BY <1>1, <1>4, LenProperties DEF Distinct
<1> HIDE DEF d, g, h1, h2, P
<1>7. \A x \in 1..(argc - n) : /\ x = 1 => g[x] = Frame[1]
                               /\ x # 1 => (x + n \in 1..argc /\ g[x] = Frame[x + n])
  <2>1. argc \in Nat /\ \A x \in 2..(argc - n) : g[x] = Frame[x + n]
    BY <1>1, <1>3
  <2>2. g[1] = Frame[1]
    BY <1>3
  <2>3. \A x \in 1..(argc - n) : x # 1 => x \in 2..(argc - n) /\ x + n \in 1..argc
    BY <2>1
  <2> QED
    BY <2>1, <2>2, <2>3, Zenon
<1>8. \A x \in 1..(argc - n) : \E y \in 1..argc : g[x] = Frame[y]
  <2>1. 1 \in 1..argc
    BY <1>1
  <2> QED
    BY <1>7, <2>1, Zenon
<1>9. g \in Seq(Heap) /\ Len(g) = argc - n
  <2>1. \A x \in 1..(argc - n) : g[x] \in Heap
    BY <1>5, <1>8
  <2>2. g \in [1..(argc - n) -> Heap]
    BY <1>3, <2>1
  <2> QED
    BY <1>3, <2>2
<1>10. h2 \in [Heap -> Strings]
       /\ \A p \in Heap : p \in Owned(g) \/ p \notin Owned(Frame) => h2[p] = heap[p]
  <2>1. h1 \in [Heap -> Strings]
        /\ \A p \in Heap \ (Owned(Frame) \ Owned(g)) : h1[p] = heap[p]
    BY <1>4, FreeHeap DEF h1
  <2>2. h2 \in [Heap -> Strings] /\ \A p \in Heap \ Dropped(n) : h2[p] = h1[p]
    BY <2>1, FreeHeap DEF h2
  <2> QED
    BY <1>3, <2>1, <2>2
<1>11. \A x \in 1..(argc - n) : h2[g[x]] = heap[g[x]]
  <2>1. \A x \in 1..(argc - n) : g[x] \in Heap /\ g[x] \in Owned(g)
    BY <1>9, ElementOfSeq DEF Owned
  <2> QED
    BY <1>10, <2>1
<1>12. Live(g, h2)
  <2>1. \A x \in 1..(argc - n) : heap[g[x]] \in LiveStrings
    BY <1>5, <1>8
  <2> QED
    BY <1>9, <1>11, <2>1 DEF Live
<1>13. Distinct(g)
  <2>1. ASSUME NEW x \in 1..(argc - n), NEW y \in 1..(argc - n), x # y
        PROVE  g[x] # g[y]
    <3>a. 1 \in 1..argc
      BY <1>1
    <3>1. CASE x = 1
      <4>1. y # 1 /\ y + n \in 1..argc /\ y + n # 1
        BY <1>7, <2>1, <3>1
      <4> QED
        BY <1>6, <1>7, <3>a, <3>1, <4>1
    <3>2. CASE y = 1
      <4>1. x # 1 /\ x + n \in 1..argc /\ x + n # 1
        BY <1>7, <2>1, <3>2
      <4> QED
        BY <1>6, <1>7, <3>a, <3>2, <4>1
    <3>3. CASE x # 1 /\ y # 1
      <4>1. x + n \in 1..argc /\ y + n \in 1..argc /\ x + n # y + n
        BY <1>7, <2>1, <3>3
      <4> QED
        BY <1>6, <1>7, <3>3, <4>1
    <3> QED
      BY <3>1, <3>2, <3>3
  <2> QED
    BY <1>3, <2>1 DEF Distinct
<1>14. ASSUME NEW l \in 1..(d - 1)
       PROVE  Same(frames[l], heap, h2) /\ Apart(frames[l], g)
  <2>1. l \in 1..d /\ d \in 1..d /\ l # d /\ frames[l] \in Seq(Heap)
    BY <1>1, ElementOfSeq DEF Sound, d
  <2>2. Apart(frames[l], Frame)
    BY <1>1, <2>1, Zenon DEF Sound, d
  <2>3. \A x \in 1..Len(frames[l]) : frames[l][x] \in Heap \ Owned(Frame)
    BY <2>1, <2>2, NotOwned
  <2>4. Same(frames[l], heap, h2)
    BY <1>10, <2>3 DEF Same
  <2>5. Apart(frames[l], g)
    BY <1>1, <1>8, <1>9, <2>2 DEF Apart
  <2> QED
    BY <2>4, <2>5
<1>15. Len(g) \in 1..(MaxOperands + 1)
  BY <1>3, <1>4, <1>9, BoundsAssumption
<1>16. Fits(frames, d - 1, heap, h2, g)
  BY <1>9, <1>10, <1>12, <1>13, <1>14, <1>15, Zenon DEF Fits
<1>17. P = [i \in 1..(argc - 1) |-> heap[Frame[i + 1]]] /\ P \in Seq(Strings) /\ Len(P) = argc - 1
  <2>1. Frame # <<>> /\ argc - 1 \in Nat
    BY <1>1
  <2>2. P = [i \in 1..(argc - 1) |-> heap[Frame[i + 1]]]
    BY <1>1, <2>1 DEF ParamsOf, P
  <2>3. \A i \in 1..(argc - 1) : heap[Frame[i + 1]] \in Strings
    <3>1. \A i \in 1..(argc - 1) : i + 1 \in 1..argc
      BY <1>1
    <3> QED
      BY <1>5, <3>1, LiveIsLive
  <2>4. P \in [1..(argc - 1) -> Strings]
    BY <2>2, <2>3
  <2>5. P \in Seq(Strings) /\ Len(P) = argc - 1
    BY <2>1, <2>4, FunctionIsSeq
  <2> QED
    BY <2>2, <2>5
<1>18. n \in 0..Len(P)
  BY <1>1, <1>17
<1>19. ParamsOf(g, h2) = SubSeq(P, n + 1, Len(P))
  <2>1. SubSeq(P, n + 1, Len(P)) = [i \in 1..(argc - 1 - n) |-> P[n + i]]
    <3>1. SubSeq(P, n + 1, Len(P)) = [i \in 1..(Len(P) - n) |-> P[n + i]]
      <4>1. P \in Seq(Strings)
        BY <1>17
      <4> QED
        BY <1>18, <4>1, Suffix
    <3> QED
      BY <1>17, <3>1
  <2>2. argc - 1 - n = argc - n - 1 /\ argc - n - 1 \in Nat /\ g # <<>>
    BY <1>1, <1>3, <1>9, SMTT(30)
  <2>3. ParamsOf(g, h2) = [i \in 1..(argc - n - 1) |-> h2[g[i + 1]]]
    BY <1>9, <2>2 DEF ParamsOf
  <2>4. ASSUME NEW i \in 1..(argc - n - 1)
        PROVE  h2[g[i + 1]] = P[n + i]
    <3>1. i + 1 \in 1..(argc - n) /\ i + 1 # 1 /\ n + i \in 1..(argc - 1)
      BY <1>1, <2>2
    <3>2. h2[g[i + 1]] = heap[Frame[i + 1 + n]]
      BY <1>7, <1>11, <3>1
    <3>3. P[n + i] = heap[Frame[n + i + 1]]
      BY <1>17, <3>1
    <3>4. i + 1 + n = n + i + 1
      BY <3>1
    <3> QED
      BY <3>2, <3>3, <3>4
  <2> QED
    BY <2>1, <2>2, <2>3, <2>4
<1> QED
  BY <1>2, <1>16, <1>17, <1>18, <1>19 DEF d, g, h1, h2, P

-----------------------------------------------------------------------------
FInv ==
    /\ Sound(frames, heap)
    /\ operands \in Seq(Words) /\ number \in ShiftNumbers \cup {0}
    /\ exit \in {-1, 1}

P == AllParams(frames, heap)

(* What the refinement mapping makes of frames and heap. *)
LEMMA MapsToP ==
    [k \in 1..Depth |-> Params(frames[k])] = P
BY DEF P, AllParams, ParamsOf, Params, Depth

(* The frame of the script itself has no array. *)
LEMMA FInvInit ==
    ASSUME Init
    PROVE  FInv /\ P = <<<<>>>>
<1>1. frames = <<<<>>>> /\ heap = [p \in Heap |-> Freed]
  BY DEF Init
<1>2. frames \in Seq(Seq(Heap)) /\ Len(frames) = 1 /\ frames[1] = <<>>
  BY <1>1
<1>3. heap \in [Heap -> Strings]
  BY <1>1 DEF Strings
<1>4. Live(<<>>, heap) /\ Distinct(<<>>)
  BY DEF Live, Distinct
<1>5. \A k \in 1..1 : k = 1
  OBVIOUS
<1>6. Sound(frames, heap)
  BY <1>2, <1>3, <1>4, <1>5 DEF Sound
<1>7. operands \in Seq(Words) /\ number \in ShiftNumbers \cup {0} /\ exit \in {-1, 1}
  BY DEF Init
<1>8. P = <<<<>>>>
  <2>1. P \in [1..1 -> {<<>>}]
    BY <1>2 DEF P, AllParams, ParamsOf
  <2> QED
    BY <2>1
<1> QED
  BY <1>6, <1>7, <1>8 DEF FInv

(* Each command keeps the invariant and does to the parameters what        *)
(* Positional says.                                                        *)
LEMMA CallStep ==
    ASSUME FInv, CallFunction
    PROVE  FInv' /\ P' = Append(P, operands') /\ number' = 0 /\ exit' = exit
<1>1. PICK ws \in Operands : push_frame(ws) /\ operands' = ws
  BY DEF CallFunction
<1>2. number' = 0 /\ exit' = exit
  BY DEF CallFunction
<1> DEFINE ps == Malloc(heap, Len(ws) + 1)
<1>3. /\ Fits(frames, Len(frames), heap, heap', ps)
      /\ ParamsOf(ps, heap') = ws
      /\ frames' = Append(frames, ps)
  BY <1>1, CallFits DEF FInv
<1> HIDE DEF ps
<1>4. /\ Sound(frames', heap')
      /\ AllParams(frames', heap') = Append(AllParams(frames, heap), ws)
  BY <1>3, PushFrame DEF FInv
<1>5. operands' \in Seq(Words)
  BY <1>1, OperandsType
<1> QED
  BY <1>1, <1>2, <1>4, <1>5 DEF FInv, P

(* A function returns: its frame and its array go. *)
LEMMA ReturnStep ==
    ASSUME FInv, pop_frame
    PROVE  /\ FInv' /\ Len(P) > 1 /\ P' = SubSeq(P, 1, Len(P) - 1)
           /\ operands' = <<>> /\ number' = 0 /\ exit' = exit
<1>1. Sound(frames, heap) /\ Len(frames) > 1 /\ Frame = frames[Len(frames)]
  BY DEF pop_frame, FInv, Depth, Frame
<1>2. /\ heap' = Free(heap, Owned(Frame))
      /\ frames' = SubSeq(frames, 1, Len(frames) - 1)
      /\ operands' = <<>> /\ number' = 0 /\ exit' = exit
  BY DEF pop_frame, Depth
<1>3. /\ heap' \in [Heap -> Strings]
      /\ \A p \in Heap \ Owned(Frame) : heap'[p] = heap[p]
  BY <1>1, <1>2, FreeHeap DEF Sound
<1>4. ASSUME NEW k \in 1..(Len(frames) - 1)
      PROVE  Same(frames[k], heap, heap')
  <2>1. Len(frames) \in Nat /\ frames[k] \in Seq(Heap)
    BY <1>1, ElementOfSeq DEF Sound
  <2>2. Len(frames) \in 1..Len(frames) /\ k \in 1..Len(frames) /\ k # Len(frames)
    BY <1>1, <2>1
  <2>3. Apart(frames[k], Frame)
    BY <1>1, <2>2, Zenon DEF Sound
  <2>4. \A x \in 1..Len(frames[k]) : frames[k][x] \in Heap \ Owned(Frame)
    BY <2>1, <2>3, NotOwned
  <2> QED
    BY <1>3, <2>4 DEF Same
<1>5. Sound(frames', heap') /\ P' = SubSeq(P, 1, Len(P) - 1)
  BY <1>1, <1>2, <1>3, <1>4, PopFrame DEF P
<1>6. Len(P) > 1
  BY <1>1, ParamsType DEF P
<1>7. operands' \in Seq(Words)
  BY <1>2
<1> QED
  BY <1>2, <1>5, <1>6, <1>7 DEF FInv

(* set -- puts another array in place of the last one. *)
LEMMA SetStep ==
    ASSUME FInv, builtin_set
    PROVE  FInv' /\ P' = [P EXCEPT ![Len(P)] = operands'] /\ number' = 0 /\ exit' = exit
<1> DEFINE argv_0 == Malloc(heap, 1)
           freed == Free(Stored(heap, argv_0, <<heap[Frame[1]]>>), Owned(Frame))
<1>1. PICK ws \in Operands :
         /\ HasRoom(freed, Len(ws))
         /\ heap' = Stored(freed, Malloc(freed, Len(ws)), ws)
         /\ frames' = [frames EXCEPT ![Depth] = argv_0 \o Malloc(freed, Len(ws))]
         /\ operands' = ws
  BY DEF builtin_set
<1> DEFINE ps == Malloc(freed, Len(ws))
<1>2. Frame # <<>> /\ HasRoom(heap, 1) /\ number' = 0 /\ exit' = exit
  BY DEF builtin_set
<1>3. Sound(frames, heap) /\ Len(frames) > 1 /\ Depth = Len(frames)
  BY <1>2 DEF FInv, Sound, Frame, Depth
<1>4. /\ Fits(frames, Len(frames) - 1, heap, heap', argv_0 \o ps)
      /\ ParamsOf(argv_0 \o ps, heap') = ws
  BY <1>1, <1>2, <1>3, SetFits
<1>5. frames' = [frames EXCEPT ![Len(frames)] = argv_0 \o ps]
  BY <1>1, <1>3
<1> HIDE DEF argv_0, ps
<1>6. Sound(frames', heap') /\ P' = WithLast(P, ws)
  <2>1. /\ Sound(WithLast(frames, argv_0 \o ps), heap')
        /\ AllParams(WithLast(frames, argv_0 \o ps), heap')
             = WithLast(P, ParamsOf(argv_0 \o ps, heap'))
    BY <1>3, <1>4, ReplaceFrame DEF P
  <2>2. frames' = WithLast(frames, argv_0 \o ps)
    BY <1>5 DEF WithLast
  <2> QED
    BY <1>4, <2>1, <2>2 DEF P
<1>7. Len(P) = Len(frames)
  BY <1>3, ParamsType DEF P
<1>8. operands' \in Seq(Words)
  BY <1>1, OperandsType
<1> QED
  BY <1>1, <1>2, <1>6, <1>7, <1>8 DEF FInv, WithLast

(* shift drops the first parameters; the rest moves down. *)
LEMMA ShiftStep ==
    ASSUME ShiftMiddle = FALSE, FInv, builtin_shift
    PROVE  /\ FInv' /\ number' \in 0..Len(P[Len(P)])
           /\ P' = [P EXCEPT ![Len(P)] = SubSeq(P[Len(P)], number' + 1, Len(P[Len(P)]))]
           /\ operands' = <<>> /\ exit' = exit
<1>1. PICK n \in ShiftNumbers :
         /\ n > 0 /\ n <= argc - 1
         /\ 1 < n /\ n < argc - 1 => ShiftMiddle
         /\ frames' = [frames EXCEPT ![Depth] = Shifted(n)]
         /\ heap' = Free(Leak(heap, Owned(Frame) \ Owned(Shifted(n))), Dropped(n))
         /\ number' = n
  BY DEF builtin_shift
<1>2. operands' = <<>> /\ exit' = exit
  BY DEF builtin_shift
<1>3. n \in Int /\ ~(1 < n /\ n < argc - 1)
  BY <1>1, ShiftAssumption
<1>4. Sound(frames, heap)
  BY DEF FInv
<1> DEFINE Q == ParamsOf(Frame, heap)
<1>5. /\ Len(frames) > 1
      /\ Fits(frames, Len(frames) - 1, heap, heap', Shifted(n))
      /\ Len(Q) = argc - 1 /\ n \in 0..Len(Q)
      /\ ParamsOf(Shifted(n), heap') = SubSeq(Q, n + 1, Len(Q))
  BY <1>1, <1>3, <1>4, ShiftFits
<1> HIDE DEF Q
<1>6. Sound(frames', heap') /\ P' = WithLast(P, SubSeq(Q, n + 1, Len(Q)))
  <2>1. /\ Sound(WithLast(frames, Shifted(n)), heap')
        /\ AllParams(WithLast(frames, Shifted(n)), heap')
             = WithLast(P, ParamsOf(Shifted(n), heap'))
    <3>1. Len(frames) > 1 /\ Fits(frames, Len(frames) - 1, heap, heap', Shifted(n))
      BY <1>5
    <3> QED
      BY <1>4, <3>1, ReplaceFrame DEF P
  <2>2. frames' = WithLast(frames, Shifted(n))
    BY <1>1 DEF WithLast, Depth
  <2> QED
    BY <1>5, <2>1, <2>2 DEF P
<1>7. Len(P) = Len(frames) /\ P[Len(P)] = Q
  <2>1. Len(P) = Len(frames)
    BY <1>4, ParamsType DEF P
  <2>2. Len(frames) \in Nat
    BY <1>4 DEF Sound
  <2> QED
    BY <1>5, <2>1, <2>2 DEF P, AllParams, Q, Frame, Depth
<1>8. operands' \in Seq(Words) /\ number' \in ShiftNumbers
  BY <1>1, <1>2
<1> QED
  BY <1>1, <1>2, <1>5, <1>6, <1>7, <1>8 DEF FInv, WithLast

(* shift by too many changes nothing. *)
LEMMA ShiftFailsStep ==
    ASSUME FInv, ShiftFails
    PROVE  /\ FInv' /\ number' \notin 0..Len(P[Len(P)])
           /\ P' = P /\ operands' = <<>> /\ exit' = 1
<1>1. PICK n \in ShiftNumbers : BadShift(n) /\ number' = n
  BY DEF ShiftFails
<1>2. exit' = 1 /\ operands' = <<>> /\ frames' = frames /\ heap' = heap
  BY DEF ShiftFails
<1>3. Sound(frames, heap) /\ Len(frames) \in Nat \ {0} /\ argc \in Nat /\ argc = Len(Frame)
      /\ Frame \in Seq(Heap)
  BY ElementOfSeq DEF FInv, Sound, argc, Frame, Depth
<1>4. Len(P) = Len(frames) /\ P[Len(P)] = ParamsOf(Frame, heap)
  <2>1. Len(P) = Len(frames)
    BY <1>3, ParamsType DEF P
  <2> QED
    BY <1>3, <2>1 DEF P, AllParams, Frame, Depth
<1>5. Len(ParamsOf(Frame, heap)) = IF argc = 0 THEN 0 ELSE argc - 1
  <2>1. CASE argc = 0
    BY <1>3, <2>1 DEF ParamsOf
  <2>2. CASE argc # 0
    <3>1. Frame # <<>> /\ argc - 1 \in Nat
      BY <1>3, <2>2
    <3>2. ParamsOf(Frame, heap) = [i \in 1..(argc - 1) |-> heap[Frame[i + 1]]]
      BY <1>3, <3>1 DEF ParamsOf
    <3> QED
      BY <2>2, <3>1, <3>2
  <2> QED
    BY <2>1, <2>2
<1>6. n \notin 0..Len(ParamsOf(Frame, heap))
  <2>1. n \in Int /\ (n < 0 \/ (n > 0 /\ n > argc - 1))
    BY <1>1, ShiftAssumption DEF BadShift
  <2> QED
    BY <1>3, <1>5, <2>1
<1> QED
  BY <1>1, <1>2, <1>4, <1>6 DEF FInv, P

-----------------------------------------------------------------------------
(* Every step of the arrays is a step of the parameters, or none. *)
LEMMA FrameStep ==
    ASSUME ShiftMiddle = FALSE, FInv, [Next]_vars
    PROVE  FInv' /\ [Abstract!Next]_(Abstract!vars)
<1> DEFINE M == [k \in 1..Depth |-> Params(frames[k])]
<1>1. M = P /\ M' = P'
  BY DEF P, AllParams, ParamsOf, Params, Depth
<1> HIDE DEF M
<1>2. CASE CallFunction
  <2>1. FInv' /\ P' = Append(P, operands') /\ number' = 0 /\ exit' = exit
    BY <1>2, CallStep
  <2>2. Abstract!Call
    BY <1>1, <2>1 DEF Abstract!Call, M
  <2> QED
    BY <2>1, <2>2 DEF Abstract!Next
<1>3. CASE pop_frame
  <2>1. /\ FInv' /\ Len(P) > 1 /\ P' = SubSeq(P, 1, Len(P) - 1)
        /\ operands' = <<>> /\ number' = 0 /\ exit' = exit
    BY <1>3, ReturnStep
  <2>2. Abstract!Return
    BY <1>1, <2>1 DEF Abstract!Return, Abstract!Last, M
  <2> QED
    BY <2>1, <2>2 DEF Abstract!Next
<1>4. CASE builtin_set
  <2>1. FInv' /\ P' = [P EXCEPT ![Len(P)] = operands'] /\ number' = 0 /\ exit' = exit
    BY <1>4, SetStep
  <2>2. Abstract!Set
    BY <1>1, <2>1 DEF Abstract!Set, Abstract!Last, M
  <2> QED
    BY <2>1, <2>2 DEF Abstract!Next
<1>5. CASE builtin_shift
  <2>1. /\ FInv' /\ number' \in 0..Len(P[Len(P)])
        /\ P' = [P EXCEPT ![Len(P)] = SubSeq(P[Len(P)], number' + 1, Len(P[Len(P)]))]
        /\ operands' = <<>> /\ exit' = exit
    BY <1>5, ShiftStep
  <2>2. Abstract!Shift
    BY <1>1, <2>1 DEF Abstract!Shift, Abstract!Last, M
  <2> QED
    BY <2>1, <2>2 DEF Abstract!Next
<1>6. CASE ShiftFails
  <2>1. /\ FInv' /\ number' \notin 0..Len(P[Len(P)])
        /\ P' = P /\ operands' = <<>> /\ exit' = 1
    BY <1>6, ShiftFailsStep
  <2>2. Abstract!ShiftFails
    BY <1>1, <2>1 DEF Abstract!ShiftFails, Abstract!Last, M
  <2> QED
    BY <2>1, <2>2 DEF Abstract!Next
<1>7. CASE UNCHANGED vars
  <2>1. FInv'
    BY <1>7 DEF vars, FInv
  <2>2. UNCHANGED Abstract!vars
    BY <1>1, <1>7 DEF vars, Abstract!vars, M, P
  <2> QED
    BY <2>1, <2>2
<1> QED
  BY <1>2, <1>3, <1>4, <1>5, <1>6, <1>7 DEF Next

(* The invariant says what LiveArgs does. *)
LEMMA FInvLive ==
    ASSUME FInv
    PROVE  TypeOK /\ LiveArgs
<1>1. Sound(frames, heap)
  BY DEF FInv
<1>2. TypeOK
  BY DEF FInv, Sound, TypeOK, Depth, Strings
<1>3. ASSUME NEW k \in 1..Depth, NEW l \in 1..Depth,
             NEW x \in 1..Len(frames[k]), NEW y \in 1..Len(frames[l])
      PROVE  /\ heap[frames[k][x]] \notin {Freed, Leaked}
             /\ (k # l \/ x # y) => frames[k][x] # frames[l][y]
  <2>1. Live(frames[k], heap) /\ Distinct(frames[k]) /\ (k # l => Apart(frames[k], frames[l]))
        /\ frames[k] \in Seq(Heap)
    BY <1>1, ElementOfSeq DEF Sound, Depth
  <2>2. heap[frames[k][x]] \notin {Freed, Leaked}
    BY <2>1, LiveIsLive DEF Live
  <2>3. CASE k # l
    BY <2>1, <2>2, <2>3 DEF Apart
  <2>4. CASE k = l
    BY <2>1, <2>2, <2>4, LenProperties DEF Distinct
  <2> QED
    BY <2>3, <2>4
<1>4. LiveArgs
  BY <1>3 DEF LiveArgs
<1> QED
  BY <1>2, <1>4

(* LiveArgs for the arrays alone: no frame ever holds a string that was    *)
(* freed or leaked, and no string is in two places, whatever calls,        *)
(* returns, set and shift by one or by all a script makes.                 *)
THEOREM FramesLive ==
    ASSUME ShiftMiddle = FALSE
    PROVE  Spec => [](TypeOK /\ LiveArgs)
<1>1. Init => FInv
  BY FInvInit
<1>2. FInv /\ [Next]_vars => FInv'
  BY FrameStep
<1>3. FInv => TypeOK /\ LiveArgs
  BY FInvLive
<1> QED
  BY <1>1, <1>2, <1>3, PTL DEF Spec

(* PositionalParameters: the arrays implement the positional parameters.   *)
THEOREM FramesImplementPositional ==
    ASSUME ShiftMiddle = FALSE
    PROVE  Spec => PositionalParameters
<1>1. Init => FInv /\ Abstract!Init
  <2> SUFFICES ASSUME Init PROVE FInv /\ Abstract!Init
    OBVIOUS
  <2>1. FInv /\ P = <<<<>>>>
    BY FInvInit
  <2> QED
    BY <2>1, MapsToP DEF Init, Abstract!Init
<1>2. FInv /\ [Next]_vars => FInv' /\ [Abstract!Next]_(Abstract!vars)
  BY FrameStep
<1> QED
  BY <1>1, <1>2, PTL DEF Spec, PositionalParameters, Abstract!Spec

-----------------------------------------------------------------------------
(* getopts scans the array of the last frame and leaves it alone.  OPTIND  *)
(* moves on only while it is below argc, or by two when argc says there is *)
(* a next word.                                                            *)

GInv ==
    /\ FInv
    /\ OPTIND \in 1..(MaxOperands + 1) /\ optpos \in Nat \ {0}
    /\ silent \in BOOLEAN /\ loop \in BOOLEAN

(* argc never exceeds the operands and the name. *)
LEMMA ArgcBound ==
    ASSUME FInv
    PROVE  argc \in 0..(MaxOperands + 1)
<1>1. Sound(frames, heap) /\ Len(frames) \in Nat \ {0}
  BY DEF FInv, Sound
<1>2. CASE Len(frames) = 1
  BY <1>1, <1>2, BoundsAssumption DEF Sound, argc, Frame, Depth
<1>3. CASE Len(frames) # 1
  BY <1>1, <1>3, BoundsAssumption DEF Sound, argc, Frame, Depth
<1> QED
  BY <1>2, <1>3

(* OPTIND is 1 when the script starts. *)
LEMMA GInvInit == GInit => GInv
<1> SUFFICES ASSUME GInit PROVE GInv
  OBVIOUS
<1>1. FInv
  BY FInvInit DEF GInit
<1>2. OPTIND = 1 /\ optpos = 1 /\ silent = FALSE /\ loop = FALSE
  BY DEF GInit
<1>3. 1 \in 1..(MaxOperands + 1) /\ 1 \in Nat \ {0}
  BY BoundsAssumption
<1> QED
  BY <1>1, <1>2, <1>3, Zenon DEF GInv

(* One call of getopts: OPTIND stays within the array. *)
LEMMA OptindStep ==
    ASSUME GInv, Getopts
    PROVE  /\ OPTIND' \in 1..(MaxOperands + 1) /\ optpos' \in Nat \ {0}
           /\ loop' \in BOOLEAN /\ UNCHANGED <<vars, silent>>
<1>1. argc \in 0..(MaxOperands + 1) /\ OPTIND \in 1..(MaxOperands + 1)
      /\ loop \in BOOLEAN /\ MaxOperands \in Nat
  BY ArgcBound, BoundsAssumption DEF GInv
<1>2. CASE GetoptsEnd
  <2>1. OPTIND' = NextIndex /\ optpos' = Pos /\ loop' = FALSE /\ UNCHANGED <<vars, silent>>
    BY <1>2 DEF GetoptsEnd
  <2>2. NextIndex \in 1..(MaxOperands + 1)
    BY <1>1 DEF NextIndex
  <2>3. Pos \in Nat \ {0}
    BY DEF Pos
  <2> QED
    BY <2>1, <2>2, <2>3, Zenon
<1>3. CASE GetoptsOption
  <2>1. OPTIND < argc
    BY <1>1, <1>3 DEF GetoptsOption, EndOfOptions
  <2>2. AfterFlag.ind \in 1..(MaxOperands + 1) /\ AfterFlag.pos \in Nat \ {0}
    BY <1>1, <2>1 DEF AfterFlag, Pos
  <2>3. Rest(Word(OPTIND), Pos) # <<>> \/ OPTIND + 2 <= argc
           => AfterArgument \in 1..(MaxOperands + 1)
    BY <1>1, <2>1 DEF AfterArgument
  <2>4. /\ \/ OPTIND' = AfterFlag.ind /\ optpos' = AfterFlag.pos
           \/ /\ Rest(Word(OPTIND), Pos) # <<>> \/ OPTIND + 2 <= argc
              /\ OPTIND' = AfterArgument /\ optpos' = Pos
        /\ UNCHANGED <<vars, silent, loop>>
    BY <1>3, Zenon DEF GetoptsOption
  <2> QED
    BY <1>1, <2>2, <2>3, <2>4 DEF Pos
<1>4. CASE GetoptsError
  BY <1>1, <1>4, OptionsAssumption DEF GetoptsError, Pos
<1> QED
  BY <1>2, <1>3, <1>4 DEF Getopts

(* Every step; what is no getopts is a step of the frames. *)
LEMMA GStep ==
    ASSUME ShiftMiddle = FALSE, GInv, [GNext]_<<vars, gvars>>
    PROVE  GInv' /\ [Next]_vars
<1>1. CASE Commands
  <2>1. Next /\ silent' = FALSE /\ UNCHANGED <<OPTIND, optpos, loop>>
    BY <1>1 DEF Commands
  <2>2. FInv'
    BY <2>1, FrameStep DEF GInv
  <2> QED
    BY <2>1, <2>2, Zenon DEF GInv
<1>2. CASE StartLoop
  <2>1. /\ silent' \in BOOLEAN /\ OPTIND' = 1 /\ loop' = TRUE /\ optpos' = optpos
        /\ UNCHANGED vars
    BY <1>2 DEF StartLoop
  <2>2. FInv'
    BY <2>1, FrameStep DEF GInv
  <2>3. 1 \in 1..(MaxOperands + 1)
    BY BoundsAssumption
  <2> QED
    BY <2>1, <2>2, <2>3, Zenon DEF GInv
<1>3. CASE Getopts
  <2>1. /\ OPTIND' \in 1..(MaxOperands + 1) /\ optpos' \in Nat \ {0}
        /\ loop' \in BOOLEAN /\ UNCHANGED <<vars, silent>>
    BY <1>3, OptindStep
  <2>2. FInv'
    BY <2>1, FrameStep DEF GInv
  <2> QED
    BY <2>1, <2>2 DEF GInv
<1>4. CASE UNCHANGED <<vars, gvars>>
  <2>1. FInv'
    BY <1>4, FrameStep DEF GInv
  <2> QED
    BY <1>4, <2>1 DEF GInv, gvars
<1> QED
  BY <1>1, <1>2, <1>3, <1>4 DEF GNext

(* GTypeOK: with getopts running over them, OPTIND stays within the        *)
(* parameters a frame can have, just behind the last one at most.          *)
THEOREM GetoptsTypeCorrect ==
    ASSUME ShiftMiddle = FALSE
    PROVE  GSpec => []GTypeOK
<1>1. GInit => GInv
  BY GInvInit
<1>2. GInv /\ [GNext]_<<vars, gvars>> => GInv'
  BY GStep
<1>3. GInv => GTypeOK
  BY FInvLive DEF GInv, GTypeOK
<1> QED
  BY <1>1, <1>2, <1>3, PTL DEF GSpec

(* LiveArgs, of commands and getopts together: what $1 and getopts read is *)
(* a live string, and call_frame_destroy frees each string once.           *)
THEOREM GetoptsLive ==
    ASSUME ShiftMiddle = FALSE
    PROVE  GSpec => []LiveArgs
<1>1. GInit => GInv
  BY GInvInit
<1>2. GInv /\ [GNext]_<<vars, gvars>> => GInv'
  BY GStep
<1>3. GInv => LiveArgs
  BY FInvLive DEF GInv
<1> QED
  BY <1>1, <1>2, <1>3, PTL DEF GSpec

(* PositionalParameters, of commands and getopts together: getopts does    *)
(* nothing to the parameters, and each other command what Positional says. *)
THEOREM GetoptsImplementsPositional ==
    ASSUME ShiftMiddle = FALSE
    PROVE  GSpec => PositionalParameters
<1>1. GInit => GInv
  BY GInvInit
<1>2. GInv /\ [GNext]_<<vars, gvars>> => GInv' /\ [Next]_vars
  BY GStep
<1>3. GInit => Init
  BY DEF GInit
<1>4. GSpec => Spec
  BY <1>1, <1>2, <1>3, PTL DEF GSpec, Spec
<1> QED
  BY <1>4, FramesImplementPositional

-----------------------------------------------------------------------------
(* What the parameters are: words.  Each step does to them what Positional *)
(* says, and puts operands there or takes words away.                      *)

WordsInv == P \in Seq(Seq(Words)) /\ Len(P) >= 1

(* The parameters stay words. *)
LEMMA WordsStep ==
    ASSUME ShiftMiddle = FALSE, FInv, WordsInv, [Next]_vars
    PROVE  WordsInv'
<1> DEFINE n == Len(P)
<1>1. P \in Seq(Seq(Words)) /\ n \in Nat \ {0} /\ P[n] \in Seq(Words)
  BY DEF WordsInv
<1> HIDE DEF n
<1>2. ASSUME FInv' PROVE operands' \in Seq(Words)
  BY <1>2 DEF FInv
<1>3. CASE CallFunction
  <2>1. FInv' /\ P' = Append(P, operands')
    BY <1>3, CallStep
  <2> QED
    BY <1>1, <1>2, <2>1 DEF WordsInv, n
<1>4. CASE pop_frame
  <2>1. n > 1 /\ P' = SubSeq(P, 1, n - 1)
    BY <1>4, ReturnStep DEF n
  <2>2. SubSeq(P, 1, n - 1) \in Seq(Seq(Words)) /\ Len(SubSeq(P, 1, n - 1)) = n - 1
    BY <1>1, <2>1, Part DEF n
  <2> QED
    BY <1>1, <2>1, <2>2 DEF WordsInv
<1>5. CASE builtin_set
  <2>1. FInv' /\ P' = [P EXCEPT ![n] = operands']
    BY <1>5, SetStep DEF n
  <2>2. operands' \in Seq(Words)
    BY <1>2, <2>1
  <2> QED
    BY <1>1, <2>1, <2>2 DEF WordsInv, n
<1>6. CASE builtin_shift
  <2> DEFINE u == SubSeq(P[n], number' + 1, Len(P[n]))
  <2>1. number' \in 0..Len(P[n]) /\ P' = [P EXCEPT ![n] = u]
    BY <1>6, ShiftStep DEF n
  <2>2. u \in Seq(Words)
    <3>1. \A v \in Seq(Words) : \A k \in 0..Len(v) : SubSeq(v, k + 1, Len(v)) \in Seq(Words)
      <4> TAKE v \in Seq(Words)
      <4> TAKE k \in 0..Len(v)
      <4>1. k + 1 \in Nat \ {0} /\ Len(v) \in Int /\ Len(v) <= Len(v)
        OBVIOUS
      <4> QED
        BY <4>1, Part
    <3> QED
      BY <1>1, <2>1, <3>1, Zenon
  <2> HIDE DEF u
  <2> QED
    BY <1>1, <2>1, <2>2 DEF WordsInv, n
<1>7. CASE ShiftFails
  <2>1. P' = P
    BY <1>7, ShiftFailsStep
  <2> QED
    BY <2>1 DEF WordsInv
<1>8. CASE UNCHANGED vars
  BY <1>8 DEF vars, WordsInv, P
<1> QED
  BY <1>3, <1>4, <1>5, <1>6, <1>7, <1>8 DEF Next

(* What getopts finds in argv is what the parameters are. *)
LEMMA WordsOfFrame ==
    ASSUME FInv, WordsInv
    PROVE  /\ Params(Frame) \in Seq(Words)
           /\ argc = 0 => Params(Frame) = <<>>
           /\ argc # 0 => Len(Params(Frame)) = argc - 1
           /\ \A i \in 1..(argc - 1) : Word(i) = Params(Frame)[i]
<1>1. Sound(frames, heap) /\ Len(frames) \in Nat \ {0}
  BY DEF FInv, Sound
<1>2. Frame \in Seq(Heap) /\ argc = Len(Frame) /\ argc \in Nat
  BY <1>1 DEF Sound, Frame, Depth, argc
<1>3. Params(Frame) = P[Len(frames)] /\ Len(P) = Len(frames)
  <2>1. P = [k \in 1..Len(frames) |-> ParamsOf(frames[k], heap)] /\ Len(P) = Len(frames)
    BY <1>1, ParamsType DEF P, AllParams
  <2>2. Len(frames) \in 1..Len(frames)
    BY <1>1
  <2> QED
    BY <2>1, <2>2 DEF Params, ParamsOf, Frame, Depth
<1>4. Params(Frame) \in Seq(Words)
  BY <1>1, <1>3 DEF WordsInv
<1>5. CASE Frame = <<>>
  BY <1>2, <1>4, <1>5 DEF Params
<1>6. CASE Frame # <<>>
  <2>1. Params(Frame) = [i \in 1..(argc - 1) |-> heap[Frame[i + 1]]] /\ argc - 1 \in Nat
    BY <1>2, <1>6 DEF Params
  <2>2. Len(Params(Frame)) = argc - 1
    BY <1>4, <2>1
  <2> QED
    BY <1>2, <1>4, <2>1, <2>2 DEF Word
<1> QED
  BY <1>5, <1>6

-----------------------------------------------------------------------------
(* Reference: the recursion is well-founded.  A place is a parameter and a *)
(* letter; what the scan meets there depends on places with fewer letters  *)
(* before them than Left, which is 0 behind the last parameter.            *)

Place == Nat \X Nat
Arguments == {NoArg} \cup ({"rest"} \X Seq(STRING)) \cup ({"word"} \X Words)
Known == DOMAIN Takes
WithArgument == Known \X Arguments
Missing == {":"} \X ({"option"} \X Known)
Found == {<<"?", NoArg>>} \cup Missing \cup WithArgument
Left(ws, i, p) ==
    IF i > Len(ws) THEN 0
    ELSE (Len(ws) + 1 - i) * 11 + (IF p > 10 THEN 0 ELSE 11 - p)

(* Left is a number, of at most eleven for each parameter and two more. *)
LEMMA LeftNat ==
    ASSUME NEW ws \in Seq(Words), NEW i \in Nat, NEW p \in Nat
    PROVE  Left(ws, i, p) \in Nat /\ Left(ws, i, p) < (Len(ws) + 2) * 11 + 1
<1> DEFINE n == Len(ws)
<1>1. n \in Nat
  OBVIOUS
<1> HIDE DEF n
<1>2. CASE i > n
  <2>1. Left(ws, i, p) = 0
    BY <1>2 DEF Left, n
  <2>2. 0 < (n + 2) * 11 + 1
    BY <1>1
  <2> QED
    BY <2>1, <2>2 DEF n
<1>3. CASE ~(i > n)
  <2> DEFINE d == IF p > 10 THEN 0 ELSE 11 - p
             q == n + 1 - i
  <2>1. d \in Nat /\ d <= 11 /\ q \in Nat /\ q <= n + 1
    BY <1>1, <1>3
  <2>2. Left(ws, i, p) = q * 11 + d
    BY <1>3 DEF Left, n
  <2> HIDE DEF d, q
  <2>3. q * 11 + d \in Nat /\ q * 11 + d < (n + 2) * 11 + 1
    BY <1>1, <2>1
  <2> QED
    BY <2>2, <2>3 DEF n
<1> QED
  BY <1>2, <1>3

(* The places the scan goes on to have less left. *)
LEMMA LeftLess ==
    ASSUME NEW ws \in Seq(Words), NEW i \in DOMAIN ws, NEW p \in DOMAIN Letters[ws[i]]
    PROVE  /\ i \in Nat /\ p \in Nat /\ p >= 1 /\ p <= Len(Letters[ws[i]])
           /\ Left(ws, i + 1, 1) < Left(ws, i, p)
           /\ Left(ws, i + 2, 1) < Left(ws, i, p)
           /\ p # Len(Letters[ws[i]]) => Left(ws, i, p + 1) < Left(ws, i, p)
<1> DEFINE n == Len(ws)
           m == Len(Letters[ws[i]])
<1>1. n \in Nat /\ i \in 1..n /\ ws[i] \in Words
  OBVIOUS
<1>2. Letters[ws[i]] \in Seq(STRING) /\ m <= 10
  BY <1>1, LettersAssumption DEF MaxLetters
<1>3. m \in Nat /\ p \in 1..m
  BY <1>2
<1> HIDE DEF n, m
<1>4. i \in Nat /\ i <= n /\ p \in Nat /\ p >= 1 /\ p <= 10
  BY <1>1, <1>2, <1>3
<1>5. Left(ws, i, p) = (n + 1 - i) * 11 + (11 - p)
  BY <1>1, <1>4 DEF Left, n
<1>6. ASSUME NEW k \in {1, 2} PROVE Left(ws, i + k, 1) < Left(ws, i, p)
  <2>1. (n + 1 - i) * 11 + (11 - p) >= 12 /\ k \in Nat /\ k >= 1
    BY <1>1, <1>4
  <2>2. CASE i + k > n
    <3>1. Left(ws, i + k, 1) = 0
      BY <2>2 DEF Left, n
    <3>2. 0 < (n + 1 - i) * 11 + (11 - p)
      BY <1>1, <1>4, <2>1
    <3> QED
      BY <1>5, <3>1, <3>2
  <2>3. CASE ~(i + k > n)
    <3>1. Left(ws, i + k, 1) = (n + 1 - (i + k)) * 11 + 10
      BY <2>3 DEF Left, n
    <3>2. (n + 1 - (i + k)) * 11 + 10 < (n + 1 - i) * 11 + (11 - p)
      <4> DEFINE d == n + 1 - i
                 e == n + 1 - (i + k)
      <4>1. d \in Int /\ e \in Int /\ e + 1 <= d
        BY <1>1, <1>4, <2>1, SMTT(30)
      <4> HIDE DEF d, e
      <4>2. e * 11 + 10 < d * 11 + (11 - p)
        BY <1>4, <4>1
      <4> QED
        BY <4>2 DEF d, e
    <3> QED
      BY <1>5, <3>1, <3>2
  <2> QED
    BY <2>2, <2>3
<1>7. ASSUME p # m PROVE Left(ws, i, p + 1) < Left(ws, i, p)
  <2>1. p + 1 <= 10 /\ ~(p + 1 > 10) /\ ~(i > n)
    BY <1>1, <1>2, <1>3, <1>4, <1>7
  <2>2. Left(ws, i, p + 1) = (n + 1 - i) * 11 + (11 - (p + 1))
    BY <2>1 DEF Left, n
  <2> QED
    BY <1>1, <1>4, <1>5, <2>2
<1> QED
  BY <1>3, <1>4, <1>6, <1>7 DEF m

(* What a turn of the loop finds. *)
LEMMA FoundHas ==
    ASSUME NEW l \in DOMAIN Takes, NEW w \in Words, NEW p \in Nat
    PROVE  /\ <<l, NoArg>> \in Found /\ <<l, <<"rest", Rest(w, p)>>>> \in Found
           /\ <<l, <<"word", w>>>> \in Found
<1>1. Rest(w, p) \in Seq(STRING)
  <2>1. Letters[w] \in Seq(STRING) /\ p + 1 \in Nat \ {0}
    BY LettersAssumption
  <2>2. Len(Letters[w]) \in Int /\ Len(Letters[w]) <= Len(Letters[w])
    BY <2>1
  <2> QED
    BY <2>1, <2>2, Part DEF Rest
<1>2. /\ NoArg \in Arguments /\ <<"rest", Rest(w, p)>> \in Arguments
      /\ <<"word", w>> \in Arguments
  BY <1>1 DEF Arguments
<1>3. ASSUME NEW a \in Arguments PROVE <<l, a>> \in Found
  <2>1. <<l, a>> \in WithArgument
    <3>1. l \in Known
      BY DEF Known
    <3> QED
      BY <3>1 DEF WithArgument
  <2> QED
    BY <2>1 DEF Found
<1> QED
  BY <1>2, <1>3, Zenon

(* A missing argument is told with the option. *)
LEMMA MissingFound ==
    ASSUME NEW l \in DOMAIN Takes
    PROVE  <<":", <<"option", l>>>> \in Found
BY DEF Found, Missing, Known

(* What the scan meets is a sequence of options. *)
LEMMA MeetsType ==
    ASSUME NEW ws \in Seq(Words), NEW quiet, NEW f, NEW i \in Nat, NEW p \in Nat,
           \A j, q \in Nat : Left(ws, j, q) < Left(ws, i, p) => f[<<j, q>>] \in Seq(Found)
    PROVE  Meets(ws, quiet, f, i, p) \in Seq(Found)
<1> DEFINE l == Letters[ws[i]][p]
           last == p = Len(Letters[ws[i]])
<1>1. <<>> \in Seq(Found) /\ <<<<"?", NoArg>>>> \in Seq(Found)
  BY DEF Found
<1>2. CASE i \notin DOMAIN ws \/ ~IsOption(ws[i]) \/ p \notin DOMAIN Letters[ws[i]]
  BY <1>1, <1>2 DEF Meets
<1>3. CASE i \in DOMAIN ws /\ IsOption(ws[i]) /\ p \in DOMAIN Letters[ws[i]]
  <2>1. CASE l \notin DOMAIN Takes
    BY <1>1, <1>3, <2>1 DEF Meets
  <2>2. CASE l \in DOMAIN Takes
    <3>1. /\ i + 1 \in Nat /\ i + 2 \in Nat /\ p + 1 \in Nat /\ 1 \in Nat
          /\ Left(ws, i + 1, 1) < Left(ws, i, p)
          /\ Left(ws, i + 2, 1) < Left(ws, i, p)
          /\ ~last => Left(ws, i, p + 1) < Left(ws, i, p)
      BY <1>3, LeftLess
    <3>2. /\ f[<<i + 1, 1>>] \in Seq(Found) /\ f[<<i + 2, 1>>] \in Seq(Found)
          /\ ~last => f[<<i, p + 1>>] \in Seq(Found)
      BY <3>1, Zenon
    <3>3. /\ <<l, NoArg>> \in Found /\ <<l, <<"rest", Rest(ws[i], p)>>>> \in Found
          /\ i < Len(ws) => <<l, <<"word", ws[i + 1]>>>> \in Found
      <4>1. ws[i] \in Words /\ (i < Len(ws) => ws[i + 1] \in Words)
        BY <1>3
      <4> QED
        BY <2>2, <4>1, FoundHas, Zenon
    <3>4. ASSUME NEW x \in Found, NEW s \in Seq(Found) PROVE <<x>> \o s \in Seq(Found)
      OBVIOUS
    <3>5. CASE ~Takes[l]
      <4>1. Meets(ws, quiet, f, i, p) = <<<<l, NoArg>>>> \o f[IF last THEN <<i + 1, 1>> ELSE <<i, p + 1>>]
        BY <1>3, <2>2, <3>5, Zenon DEF Meets
      <4>2. f[IF last THEN <<i + 1, 1>> ELSE <<i, p + 1>>] \in Seq(Found)
        BY <3>2, Zenon
      <4> QED
        BY <3>3, <3>4, <4>1, <4>2, Zenon
    <3>6. CASE Takes[l] /\ ~last
      <4>1. Meets(ws, quiet, f, i, p) = <<<<l, <<"rest", Rest(ws[i], p)>>>>>> \o f[<<i + 1, 1>>]
        BY <1>3, <2>2, <3>6, Zenon DEF Meets
      <4> QED
        BY <3>2, <3>3, <3>4, <4>1, Zenon
    <3>7. CASE Takes[l] /\ last /\ i < Len(ws)
      <4>1. Meets(ws, quiet, f, i, p) = <<<<l, <<"word", ws[i + 1]>>>>>> \o f[<<i + 2, 1>>]
        BY <1>3, <2>2, <3>7, Zenon DEF Meets
      <4> QED
        BY <3>2, <3>3, <3>4, <3>7, <4>1, Zenon
    <3>8. CASE Takes[l] /\ last /\ ~(i < Len(ws))
      <4>1. CASE quiet
        <5>1. Meets(ws, quiet, f, i, p) = <<<<":", <<"option", l>>>>>>
          BY <1>3, <2>2, <3>8, <4>1, Zenon DEF Meets
        <5>2. <<":", <<"option", l>>>> \in Found
          BY <2>2, MissingFound
        <5> QED
          BY <5>1, <5>2
      <4>2. CASE ~quiet
        <5>1. Meets(ws, quiet, f, i, p) = <<<<"?", NoArg>>>>
          BY <1>3, <2>2, <3>8, <4>2, Zenon DEF Meets
        <5> QED
          BY <1>1, <5>1
      <4> QED
        BY <4>1, <4>2, Zenon
    <3> QED
      BY <3>5, <3>6, <3>7, <3>8, Zenon
  <2> QED
    BY <2>1, <2>2
<1> QED
  BY <1>2, <1>3

(* It is the same with two functions that are the same where less is left. *)
Agree(ws, f, g, i, p) ==
    \A j, q \in Nat : Left(ws, j, q) < Left(ws, i, p) => f[<<j, q>>] = g[<<j, q>>]

(* MeetsSame: Meets uses from only where less is left. *)
LEMMA MeetsSame ==
    ASSUME NEW ws \in Seq(Words), NEW quiet, NEW f, NEW g, NEW i \in Nat, NEW p \in Nat,
           Agree(ws, f, g, i, p)
    PROVE  Meets(ws, quiet, f, i, p) = Meets(ws, quiet, g, i, p)
<1> DEFINE l == Letters[ws[i]][p]
           last == p = Len(Letters[ws[i]])
<1>1. CASE i \notin DOMAIN ws \/ ~IsOption(ws[i]) \/ p \notin DOMAIN Letters[ws[i]]
  BY <1>1 DEF Meets
<1>2. CASE i \in DOMAIN ws /\ IsOption(ws[i]) /\ p \in DOMAIN Letters[ws[i]]
  <2>1. /\ i + 1 \in Nat /\ i + 2 \in Nat /\ p + 1 \in Nat /\ 1 \in Nat
        /\ Left(ws, i + 1, 1) < Left(ws, i, p)
        /\ Left(ws, i + 2, 1) < Left(ws, i, p)
        /\ ~last => Left(ws, i, p + 1) < Left(ws, i, p)
    BY <1>2, LeftLess
  <2>2. /\ f[<<i + 1, 1>>] = g[<<i + 1, 1>>] /\ f[<<i + 2, 1>>] = g[<<i + 2, 1>>]
        /\ ~last => f[<<i, p + 1>>] = g[<<i, p + 1>>]
    BY <2>1, Zenon DEF Agree
  <2>3. f[IF last THEN <<i + 1, 1>> ELSE <<i, p + 1>>] = g[IF last THEN <<i + 1, 1>> ELSE <<i, p + 1>>]
    BY <2>2, Zenon
  <2> QED
    BY <2>2, <2>3, Zenon DEF Meets
<1> QED
  BY <1>1, <1>2

(* The function Reference is taken from. *)
From(ws, quiet) == CHOOSE f : f = [ip \in Place |-> Meets(ws, quiet, f, ip[1], ip[2])]

(* Reference is what From has at the first letter of the first parameter. *)
LEMMA ReferenceIs ==
    \A ws, quiet : Reference(ws, quiet) = From(ws, quiet)[<<1, 1>>]
BY DEF Reference, From, Place

(* There is such a function: one that is right where less than n is left,  *)
(* for every n, since the least n without one would have one, too.         *)
LEMMA FromExists ==
    ASSUME NEW ws \in Seq(Words), NEW quiet
    PROVE  \E f : f = [ip \in Place |-> Meets(ws, quiet, f, ip[1], ip[2])]
<1> DEFINE Right(f, n) ==
              /\ f \in [Place -> Seq(Found)]
              /\ \A i, p \in Nat : Left(ws, i, p) < n => f[<<i, p>>] = Meets(ws, quiet, f, i, p)
           Wrong == {n \in Nat : ~ \E f : Right(f, n)}
<1>1. \A i, p \in Nat : Left(ws, i, p) \in Nat
  BY LeftNat
<1>2. \E f : Right(f, 0)
  <2> DEFINE f == [ip \in Place |-> <<>>]
  <2>1. f \in [Place -> Seq(Found)]
    OBVIOUS
  <2>2. \A i, p \in Nat : ~(Left(ws, i, p) < 0)
    BY <1>1, SMTT(30)
  <2>3. Right(f, 0)
    BY <2>1, <2>2, Zenon
  <2> QED
    BY <2>3, Zenon
<1>3. ASSUME NEW n \in Nat, NEW f, Right(f, n)
      PROVE  \E g : Right(g, n + 1)
  <2> DEFINE here(ip) == ip \in Place /\ Left(ws, ip[1], ip[2]) = n
             g == [ip \in Place |-> IF here(ip) THEN Meets(ws, quiet, f, ip[1], ip[2]) ELSE f[ip]]
  <2>1. \A i, p \in Nat : <<i, p>> \in Place /\ <<i, p>>[1] = i /\ <<i, p>>[2] = p
    BY DEF Place
  <2>2. ASSUME NEW i \in Nat, NEW p \in Nat
        PROVE  g[<<i, p>>] = IF Left(ws, i, p) = n THEN Meets(ws, quiet, f, i, p) ELSE f[<<i, p>>]
    BY <2>1
  <2>3. ASSUME NEW ip \in Place PROVE g[ip] \in Seq(Found)
    <3>1. ip[1] \in Nat /\ ip[2] \in Nat /\ g[ip] = IF here(ip) THEN Meets(ws, quiet, f, ip[1], ip[2]) ELSE f[ip]
      BY <2>3 DEF Place
    <3>2. \A j, q \in Nat : f[<<j, q>>] \in Seq(Found)
      BY <1>3, <2>1
    <3>3. Meets(ws, quiet, f, ip[1], ip[2]) \in Seq(Found)
      BY <3>1, <3>2, MeetsType
    <3> QED
      BY <1>3, <2>3, <3>1, <3>3
  <2>4. g \in [Place -> Seq(Found)]
    BY <2>3
  <2> HIDE DEF g, here
  <2>5. ASSUME NEW i \in Nat, NEW p \in Nat, Left(ws, i, p) < n + 1
        PROVE  g[<<i, p>>] = Meets(ws, quiet, g, i, p)
    <3>1. \A j, q \in Nat : Left(ws, j, q) < Left(ws, i, p) => g[<<j, q>>] = f[<<j, q>>]
      <4> SUFFICES ASSUME NEW j \in Nat, NEW q \in Nat, Left(ws, j, q) < Left(ws, i, p)
                   PROVE  g[<<j, q>>] = f[<<j, q>>]
        OBVIOUS
      <4>1. Left(ws, j, q) \in Nat /\ Left(ws, i, p) \in Nat
        BY <1>1
      <4>2. Left(ws, j, q) # n
        BY <2>5, <4>1
      <4> QED
        BY <2>2, <4>2
    <3>2. Meets(ws, quiet, g, i, p) = Meets(ws, quiet, f, i, p)
      <4>1. Agree(ws, g, f, i, p)
        BY <3>1, Zenon DEF Agree
      <4> QED
        BY <4>1, MeetsSame, SMTT(20)
    <3>3. CASE Left(ws, i, p) = n
      <4>1. g[<<i, p>>] = Meets(ws, quiet, f, i, p)
        BY <2>2, <3>3, Zenon
      <4> QED
        BY <3>2, <4>1, Zenon
    <3>4. CASE Left(ws, i, p) # n
      <4>1. Left(ws, i, p) < n
        <5> DEFINE d == Left(ws, i, p)
        <5>1. d \in Nat /\ d < n + 1 /\ d # n
          BY <1>1, <2>5, <3>4, Zenon
        <5> HIDE DEF d
        <5>2. d < n
          BY <5>1
        <5> QED
          BY <5>2 DEF d
      <4>2. f[<<i, p>>] = Meets(ws, quiet, f, i, p)
        BY <1>3, <4>1
      <4> QED
        BY <2>2, <3>2, <3>4, <4>2
    <3> QED
      BY <3>3, <3>4
  <2>6. Right(g, n + 1)
    BY <2>4, <2>5, Zenon
  <2> QED
    BY <2>6, Zenon
<1> HIDE DEF Right
<1>4. Wrong = {}
  <2> SUFFICES ASSUME Wrong # {} PROVE FALSE
    OBVIOUS
  <2>1. PICK x \in Wrong : \A y \in Wrong : x <= y
    BY LeastNumber
  <2>2. x \in Nat /\ ~ \E f : Right(f, x)
    OBVIOUS
  <2>3. x # 0
    BY <1>2, <2>2
  <2>4. x - 1 \in Nat /\ ~(x <= x - 1) /\ (x - 1) + 1 = x
    BY <2>2, <2>3
  <2>5. PICK f : Right(f, x - 1)
    BY <2>1, <2>4
  <2> QED
    BY <1>3, <2>2, <2>4, <2>5
<1>5. PICK f : Right(f, (Len(ws) + 2) * 11 + 1)
  <2>1. (Len(ws) + 2) * 11 + 1 \in Nat
    OBVIOUS
  <2> QED
    BY <1>4, <2>1
<1>6. f \in [Place -> Seq(Found)] /\ \A i, p \in Nat : f[<<i, p>>] = Meets(ws, quiet, f, i, p)
  BY <1>5, LeftNat DEF Right
<1>7. f = [ip \in Place |-> Meets(ws, quiet, f, ip[1], ip[2])]
  <2>1. ASSUME NEW ip \in Place PROVE f[ip] = Meets(ws, quiet, f, ip[1], ip[2])
    <3>1. ip[1] \in Nat /\ ip[2] \in Nat /\ ip = <<ip[1], ip[2]>>
      BY <2>1 DEF Place
    <3> QED
      BY <1>6, <3>1
  <2> QED
    BY <1>6, <2>1
<1> QED
  BY <1>7

(* What From has: options, as Meets says. *)
LEMMA FromIs ==
    ASSUME NEW ws \in Seq(Words), NEW quiet, NEW i \in Nat, NEW p \in Nat
    PROVE  /\ From(ws, quiet)[<<i, p>>] = Meets(ws, quiet, From(ws, quiet), i, p)
           /\ From(ws, quiet)[<<i, p>>] \in Seq(Found)
<1> DEFINE f == From(ws, quiet)
<1>1. f = [ip \in Place |-> Meets(ws, quiet, f, ip[1], ip[2])]
  <2>1. \E h : h = [ip \in Place |-> Meets(ws, quiet, h, ip[1], ip[2])]
    BY FromExists
  <2> QED
    BY <2>1 DEF From
<1> HIDE DEF f
<1>2. ASSUME NEW j \in Nat, NEW q \in Nat PROVE f[<<j, q>>] = Meets(ws, quiet, f, j, q)
  <2>1. <<j, q>> \in Place /\ <<j, q>>[1] = j /\ <<j, q>>[2] = q
    BY DEF Place
  <2>2. [ip \in Place |-> Meets(ws, quiet, f, ip[1], ip[2])][<<j, q>>] = Meets(ws, quiet, f, <<j, q>>[1], <<j, q>>[2])
    BY <2>1, Zenon
  <2> QED
    BY <1>1, <2>1, <2>2
<1>3. \A j, q \in Nat : Left(ws, j, q) \in Nat
  BY LeftNat
<1>4. \A j, q \in Nat : f[<<j, q>>] \in Seq(Found)
  <2> DEFINE Untyped == {n \in Nat : \E j, q \in Nat : n = Left(ws, j, q) /\ f[<<j, q>>] \notin Seq(Found)}
  <2> SUFFICES ASSUME Untyped # {} PROVE FALSE
    BY <1>3
  <2>1. PICK n \in Untyped : \A m \in Untyped : n <= m
    BY LeastNumber
  <2>2. PICK j \in Nat, q \in Nat : n = Left(ws, j, q) /\ f[<<j, q>>] \notin Seq(Found)
    OBVIOUS
  <2>3. \A k, r \in Nat : Left(ws, k, r) < Left(ws, j, q) => f[<<k, r>>] \in Seq(Found)
    <3> SUFFICES ASSUME NEW k \in Nat, NEW r \in Nat, Left(ws, k, r) < Left(ws, j, q),
                        f[<<k, r>>] \notin Seq(Found)
                 PROVE  FALSE
      OBVIOUS
    <3>1. Left(ws, k, r) \in Untyped
      BY <1>3
    <3>2. n <= Left(ws, k, r) /\ n \in Nat /\ Left(ws, k, r) \in Nat
      BY <1>3, <2>1, <3>1
    <3> QED
      BY <2>2, <3>2
  <2>4. Meets(ws, quiet, f, j, q) \in Seq(Found)
    BY <2>3, MeetsType
  <2> QED
    BY <1>2, <2>2, <2>4
<1> QED
  BY <1>2, <1>4 DEF f

-----------------------------------------------------------------------------
(* getopts follows Reference: what it found so far and what From has at    *)
(* the first letter of the parameter at OPTIND are the whole.  The history *)
(* is shorter than OPTIND and so never at its bound.                       *)

ScanInv ==
    /\ GInv /\ WordsInv
    /\ loop => /\ OnePerWord(Params(Frame))
               /\ scanned \in Seq(Found) /\ Len(scanned) < OPTIND
               /\ scanned \o From(Params(Frame), silent)[<<OPTIND, 1>>] = Reference(Params(Frame), silent)

(* Nothing is left of a word behind its only letter. *)
LEMMA RestEmpty ==
    ASSUME NEW w \in Words, IsOption(w)
    PROVE  /\ 1 \in DOMAIN Letters[w]
           /\ Rest(w, 1) = <<>> <=> 1 = Len(Letters[w])
<1> DEFINE s == Letters[w]
           n == Len(s)
<1>1. s \in Seq(STRING) /\ s # <<>>
  BY LettersAssumption DEF IsOption
<1>2. n \in Nat /\ n >= 1 /\ 1 \in DOMAIN s
  BY <1>1
<1> HIDE DEF s
<1>3. SubSeq(s, 2, n) \in Seq(STRING) /\ Len(SubSeq(s, 2, n)) = IF 2 <= n THEN n - 2 + 1 ELSE 0
  BY <1>1, <1>2, Part
<1> HIDE DEF n
<1>4. SubSeq(s, 2, n) = <<>> <=> 1 = n
  BY <1>2, <1>3
<1>5. Rest(w, 1) = SubSeq(s, 2, n)
  BY DEF Rest, s, n
<1> QED
  BY <1>2, <1>4, <1>5 DEF s, n

(* Where getopts ends the scan meets nothing, and elsewhere an option.     *)
LEMMA AtOPTIND ==
    ASSUME GInv, WordsInv, NEW ws, ws = Params(Frame)
    PROVE  /\ ws \in Seq(Words) /\ OPTIND \in Nat /\ OPTIND >= 1
           /\ EndOfOptions => OPTIND \notin DOMAIN ws \/ ~IsOption(ws[OPTIND])
           /\ ~EndOfOptions =>
                 /\ OPTIND \in DOMAIN ws /\ Word(OPTIND) = ws[OPTIND]
                 /\ IsOption(ws[OPTIND]) /\ argc = Len(ws) + 1 /\ OPTIND <= MaxOperands
                 /\ OPTIND + 2 <= argc => OPTIND < Len(ws) /\ Word(OPTIND + 1) = ws[OPTIND + 1]
                 /\ OPTIND < Len(ws) => OPTIND + 2 <= argc
<1>1. argc \in 0..(MaxOperands + 1) /\ OPTIND \in 1..(MaxOperands + 1) /\ MaxOperands \in Nat
  BY ArgcBound, BoundsAssumption DEF GInv
<1>2. /\ argc # 0 => Len(ws) = argc - 1
      /\ \A i \in 1..(argc - 1) : Word(i) = ws[i]
  BY WordsOfFrame DEF GInv
<1>3. /\ argc = 0 => ws = <<>>
      /\ ws \in Seq(Words)
  BY WordsOfFrame DEF GInv
<1>4. ASSUME EndOfOptions PROVE OPTIND \notin DOMAIN ws \/ ~IsOption(ws[OPTIND])
  <2>1. CASE OPTIND >= argc
    <3>1. argc = 0 => Len(ws) = 0
      BY <1>3
    <3>2. DOMAIN ws = 1..Len(ws) /\ Len(ws) \in Nat
      BY <1>3
    <3>3. ~(OPTIND <= Len(ws))
      BY <1>1, <1>2, <2>1, <3>1, <3>2
    <3> QED
      BY <1>1, <3>2, <3>3
  <2>2. CASE OPTIND < argc /\ ~IsOption(Word(OPTIND))
    <3>1. OPTIND \in 1..(argc - 1)
      BY <1>1, <2>2
    <3> QED
      BY <1>2, <2>2, <3>1
  <2> QED
    BY <1>4, <2>1, <2>2 DEF EndOfOptions
<1>5. ASSUME ~EndOfOptions
      PROVE  /\ OPTIND \in DOMAIN ws /\ Word(OPTIND) = ws[OPTIND]
             /\ IsOption(ws[OPTIND]) /\ argc = Len(ws) + 1 /\ OPTIND <= MaxOperands
             /\ OPTIND + 2 <= argc => OPTIND < Len(ws) /\ Word(OPTIND + 1) = ws[OPTIND + 1]
             /\ OPTIND < Len(ws) => OPTIND + 2 <= argc
  <2>1. OPTIND < argc /\ IsOption(Word(OPTIND))
    BY <1>1, <1>5 DEF EndOfOptions
  <2>2. argc # 0 /\ Len(ws) = argc - 1 /\ OPTIND \in 1..(argc - 1)
    BY <1>1, <1>2, <2>1
  <2>3. DOMAIN ws = 1..(argc - 1)
    BY <1>3, <2>2
  <2>4. Word(OPTIND) = ws[OPTIND]
    BY <1>2, <2>2
  <2>5. OPTIND + 2 <= argc => Word(OPTIND + 1) = ws[OPTIND + 1]
    BY <1>1, <1>2
  <2>6. /\ argc = Len(ws) + 1 /\ OPTIND <= MaxOperands
        /\ OPTIND + 2 <= argc => OPTIND < Len(ws)
        /\ OPTIND < Len(ws) => OPTIND + 2 <= argc
    BY <1>1, <2>1, <2>2
  <2> QED
    BY <2>1, <2>2, <2>3, <2>4, <2>5, <2>6, Zenon
<1> QED
  BY <1>1, <1>3, <1>4, <1>5

(* One more option in front of the rest. *)
LEMMA OneMore ==
    ASSUME NEW s \in Seq(Found), NEW r \in Seq(Found), NEW x \in Found
    PROVE  /\ s \o (<<x>> \o r) = Append(s, x) \o r
           /\ s \o <<x>> = Append(s, x)
           /\ Append(s, x) \in Seq(Found) /\ Len(Append(s, x)) = Len(s) + 1
OBVIOUS

(* An option is as Reference says, and so is all that follows it. *)
LEMMA OptionScan ==
    ASSUME ScanInv, GetoptsOption
    PROVE  ScanInv' /\ loop'
<1> DEFINE ws == Params(Frame)
           i == OPTIND
           w == ws[i]
           l == Letters[w][1]
           R == From(ws, silent)
<1>1. GInv /\ WordsInv /\ loop /\ ~EndOfOptions /\ UNCHANGED <<vars, silent, loop>>
  BY DEF ScanInv, GetoptsOption
<1>2. GInv' /\ WordsInv' /\ ws' = ws
  <2>1. /\ OPTIND' \in 1..(MaxOperands + 1) /\ optpos' \in Nat \ {0} /\ loop' \in BOOLEAN
        /\ silent' \in BOOLEAN
    BY <1>1, OptindStep DEF Getopts, GInv
  <2>2. FInv' /\ WordsInv'
    BY <1>1 DEF GInv, FInv, WordsInv, P, vars
  <2>3. ws' = ws
    BY <1>1 DEF vars, Params, Frame, Depth
  <2> QED
    BY <2>1, <2>2, <2>3, Zenon DEF GInv
<1>3. /\ OnePerWord(ws) /\ scanned \in Seq(Found) /\ Len(scanned) < i
      /\ scanned \o R[<<i, 1>>] = Reference(ws, silent)
  BY <1>1 DEF ScanInv
<1>4. /\ ws \in Seq(Words) /\ i \in Nat /\ i >= 1 /\ i \in DOMAIN ws /\ Word(OPTIND) = w
      /\ IsOption(w) /\ argc = Len(ws) + 1 /\ i <= MaxOperands
      /\ i + 2 <= argc => i < Len(ws) /\ Word(OPTIND + 1) = ws[i + 1]
      /\ i < Len(ws) => i + 2 <= argc
  BY <1>1, AtOPTIND
<1> HIDE DEF ws
<1>5. w \in Words
  BY <1>4
<1>6. 1 \in DOMAIN Letters[w] /\ (Rest(w, 1) = <<>> <=> 1 = Len(Letters[w]))
  BY <1>4, <1>5, RestEmpty
<1>7. \A j \in Nat : R[<<j, 1>>] \in Seq(Found)
  BY <1>4, FromIs
<1>8. R[<<i, 1>>] = Meets(ws, silent, R, i, 1)
  BY <1>4, FromIs
<1>9. /\ \A o, a : Returns(o, a) => scanned' = Append(scanned, <<o, a>>)
  <2>1. Len(scanned) < MaxScanned
    BY <1>3, <1>4, BoundsAssumption DEF MaxScanned, MaxLetters
  <2> QED
    BY <2>1, Zenon DEF Returns
<1> DEFINE Goes(o, a, k) ==
             /\ scanned' = Append(scanned, <<o, a>>) /\ OPTIND' = i + k
             /\ <<o, a>> \in Found
             /\ R[<<i, 1>>] = <<<<o, a>>>> \o R[<<i + k, 1>>]
<1> HIDE DEF R
<1>10. ASSUME NEW o, NEW a, NEW k \in {1, 2}, Goes(o, a, k) PROVE ScanInv' /\ loop'
  <2>1. i + k \in Nat /\ R[<<i + k, 1>>] \in Seq(Found)
    BY <1>4, <1>7
  <2>2. /\ scanned' \o R[<<i + k, 1>>] = Reference(ws, silent)
        /\ scanned' \in Seq(Found) /\ Len(scanned') = Len(scanned) + 1
    <3> DEFINE x == <<o, a>>
               r == R[<<i + k, 1>>]
               q == R[<<i, 1>>]
    <3>1. scanned' = Append(scanned, x) /\ x \in Found /\ q = <<x>> \o r
      BY <1>10, Zenon
    <3>2. scanned \in Seq(Found) /\ r \in Seq(Found) /\ scanned \o q = Reference(ws, silent)
      BY <1>3, <2>1, Zenon
    <3> HIDE DEF x, r, q
    <3>3. /\ scanned \o (<<x>> \o r) = Append(scanned, x) \o r
          /\ Append(scanned, x) \in Seq(Found) /\ Len(Append(scanned, x)) = Len(scanned) + 1
      BY <3>1, <3>2, OneMore, Zenon
    <3>4. scanned' \o r = Reference(ws, silent)
      BY <3>1, <3>2, <3>3
    <3> QED
      BY <3>1, <3>3, <3>4 DEF r
  <2>3. Len(scanned') < OPTIND'
    BY <1>3, <1>4, <1>10, <2>2
  <2>4. OnePerWord(ws)' /\ Reference(ws, silent)' = Reference(ws, silent)
    BY <1>1, <1>2, <1>3 DEF OnePerWord
  <2>5. R' = R
    BY <1>1, <1>2 DEF R
  <2> QED
    BY <1>1, <1>2, <1>10, <2>2, <2>3, <2>4, <2>5 DEF ScanInv, ws, R
<1> HIDE DEF Goes
<1>11. \/ /\ l \in DOMAIN Takes /\ ~Takes[l] /\ Returns(l, NoArg)
          /\ OPTIND' = AfterFlag.ind
       \/ /\ l \in DOMAIN Takes /\ Takes[l] /\ Rest(w, 1) # <<>>
          /\ Returns(l, <<"rest", Rest(w, 1)>>) /\ OPTIND' = AfterArgument
       \/ /\ l \in DOMAIN Takes /\ Takes[l] /\ Rest(w, 1) = <<>> /\ OPTIND + 2 <= argc
          /\ Returns(l, <<"word", Word(OPTIND + 1)>>) /\ OPTIND' = AfterArgument
  BY <1>4 DEF GetoptsOption, Pos
<1>12. CASE l \in DOMAIN Takes /\ ~Takes[l] /\ Returns(l, NoArg) /\ OPTIND' = AfterFlag.ind
  <2>1. 1 = Len(Letters[w])
    <3>1. Letters[w] \in Seq(STRING) /\ Len(Letters[w]) \in Nat
      BY <1>5, LettersAssumption
    <3>2. ~(Len(Letters[w]) > 1)
      BY <1>3, <1>4, <1>12 DEF OnePerWord
    <3>3. 1 <= Len(Letters[w])
      BY <1>6, <3>1
    <3> DEFINE m == Len(Letters[w])
    <3>4. m \in Nat /\ ~(m > 1) /\ 1 <= m
      BY <3>1, <3>2, <3>3, Zenon
    <3> HIDE DEF m
    <3>5. 1 = m
      BY <3>4
    <3> QED
      BY <3>5 DEF m
  <2>2. OPTIND' = i + 1
    BY <1>4, <1>6, <1>12, <2>1 DEF AfterFlag, Pos
  <2>3. R[<<i, 1>>] = <<<<l, NoArg>>>> \o R[<<i + 1, 1>>]
    BY <1>4, <1>6, <1>8, <1>12, <2>1 DEF Meets
  <2>4. scanned' = Append(scanned, <<l, NoArg>>) /\ <<l, NoArg>> \in Found
    BY <1>5, <1>9, <1>12, FoundHas, 1 \in Nat
  <2>5. Goes(l, NoArg, 1)
    BY <2>2, <2>3, <2>4, Zenon DEF Goes
  <2> QED
    BY <1>10, <2>5
<1>13. CASE /\ l \in DOMAIN Takes /\ Takes[l] /\ Rest(w, 1) # <<>>
            /\ Returns(l, <<"rest", Rest(w, 1)>>) /\ OPTIND' = AfterArgument
  <2>1. OPTIND' = i + 1
    BY <1>4, <1>13 DEF AfterArgument, Pos
  <2>2. R[<<i, 1>>] = <<<<l, <<"rest", Rest(w, 1)>>>>>> \o R[<<i + 1, 1>>]
    BY <1>4, <1>6, <1>8, <1>13, Zenon DEF Meets
  <2>3. /\ scanned' = Append(scanned, <<l, <<"rest", Rest(w, 1)>>>>)
        /\ <<l, <<"rest", Rest(w, 1)>>>> \in Found
    BY <1>5, <1>9, <1>13, FoundHas, 1 \in Nat
  <2>4. Goes(l, <<"rest", Rest(w, 1)>>, 1)
    BY <2>1, <2>2, <2>3, Zenon DEF Goes
  <2> QED
    BY <1>10, <2>4
<1>14. CASE /\ l \in DOMAIN Takes /\ Takes[l] /\ Rest(w, 1) = <<>> /\ OPTIND + 2 <= argc
            /\ Returns(l, <<"word", Word(OPTIND + 1)>>) /\ OPTIND' = AfterArgument
  <2>1. OPTIND' = i + 2
    BY <1>4, <1>14 DEF AfterArgument, Pos
  <2>2. i < Len(ws) /\ Word(OPTIND + 1) = ws[i + 1] /\ ws[i + 1] \in Words
    BY <1>4, <1>14
  <2>3. R[<<i, 1>>] = <<<<l, <<"word", ws[i + 1]>>>>>> \o R[<<i + 2, 1>>]
    BY <1>4, <1>6, <1>8, <1>14, <2>2, Zenon DEF Meets
  <2>4. /\ scanned' = Append(scanned, <<l, <<"word", ws[i + 1]>>>>)
        /\ <<l, <<"word", ws[i + 1]>>>> \in Found
    BY <1>9, <1>14, <2>2, FoundHas, 1 \in Nat
  <2>5. Goes(l, <<"word", ws[i + 1]>>, 2)
    BY <2>1, <2>3, <2>4, Zenon DEF Goes
  <2> QED
    BY <1>10, <2>5
<1> QED
  BY <1>11, <1>12, <1>13, <1>14

(* The last turn of the loop: no option is left, or the first error. *)
LEMMA LastScan ==
    ASSUME GoesOn = FALSE, ScanInv, GetoptsEnd \/ GetoptsError
    PROVE  ~loop' /\ scanned' = Reference(Params(Frame), silent)
<1> DEFINE ws == Params(Frame)
           i == OPTIND
           R == From(ws, silent)
<1>1. GInv /\ WordsInv /\ loop
  BY DEF ScanInv, GetoptsEnd, GetoptsError
<1>2. /\ scanned \in Seq(Found) /\ Len(scanned) < i
      /\ scanned \o R[<<i, 1>>] = Reference(ws, silent)
  BY <1>1 DEF ScanInv
<1>3. /\ ws \in Seq(Words) /\ i \in Nat /\ i >= 1
      /\ EndOfOptions => i \notin DOMAIN ws \/ ~IsOption(ws[i])
      /\ ~EndOfOptions =>
            /\ i \in DOMAIN ws /\ Word(OPTIND) = ws[i] /\ IsOption(ws[i])
            /\ i <= MaxOperands /\ (i < Len(ws) => i + 2 <= argc)
  BY <1>1, AtOPTIND
<1> HIDE DEF ws
<1>4. R[<<i, 1>>] = Meets(ws, silent, R, i, 1)
  BY <1>3, FromIs
<1> HIDE DEF R
<1>5. CASE GetoptsEnd
  <2>1. ~loop' /\ scanned' = scanned /\ EndOfOptions
    BY <1>5 DEF GetoptsEnd
  <2>2. R[<<i, 1>>] = <<>>
    BY <1>3, <1>4, <2>1 DEF Meets
  <2>3. scanned \o <<>> = scanned
    BY <1>2
  <2> QED
    BY <1>2, <2>1, <2>2, <2>3 DEF ws
<1>6. CASE GetoptsError
  <2> DEFINE w == ws[i]
             l == Letters[w][1]
  <2>1. ~loop' /\ ~EndOfOptions
    BY <1>6 DEF GetoptsError
  <2>2. /\ i \in DOMAIN ws /\ Word(OPTIND) = w /\ IsOption(w)
        /\ i <= MaxOperands /\ (i < Len(ws) => i + 2 <= argc)
    BY <1>3, <2>1
  <2>3. \/ l \notin DOMAIN Takes /\ Returns("?", NoArg)
        \/ /\ l \in DOMAIN Takes /\ Takes[l] /\ Rest(w, 1) = <<>> /\ OPTIND + 2 > argc
           /\ Returns(MissingOption, MissingOptarg(l))
    BY <1>6, <2>2, Zenon DEF GetoptsError, Pos
  <2>4. w \in Words
    BY <1>3, <2>2
  <2>5. 1 \in DOMAIN Letters[w] /\ (Rest(w, 1) = <<>> <=> 1 = Len(Letters[w]))
    BY <2>2, <2>4, RestEmpty
  <2>6. Len(scanned) < MaxScanned
    BY <1>2, <1>3, <2>2, BoundsAssumption DEF MaxScanned, MaxLetters
  <2> DEFINE Ends(o, a) == Returns(o, a) /\ <<o, a>> \in Found /\ R[<<i, 1>>] = <<<<o, a>>>>
  <2>7. ASSUME NEW o, NEW a, Ends(o, a) PROVE scanned' = Reference(ws, silent)
    <3> DEFINE x == <<o, a>>
    <3>1. scanned' = Append(scanned, x) /\ x \in Found /\ R[<<i, 1>>] = <<x>>
      BY <2>6, <2>7, Zenon DEF Returns
    <3> HIDE DEF x
    <3>2. scanned \o <<x>> = Append(scanned, x)
      BY <1>2, <3>1
    <3> QED
      BY <1>2, <3>1, <3>2
  <2> HIDE DEF Ends
  <2>8. CASE l \notin DOMAIN Takes /\ Returns("?", NoArg)
    <3>1. R[<<i, 1>>] = <<<<"?", NoArg>>>>
      BY <1>4, <2>2, <2>5, <2>8, Zenon DEF Meets
    <3>2. <<"?", NoArg>> \in Found
      BY DEF Found
    <3>3. Ends("?", NoArg)
      BY <2>8, <3>1, <3>2, Zenon DEF Ends
    <3> QED
      BY <2>1, <2>7, <3>3 DEF ws
  <2>9. CASE /\ l \in DOMAIN Takes /\ Takes[l] /\ Rest(w, 1) = <<>> /\ OPTIND + 2 > argc
             /\ Returns(MissingOption, MissingOptarg(l))
    <3>1. argc \in Int /\ i \in Nat
      BY <1>1, <1>3, ArgcBound DEF GInv
    <3>2. ~(i + 2 <= argc)
      BY <2>9, <3>1
    <3>3. ~(i < Len(ws))
      BY <2>2, <3>2, Zenon
    <3>4. CASE silent
      <4>1. R[<<i, 1>>] = <<<<":", <<"option", l>>>>>>
        BY <1>4, <2>2, <2>5, <2>9, <3>3, <3>4, Zenon DEF Meets
      <4>2. MissingOption = ":" /\ MissingOptarg(l) = <<"option", l>>
        BY <3>4, Zenon DEF MissingOption, MissingOptarg
      <4>3. <<":", <<"option", l>>>> \in Found
        BY <2>9, MissingFound
      <4>4. Ends(":", <<"option", l>>)
        BY <2>9, <4>1, <4>2, <4>3, Zenon DEF Ends
      <4> QED
        BY <2>1, <2>7, <4>4 DEF ws
    <3>5. CASE ~silent
      <4>1. R[<<i, 1>>] = <<<<"?", NoArg>>>>
        BY <1>4, <2>2, <2>5, <2>9, <3>3, <3>5, Zenon DEF Meets
      <4>2. MissingOption = "?" /\ MissingOptarg(l) = NoArg
        BY <3>5, Zenon DEF MissingOption, MissingOptarg
      <4>3. <<"?", NoArg>> \in Found
        BY DEF Found
      <4>4. Ends("?", NoArg)
        BY <2>9, <4>1, <4>2, <4>3, Zenon DEF Ends
      <4> QED
        BY <2>1, <2>7, <4>4 DEF ws
    <3> QED
      BY <3>4, <3>5
  <2> QED
    BY <2>1, <2>3, <2>8, <2>9 DEF ws
<1> QED
  BY <1>5, <1>6

(* Every step follows Reference. *)
LEMMA ScanStep ==
    ASSUME ShiftMiddle = FALSE, Clusters = FALSE, GoesOn = FALSE, ScanInv,
           [GNext]_<<vars, gvars>>
    PROVE  ScanInv' /\ (loop /\ ~loop' => scanned' = Reference(Params(Frame), silent))
<1>1. GInv' /\ WordsInv'
  <2>1. GInv' /\ [Next]_vars
    BY GStep DEF ScanInv
  <2> QED
    BY <2>1, WordsStep DEF ScanInv, GInv
<1>2. CASE Commands
  BY <1>1, <1>2 DEF Commands, ScanInv
<1>3. CASE StartLoop
  <2> DEFINE ws == Params(Frame)
             r == From(ws, silent')[<<1, 1>>]
  <2>1. ~loop /\ OPTIND' = 1 /\ scanned' = <<>> /\ UNCHANGED vars /\ OnePerWord(ws)
    BY <1>3 DEF StartLoop
  <2>2. ws \in Seq(Words)
    BY WordsOfFrame DEF ScanInv, GInv
  <2>3. ws' = ws
    BY <2>1 DEF vars, Params, Frame, Depth
  <2> HIDE DEF ws
  <2>4. r \in Seq(Found) /\ r = Reference(ws, silent')
    BY <2>2, FromIs, ReferenceIs, 1 \in Nat
  <2>5. <<>> \o r = r /\ <<>> \in Seq(Found) /\ Len(<<>>) < 1
    <3> HIDE DEF r
    <3> QED
      BY <2>4
  <2>6. /\ (From(ws, silent)[<<OPTIND, 1>>])' = r
        /\ Reference(ws, silent)' = Reference(ws, silent') /\ OnePerWord(ws)'
    BY <2>1, <2>3 DEF OnePerWord
  <2> HIDE DEF r
  <2>7. /\ OnePerWord(ws)' /\ scanned' \in Seq(Found) /\ Len(scanned') < OPTIND'
        /\ scanned' \o (From(ws, silent)[<<OPTIND, 1>>])' = Reference(ws, silent)'
    BY <2>1, <2>4, <2>5, <2>6
  <2> QED
    BY <1>1, <2>1, <2>7 DEF ScanInv, ws
<1>4. CASE GetoptsOption
  BY <1>4, OptionScan
<1>5. CASE GetoptsEnd \/ GetoptsError
  <2>1. ~loop' /\ scanned' = Reference(Params(Frame), silent)
    BY <1>5, LastScan
  <2> QED
    BY <1>1, <2>1 DEF ScanInv
<1>6. CASE UNCHANGED <<vars, gvars>>
  <2>1. Params(Frame)' = Params(Frame) /\ UNCHANGED <<OPTIND, silent, loop, scanned>>
    BY <1>6 DEF vars, gvars, Params, Frame, Depth
  <2>2. loop => /\ OnePerWord(Params(Frame))' /\ scanned \in Seq(Found) /\ Len(scanned) < OPTIND
                /\ scanned \o (From(Params(Frame), silent)[<<OPTIND, 1>>])' = Reference(Params(Frame), silent)'
    BY <2>1 DEF ScanInv, OnePerWord
  <2> QED
    BY <1>1, <2>1, <2>2 DEF ScanInv
<1> QED
  BY <1>2, <1>3, <1>4, <1>5, <1>6 DEF GNext, Getopts

(* ScanComplete: the loop finds each option once, in order, with its       *)
(* argument, up to the first error, for any words, any number of           *)
(* parameters and any optstring, with a leading colon or without, whatever *)
(* calls, set and shift did to argv before it; where no word holds two     *)
(* options, the script gives up after an error, and the assertion that     *)
(* argv ends at argc, which a shift breaks, is compiled out.               *)
THEOREM GetoptsFindsAll ==
    ASSUME ShiftMiddle = FALSE, Clusters = FALSE, GoesOn = FALSE
    PROVE  GSpec => ScanComplete
<1>1. GInit => ScanInv
  <2> SUFFICES ASSUME GInit PROVE ScanInv
    OBVIOUS
  <2>1. GInv /\ P = <<<<>>>> /\ ~loop
    BY GInvInit, FInvInit DEF GInit
  <2>2. WordsInv
    BY <2>1 DEF WordsInv
  <2> QED
    BY <2>1, <2>2 DEF ScanInv
<1>2. ScanInv /\ [GNext]_<<vars, gvars>> =>
         ScanInv' /\ [loop /\ ~loop' => scanned' = Reference(Params(Frame), silent)]_<<vars, gvars>>
  BY ScanStep
<1> QED
  BY <1>1, <1>2, PTL DEF GSpec, ScanComplete
=============================================================================
