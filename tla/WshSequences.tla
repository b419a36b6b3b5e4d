---------------------------- MODULE WshSequences ----------------------------
(* Facts about sequences used as stacks and about the least and greatest   *)
(* element of a set of numbers, for the proof modules.                     *)
EXTENDS Integers, Sequences, TLAPS, SequenceTheorems, WellFoundedInduction

(* A non-empty set of natural numbers has a least element. *)
LEMMA LeastNumber ==
    ASSUME NEW T, T \subseteq Nat, T # {}
    PROVE  \E x \in T : \A y \in T : x <= y
<1>1. IsWellFoundedOn(OpToRel(<, Nat), Nat)
  BY NatLessThanWellFounded
<1>2. PICK x \in T : \A y \in T : ~(<<y, x>> \in OpToRel(<, Nat))
  BY <1>1, WFMin
<1>3. \A y \in T : ~(y < x)
  BY <1>2 DEF OpToRel
<1> QED
  BY <1>3

(* A non-empty set of natural numbers with a bound has a greatest one. *)
LEMMA GreatestNumber ==
    ASSUME NEW n \in Nat, NEW T, T \subseteq 0..n, T # {}
    PROVE  \E x \in T : \A y \in T : y <= x
<1> DEFINE U == {n - y : y \in T}
<1>1. U \subseteq Nat /\ U # {}
  <2>1. \A y \in T : n - y \in Nat
    OBVIOUS
  <2>2. \E y \in T : n - y \in U
    OBVIOUS
  <2> QED
    BY <2>1, <2>2
<1>2. PICK z \in U : \A w \in U : z <= w
  BY <1>1, LeastNumber
<1>3. PICK x \in T : z = n - x
  OBVIOUS
<1>4. \A y \in T : n - x <= n - y
  BY <1>2, <1>3
<1>5. \A y \in T : y <= x
  BY <1>4
<1> QED
  BY <1>5

(* A sequence without its last element. *)
LEMMA FrontIs ==
    ASSUME NEW S, NEW s \in Seq(S), s # <<>>
    PROVE  /\ SubSeq(s, 1, Len(s) - 1) \in Seq(S)
           /\ Len(SubSeq(s, 1, Len(s) - 1)) = Len(s) - 1
           /\ \A i \in 1..(Len(s) - 1) : SubSeq(s, 1, Len(s) - 1)[i] = s[i]
<1>1. Len(s) \in Nat \ {0}
  OBVIOUS
<1>2. \A i \in 1..(Len(s) - 1) : s[i] \in S
  OBVIOUS
<1>3. \A n \in Int : n = Len(s) - 1 => Len(SubSeq(s, 1, n)) = Len(s) - 1
  <2> SUFFICES ASSUME NEW n \in Int, n = Len(s) - 1
               PROVE  Len(SubSeq(s, 1, n)) = n
    OBVIOUS
  <2>1. \A i \in 1..n : s[i] \in S
    BY <1>2
  <2>2. Len(SubSeq(s, 1, n)) = IF 1 <= n THEN n - 1 + 1 ELSE 0
    BY <2>1, SubSeqProperties
  <2> QED
    BY <1>1, <2>2
<1>4. Len(SubSeq(s, 1, Len(s) - 1)) = Len(s) - 1
  BY <1>1, <1>3
<1>5. SubSeq(s, 1, Len(s) - 1) \in Seq(S)
  OBVIOUS
<1>6. \A i \in 1..(Len(s) - 1) : SubSeq(s, 1, Len(s) - 1)[i] = s[i]
  OBVIOUS
<1> QED
  BY <1>4, <1>5, <1>6, Zenon

(* A sequence that is another one and one element more. *)
LEMMA AppendLast ==
    ASSUME NEW S, NEW s \in Seq(S), NEW t \in Seq(S), Len(t) = Len(s) + 1,
           \A i \in 1..Len(s) : t[i] = s[i]
    PROVE  t = Append(s, t[Len(s) + 1])
<1> DEFINE u == Append(s, t[Len(s) + 1])
<1>1. Len(s) \in Nat /\ t[Len(s) + 1] \in S
  BY ElementOfSeq
<1>2. /\ u \in Seq(S) /\ Len(u) = Len(s) + 1
      /\ \A i \in 1..Len(s) : u[i] = s[i]
      /\ u[Len(s) + 1] = t[Len(s) + 1]
  BY <1>1, AppendProperties
<1> HIDE DEF u
<1>3. \A i \in 1..Len(t) : t[i] = u[i]
  BY <1>1, <1>2
<1>4. t = u
  BY <1>2, <1>3, SeqEqual
<1> QED
  BY <1>4 DEF u

(* Replacing the last element is taking it away and appending the new one. *)
LEMMA ReplaceLast ==
    ASSUME NEW S, NEW s \in Seq(S), s # <<>>, NEW e \in S
    PROVE  [s EXCEPT ![Len(s)] = e] = Append(SubSeq(s, 1, Len(s) - 1), e)
<1> DEFINE n == Len(s)
           t == SubSeq(s, 1, n - 1)
           u == [s EXCEPT ![n] = e]
<1>1. n \in Nat \ {0} /\ n \in 1..Len(s)
  OBVIOUS
<1>2. t \in Seq(S) /\ Len(t) = n - 1 /\ \A i \in 1..(n - 1) : t[i] = s[i]
  BY FrontIs
<1>3. u \in Seq(S) /\ Len(u) = n /\ \A i \in 1..n : u[i] = IF i = n THEN e ELSE s[i]
  BY <1>1, ExceptSeq
<1> HIDE DEF n, t, u
<1>4. /\ Append(t, e) \in Seq(S) /\ Len(Append(t, e)) = n
      /\ \A i \in 1..(n - 1) : Append(t, e)[i] = t[i]
      /\ Append(t, e)[n] = e
  BY <1>1, <1>2, AppendProperties
<1>5. \A i \in 1..n : u[i] = Append(t, e)[i]
  BY <1>1, <1>2, <1>3, <1>4
<1>6. u = Append(t, e)
  BY <1>3, <1>4, <1>5, SeqEqual
<1> QED
  BY <1>6 DEF u, t, n
(* A sequence without its first n elements. *)
LEMMA Suffix ==
    ASSUME NEW S, NEW s \in Seq(S), NEW n \in 0..Len(s)
    PROVE  SubSeq(s, n + 1, Len(s)) = [i \in 1..(Len(s) - n) |-> s[n + i]]
<1> DEFINE m == Len(s)
           t == SubSeq(s, n + 1, m)
<1>1. m \in Nat /\ n \in Nat /\ n <= m
  OBVIOUS
<1>2. \A i \in (n + 1)..m : s[i] \in S
  BY ElementOfSeq
<1>3. /\ t \in Seq(S)
      /\ Len(t) = IF n + 1 <= m THEN m - (n + 1) + 1 ELSE 0
      /\ \A i \in 1..(m - (n + 1) + 1) : t[i] = s[n + 1 + i - 1]
  BY <1>1, <1>2, SubSeqProperties
<1> HIDE DEF m, t
<1>4. Len(t) = m - n /\ m - (n + 1) + 1 = m - n
  BY <1>1, <1>3
<1>5. \A i \in Int : n + 1 + i - 1 = n + i
  BY <1>1
<1>6. \A i \in 1..(m - n) : t[i] = s[n + i]
  BY <1>3, <1>4, <1>5
<1>7. t = [i \in 1..(m - n) |-> t[i]]
  BY <1>3, <1>4
<1> QED
  BY <1>6, <1>7 DEF t, m

(* A function on 1..m is a sequence of length m. *)
LEMMA FunctionIsSeq ==
    ASSUME NEW S, NEW m \in Nat, NEW f \in [1..m -> S]
    PROVE  f \in Seq(S) /\ Len(f) = m
OBVIOUS

(* Two sequences, one after the other. *)
LEMMA Joined ==
    ASSUME NEW S, NEW s \in Seq(S), NEW t \in Seq(S)
    PROVE  /\ s \o t \in Seq(S) /\ Len(s \o t) = Len(s) + Len(t)
           /\ \A i \in 1..Len(s) : (s \o t)[i] = s[i]
           /\ \A i \in 1..Len(t) : (s \o t)[Len(s) + i] = t[i]
<1>1. Len(s) \in Nat /\ Len(t) \in Nat
  OBVIOUS
<1>2. /\ s \o t \in Seq(S) /\ Len(s \o t) = Len(s) + Len(t)
      /\ \A i \in 1..(Len(s) + Len(t)) :
            (s \o t)[i] = IF i <= Len(s) THEN s[i] ELSE t[i - Len(s)]
  BY ConcatProperties
<1>3. \A i \in 1..Len(s) : i \in 1..(Len(s) + Len(t)) /\ i <= Len(s)
  BY <1>1
<1>4. \A i \in 1..Len(t) : /\ Len(s) + i \in 1..(Len(s) + Len(t)) /\ ~(Len(s) + i <= Len(s))
                           /\ (Len(s) + i) - Len(s) = i
  BY <1>1
<1> QED
  BY <1>2, <1>3, <1>4

(* A part of a sequence, which may be empty. *)
LEMMA Part ==
    ASSUME NEW S, NEW s \in Seq(S), NEW m \in Nat \ {0}, NEW n \in Int, n <= Len(s)
    PROVE  /\ SubSeq(s, m, n) \in Seq(S)
           /\ Len(SubSeq(s, m, n)) = IF m <= n THEN n - m + 1 ELSE 0
           /\ \A i \in 1..(n - m + 1) : SubSeq(s, m, n)[i] = s[m + i - 1]
<1>1. \A i \in m..n : i \in 1..Len(s)
  OBVIOUS
<1>2. \A i \in m..n : s[i] \in S
  BY <1>1
<1> QED
  BY <1>2, SubSeqProperties

(* w is f with b written at offset p, which may extend it. *)
Overwrites(w, f, p, b) ==
    /\ p + Len(b) <= Len(w)
    /\ \A i \in 1..p : w[i] = f[i]
    /\ \A i \in (p + 1)..(p + Len(b)) : w[i] = b[i - p]
    /\ \A i \in (p + Len(b) + 1)..Len(w) : i \in 1..Len(f) /\ w[i] = f[i]
    /\ p + Len(b) <= Len(f) => Len(w) = Len(f)

(* The bytes before, the new ones and the bytes behind them. *)
LEMMA Overwritten ==
    ASSUME NEW S, NEW f \in Seq(S), NEW p \in 0..Len(f), NEW b \in Seq(S), NEW v,
           v = SubSeq(f, 1, p) \o b \o SubSeq(f, p + Len(b) + 1, Len(f))
    PROVE  v \in Seq(S) /\ Overwrites(v, f, p, b)
<1> DEFINE m == Len(f)
           n == Len(b)
           x == SubSeq(f, 1, p)
           y == x \o b
           z == SubSeq(f, p + n + 1, m)
           w == y \o z
<1>1. m \in Nat /\ n \in Nat /\ p \in Nat /\ p <= m
  OBVIOUS
<1>2. x \in Seq(S) /\ Len(x) = p /\ \A i \in 1..p : x[i] = f[i]
  BY <1>1, Part
<1>3. /\ z \in Seq(S) /\ Len(z) = IF p + n + 1 <= m THEN m - (p + n) ELSE 0
      /\ \A i \in 1..(m - (p + n)) : z[i] = f[p + n + i]
  <2>1. p + n + 1 \in Nat \ {0} /\ m \in Int /\ m <= Len(f)
    BY <1>1
  <2>2. /\ z \in Seq(S) /\ Len(z) = IF p + n + 1 <= m THEN m - (p + n + 1) + 1 ELSE 0
        /\ \A i \in 1..(m - (p + n + 1) + 1) : z[i] = f[p + n + 1 + i - 1]
    BY <2>1, Part
  <2> HIDE DEF z, m, n
  <2> QED
    BY <1>1, <2>2
<1> HIDE DEF x, z
<1>4. /\ y \in Seq(S) /\ Len(y) = p + n
      /\ \A i \in 1..(p + n) : y[i] = IF i <= p THEN x[i] ELSE b[i - p]
  BY <1>2, ConcatProperties
<1>5. v = w
  BY DEF x, z
<1> HIDE DEF y
<1>6. /\ w \in Seq(S) /\ Len(w) = p + n + Len(z)
      /\ \A i \in 1..(p + n + Len(z)) : w[i] = IF i <= p + n THEN y[i] ELSE z[i - (p + n)]
  <2>1. y \in Seq(S) /\ z \in Seq(S) /\ Len(y) = p + n
    BY <1>3, <1>4
  <2> HIDE DEF n
  <2>2. /\ y \o z \in Seq(S) /\ Len(y \o z) = Len(y) + Len(z)
        /\ \A i \in 1..(Len(y) + Len(z)) :
              (y \o z)[i] = IF i <= Len(y) THEN y[i] ELSE z[i - Len(y)]
    BY <2>1, ConcatProperties
  <2> QED
    BY <2>1, <2>2
<1> HIDE DEF m, n, w
<1>7. Len(z) \in Nat /\ Len(w) = p + n + Len(z)
  BY <1>3, <1>6, LenProperties
<1>8. p + n <= Len(w)
  BY <1>1, <1>7
<1>9. \A i \in 1..p : w[i] = f[i]
  <2> SUFFICES ASSUME NEW i \in 1..p PROVE w[i] = f[i]
    OBVIOUS
  <2>1. i \in 1..(p + n + Len(z)) /\ i <= p + n /\ i \in 1..(p + n) /\ i <= p
    BY <1>1, <1>7
  <2> QED
    BY <1>2, <1>4, <1>6, <2>1
<1>10. \A i \in (p + 1)..(p + n) : w[i] = b[i - p]
  <2> SUFFICES ASSUME NEW i \in (p + 1)..(p + n) PROVE w[i] = b[i - p]
    OBVIOUS
  <2>1. i \in 1..(p + n + Len(z)) /\ i <= p + n /\ i \in 1..(p + n) /\ ~(i <= p)
    BY <1>1, <1>7
  <2> QED
    BY <1>4, <1>6, <2>1
<1>11. \A i \in (p + n + 1)..Len(w) : i \in 1..m /\ w[i] = f[i]
  <2> SUFFICES ASSUME NEW i \in (p + n + 1)..Len(w) PROVE i \in 1..m /\ w[i] = f[i]
    OBVIOUS
  <2>1. Len(z) # 0 /\ i \in Nat
    BY <1>1, <1>7
  <2>2. Len(z) = m - (p + n)
    BY <1>3, <2>1
  <2>3. /\ i \in 1..(p + n + Len(z)) /\ ~(i <= p + n) /\ i - (p + n) \in 1..(m - (p + n))
        /\ p + n + (i - (p + n)) = i /\ i \in 1..m
    BY <1>1, <1>7, <2>1, <2>2
  <2>4. w[i] = z[i - (p + n)]
    BY <1>6, <2>3
  <2>5. z[i - (p + n)] = f[p + n + (i - (p + n))]
    BY <1>3, <2>3
  <2> QED
    BY <2>3, <2>4, <2>5
<1>12. p + n <= m => Len(w) = m
  <2>1. Len(z) = IF p + n + 1 <= m THEN m - (p + n) ELSE 0
    BY <1>3
  <2> QED
    BY <1>1, <1>7, <2>1
<1> QED
  BY <1>5, <1>6, <1>8, <1>9, <1>10, <1>11, <1>12 DEF m, n, Overwrites

(* A sequence is its two parts. *)
LEMMA CutInTwo ==
    ASSUME NEW S, NEW t \in Seq(S), NEW n \in 0..Len(t)
    PROVE  /\ SubSeq(t, 1, n) \in Seq(S) /\ SubSeq(t, n + 1, Len(t)) \in Seq(S)
           /\ Len(SubSeq(t, 1, n)) = n
           /\ SubSeq(t, 1, n) \o SubSeq(t, n + 1, Len(t)) = t
<1>1. Len(t) \in Nat /\ n \in Nat /\ n <= Len(t)
  OBVIOUS
<1> DEFINE x == SubSeq(t, 1, n)
           y == SubSeq(t, n + 1, Len(t))
<1>2. x \in Seq(S) /\ Len(x) = n /\ y \in Seq(S)
  <2>1. 1 \in Nat \ {0} /\ n \in Int /\ n + 1 \in Nat \ {0} /\ Len(t) \in Int
    BY <1>1
  <2>2. x \in Seq(S) /\ Len(x) = IF 1 <= n THEN n - 1 + 1 ELSE 0
    BY <1>1, <2>1, Part
  <2>3. y \in Seq(S)
    BY <1>1, <2>1, Part
  <2> HIDE DEF x, y
  <2> QED
    BY <1>1, <2>2, <2>3
<1>3. x \o y = t
  <2>1. 1 \in 1..(Len(t) + 1) /\ n \in (1 - 1)..Len(t) /\ Len(t) \in n..Len(t)
    BY <1>1
  <2>2. x \o y = SubSeq(t, 1, Len(t))
    BY <2>1, ConcatAdjacentSubSeq
  <2> QED
    BY <2>2, SubSeqFull
<1> QED
  BY <1>2, <1>3

(* The end of two sequences, from within the first. *)
LEMMA EndOfTwo ==
    ASSUME NEW S, NEW s \in Seq(S), NEW t \in Seq(S), NEW n \in 0..Len(s)
    PROVE  SubSeq(s \o t, n + 1, Len(s \o t)) = SubSeq(s, n + 1, Len(s)) \o t
<1> DEFINE a == Len(s)
           b == Len(t)
           u == s \o t
           x == SubSeq(s, n + 1, a)
           v == SubSeq(u, n + 1, Len(u))
           w == x \o t
<1>1. a \in Nat /\ b \in Nat /\ n \in Nat /\ n <= a
  OBVIOUS
<1>2. /\ u \in Seq(S) /\ Len(u) = a + b
      /\ \A i \in 1..a : u[i] = s[i]
      /\ \A i \in 1..b : u[a + i] = t[i]
  BY Joined
<1>3. x \in Seq(S) /\ Len(x) = a - n /\ \A i \in 1..(a - n) : x[i] = s[n + i]
  <2>1. n + 1 \in Nat \ {0} /\ a \in Int /\ a <= Len(s)
    BY <1>1
  <2>2. /\ x \in Seq(S) /\ Len(x) = IF n + 1 <= a THEN a - (n + 1) + 1 ELSE 0
        /\ \A i \in 1..(a - (n + 1) + 1) : x[i] = s[n + 1 + i - 1]
    BY <2>1, Part
  <2> HIDE DEF x, a
  <2> QED
    BY <1>1, <2>2
<1> HIDE DEF u
<1>4. v \in Seq(S) /\ Len(v) = a + b - n /\ \A i \in 1..(a + b - n) : v[i] = u[n + i]
  <2>1. n + 1 \in Nat \ {0} /\ Len(u) \in Int /\ Len(u) <= Len(u)
    BY <1>1, <1>2
  <2>2. /\ v \in Seq(S) /\ Len(v) = IF n + 1 <= Len(u) THEN Len(u) - (n + 1) + 1 ELSE 0
        /\ \A i \in 1..(Len(u) - (n + 1) + 1) : v[i] = u[n + 1 + i - 1]
    BY <1>2, <2>1, Part
  <2> HIDE DEF v, a, b
  <2> QED
    BY <1>1, <1>2, <2>2
<1> HIDE DEF x, v
<1>5. /\ w \in Seq(S) /\ Len(w) = (a - n) + b
      /\ \A i \in 1..(a - n) : w[i] = x[i]
      /\ \A i \in 1..b : w[(a - n) + i] = t[i]
  <2>1. /\ w \in Seq(S) /\ Len(w) = Len(x) + Len(t)
        /\ \A i \in 1..Len(x) : w[i] = x[i]
        /\ \A i \in 1..Len(t) : w[Len(x) + i] = t[i]
    <3>1. x \in Seq(S)
      BY <1>3
    <3> QED
      BY <3>1, Joined
  <2> HIDE DEF w
  <2> QED
    BY <1>3, <2>1
<1> HIDE DEF w, a, b
<1>6. \A i \in 1..(a + b - n) : v[i] = w[i]
  <2> SUFFICES ASSUME NEW i \in 1..(a + b - n) PROVE v[i] = w[i]
    OBVIOUS
  <2>1. CASE i \in 1..(a - n)
    <3>1. n + i \in 1..a
      BY <1>1, <2>1
    <3>2. v[i] = u[n + i] /\ u[n + i] = s[n + i]
      BY <1>2, <1>4, <3>1
    <3>3. w[i] = x[i] /\ x[i] = s[n + i]
      BY <1>3, <1>5, <2>1
    <3> QED
      BY <3>2, <3>3
  <2>2. CASE ~(i \in 1..(a - n))
    <3> DEFINE j == i - (a - n)
    <3>1. j \in 1..b /\ a + j = n + i /\ (a - n) + j = i
      BY <1>1, <2>2
    <3> HIDE DEF j
    <3>2. v[i] = u[n + i] /\ u[a + j] = t[j]
      BY <1>2, <1>4, <3>1
    <3>3. w[(a - n) + j] = t[j]
      BY <1>5, <3>1
    <3> QED
      BY <3>1, <3>2, <3>3
  <2> QED
    BY <2>1, <2>2
<1>7. Len(v) = Len(w) /\ \A i \in 1..Len(v) : v[i] = w[i]
  BY <1>1, <1>4, <1>5, <1>6
<1>8. v = w
  BY <1>4, <1>5, <1>7, SeqEqual
<1> QED
  BY <1>8 DEF v, w, u, x, a, b

(* Sequences that agree from m on have the same end. *)
LEMMA SameEnd ==
    ASSUME NEW S, NEW s \in Seq(S), NEW t \in Seq(S), Len(s) = Len(t),
           NEW m \in 0..Len(s), \A i \in (m + 1)..Len(s) : s[i] = t[i]
    PROVE  SubSeq(s, m + 1, Len(s)) = SubSeq(t, m + 1, Len(s))
<1> DEFINE l == Len(s)
           x == SubSeq(s, m + 1, l)
           y == SubSeq(t, m + 1, l)
<1>1. l \in Nat /\ m \in Nat /\ m <= l /\ m + 1 \in Nat \ {0} /\ l \in Int
      /\ l <= Len(s) /\ l <= Len(t)
  OBVIOUS
<1>2. /\ x \in Seq(S) /\ Len(x) = IF m + 1 <= l THEN l - (m + 1) + 1 ELSE 0
      /\ \A i \in 1..(l - (m + 1) + 1) : x[i] = s[m + 1 + i - 1]
  BY <1>1, Part
<1>3. /\ y \in Seq(S) /\ Len(y) = IF m + 1 <= l THEN l - (m + 1) + 1 ELSE 0
      /\ \A i \in 1..(l - (m + 1) + 1) : y[i] = t[m + 1 + i - 1]
  BY <1>1, Part
<1>4. \A i \in (m + 1)..l : s[i] = t[i]
  OBVIOUS
<1> HIDE DEF x, y, l
<1>5. \A i \in 1..(l - (m + 1) + 1) : m + 1 + i - 1 \in (m + 1)..l
  BY <1>1
<1>6. \A i \in 1..(l - (m + 1) + 1) : x[i] = y[i]
  BY <1>2, <1>3, <1>4, <1>5
<1>7. \A i \in 1..Len(x) : i \in 1..(l - (m + 1) + 1)
  BY <1>1, <1>2
<1>8. x = y
  BY <1>2, <1>3, <1>6, <1>7, SeqEqual
<1> QED
  BY <1>8 DEF x, y, l
=============================================================================
