-------------------------- MODULE WshStdio_proofs --------------------------
(***************************************************************************)
(* The globals wsh_* match the constructs in progress, and every temporary *)
(* file belongs to one of them, for any depth, number of stages, number of *)
(* commands and nesting; and output reaches the construct that waits for   *)
(* it and only that, for the nestings and bodies in which the code         *)
(* delivers it.                                                            *)
(***************************************************************************)
EXTENDS WshStdio, WshSequences, FiniteSetTheorems

-----------------------------------------------------------------------------
(* Names and numbers *)

(* The names that actions use are Names. *)
LEMMA NamesHas ==
    /\ \A i \in 0..(MaxStages - 1) : PipeTmp(i) \in Names
    /\ \A d \in 1..MaxDepth : WordTmp(d) \in Names
    /\ \A d \in 1..(MaxDepth + 1) : CaptureTmp(d) \in Names
    /\ UserFile \in Names
BY DEF Names

(* There are finitely many file names. *)
LEMMA NamesFinite == IsFiniteSet(Names) /\ Cardinality(Names) \in Nat
<1> DEFINE A == {PipeTmp(i) : i \in 0..(MaxStages - 1)}
           B == {WordTmp(d) : d \in 1..MaxDepth}
           C == {CaptureTmp(d) : d \in 1..(MaxDepth + 1)}
<1>1. MaxStages - 1 \in Int /\ MaxDepth \in Int /\ MaxDepth + 1 \in Int
  BY BoundsAssumption
<1>2. IsFiniteSet(0..(MaxStages - 1)) /\ IsFiniteSet(1..MaxDepth) /\ IsFiniteSet(1..(MaxDepth + 1))
  BY <1>1, FS_Interval
<1>3. IsFiniteSet(A)
  <2> DEFINE f == [i \in 0..(MaxStages - 1) |-> PipeTmp(i)]
  <2>1. f \in Surjection(0..(MaxStages - 1), A)
    BY DEF Surjection
  <2> QED
    BY <1>2, <2>1, FS_Surjection
<1>4. IsFiniteSet(B)
  <2> DEFINE f == [d \in 1..MaxDepth |-> WordTmp(d)]
  <2>1. f \in Surjection(1..MaxDepth, B)
    BY DEF Surjection
  <2> QED
    BY <1>2, <2>1, FS_Surjection
<1>5. IsFiniteSet(C)
  <2> DEFINE f == [d \in 1..(MaxDepth + 1) |-> CaptureTmp(d)]
  <2>1. f \in Surjection(1..(MaxDepth + 1), C)
    BY DEF Surjection
  <2> QED
    BY <1>2, <2>1, FS_Surjection
<1> HIDE DEF A, B, C
<1>6. IsFiniteSet(A \cup B)
  BY <1>3, <1>4, FS_Union
<1>7. IsFiniteSet((A \cup B) \cup C)
  BY <1>5, <1>6, FS_Union
<1>8. IsFiniteSet(((A \cup B) \cup C) \cup {UserFile})
  BY <1>7, FS_AddElement
<1>9. IsFiniteSet(Names)
  BY <1>8 DEF Names, A, B, C
<1> QED
  BY <1>9, FS_CardinalityType

(* One element more, one element less. *)
LEMMA OneMore ==
    ASSUME NEW S, NEW x, NEW n \in Nat, IsFiniteSet(S), Cardinality(S) <= n
    PROVE  IsFiniteSet(S \cup {x}) /\ Cardinality(S \cup {x}) <= n + 1
<1>1. Cardinality(S) \in Nat
  BY FS_CardinalityType
<1>2. /\ IsFiniteSet(S \cup {x})
      /\ Cardinality(S \cup {x}) = IF x \in S THEN Cardinality(S) ELSE Cardinality(S) + 1
  BY FS_AddElement
<1> QED
  BY <1>1, <1>2

(* One element less. *)
LEMMA OneLess ==
    ASSUME NEW S, NEW x \in S, NEW n \in Nat, IsFiniteSet(S), Cardinality(S) <= n + 1
    PROVE  IsFiniteSet(S \ {x}) /\ Cardinality(S \ {x}) <= n
<1>1. Cardinality(S) \in Nat
  BY FS_CardinalityType
<1>2. IsFiniteSet(S \ {x}) /\ Cardinality(S \ {x}) = Cardinality(S) - 1
  BY FS_RemoveElement
<1> QED
  BY <1>1, <1>2

-----------------------------------------------------------------------------
(* The file system *)

(* The parts of the file system. *)
LEMMA FilesParts ==
    ASSUME NEW f \in Files
    PROVE  /\ f.dir \in [Names -> Inodes \cup {0}] /\ f.data \in [Inodes -> SUBSET Tags]
           /\ f.out \in Inodes \cup {0} /\ f.in \in Inodes \cup {0}
           /\ f = [dir |-> f.dir, data |-> f.data, out |-> f.out, in |-> f.in]
BY DEF Files

(* A file system from its parts. *)
LEMMA FilesMade ==
    ASSUME NEW dir \in [Names -> Inodes \cup {0}], NEW data \in [Inodes -> SUBSET Tags],
           NEW out \in Inodes \cup {0}, NEW in \in Inodes \cup {0}
    PROVE  [dir |-> dir, data |-> data, out |-> out, in |-> in] \in Files
BY DEF Files

(* There are more inodes than names and open streams: a file can always be *)
(* created.                                                                *)
LEMMA FreshExists ==
    ASSUME NEW f \in Files, 0 \in InUse(f)
    PROVE  Fresh(f) \in Inodes /\ Fresh(f) \notin InUse(f)
<1> DEFINE N == Cardinality(Names)
           I == {f.dir[nm] : nm \in Names}
           F == Inodes \ InUse(f)
<1>1. IsFiniteSet(Names) /\ N \in Nat
  BY NamesFinite
<1>2. IsFiniteSet(I) /\ Cardinality(I) <= N
  <2>1. f.dir \in Surjection(Names, I)
    BY FilesParts DEF Surjection
  <2> QED
    BY <1>1, <2>1, FS_Surjection
<1> HIDE DEF N, I
<1>3. IsFiniteSet(I \cup {f.out}) /\ Cardinality(I \cup {f.out}) <= N + 1
  BY <1>1, <1>2, OneMore
<1>4. /\ IsFiniteSet((I \cup {f.out}) \cup {f.in})
      /\ Cardinality((I \cup {f.out}) \cup {f.in}) <= N + 1 + 1
  <2>1. N + 1 \in Nat
    BY <1>1
  <2> QED
    BY <1>3, <2>1, OneMore
<1>5. InUse(f) = (I \cup {f.out}) \cup {f.in}
  BY DEF InUse, I
<1>6. IsFiniteSet(InUse(f)) /\ Cardinality(InUse(f)) <= N + 1 + 1
  BY <1>4, <1>5
<1>7. IsFiniteSet(InUse(f) \ {0}) /\ Cardinality(InUse(f) \ {0}) <= N + 1
  <2>1. N + 1 \in Nat
    BY <1>1
  <2> QED
    BY <1>6, <2>1, OneLess
<1>8. IsFiniteSet(Inodes) /\ Cardinality(Inodes) = N + 2
  BY <1>1, FS_Interval DEF Inodes, N
<1>9. F # {}
  <2> SUFFICES ASSUME F = {} PROVE FALSE
    OBVIOUS
  <2>1. 0 \notin Inodes
    BY DEF Inodes
  <2>2. Inodes \in SUBSET (InUse(f) \ {0})
    BY <2>1
  <2>3. Cardinality(Inodes) <= Cardinality(InUse(f) \ {0})
    BY <1>7, <2>2, FS_Subset
  <2>4. Cardinality(InUse(f) \ {0}) \in Nat
    BY <1>7, FS_CardinalityType
  <2> QED
    BY <1>1, <1>7, <1>8, <2>3, <2>4
<1>10. F \subseteq Nat
  BY DEF Inodes
<1>11. \E i \in F : \A j \in F : i <= j
  BY <1>9, <1>10, LeastNumber
<1>12. Fresh(f) \in F
  BY <1>11 DEF Fresh
<1> QED
  BY <1>12
(* The names that exist.  Every operation on files keeps the type of the   *)
(* file system and adds or removes at most the name it is given.           *)
Present(f) == {nm \in Names : f.dir[nm] # 0}

(* Dropping what no name and no stream refers to. *)
LEMMA GcFiles ==
    ASSUME NEW f \in Files
    PROVE  Gc(f) \in Files /\ Gc(f).dir = f.dir /\ Gc(f).out = f.out /\ Gc(f).in = f.in
<1> DEFINE data == [i \in Inodes |-> IF i \in InUse(f) THEN f.data[i] ELSE {}]
<1>1. data \in [Inodes -> SUBSET Tags]
  BY FilesParts
<1>2. Gc(f) = [dir |-> f.dir, data |-> data, out |-> f.out, in |-> f.in]
  <2>1. Gc(f) = [f EXCEPT !.data = data]
    BY DEF Gc
  <2> HIDE DEF data
  <2>2. [f EXCEPT !.data = data] = [dir |-> f.dir, data |-> data, out |-> f.out, in |-> f.in]
    BY FilesParts DEF Files
  <2> QED
    BY <2>1, <2>2
<1> QED
  BY <1>1, <1>2, FilesParts, FilesMade

(* A file is created or truncated. *)
LEMMA CreateFiles ==
    ASSUME NEW f \in Files, NEW nm \in Names, NEW trunc
    PROVE  LET g == Create(f, nm, trunc)
           IN  /\ g \in Files /\ Present(g) = Present(f) \cup {nm}
               /\ g.dir[nm] \in Inodes /\ g.out = f.out /\ g.in = f.in
<1> DEFINE i == IF f.dir[nm] # 0 THEN f.dir[nm] ELSE Fresh(f)
           dir == [f.dir EXCEPT ![nm] = i]
           d == IF trunc \/ f.dir[nm] = 0 THEN {} ELSE f.data[i]
           data == [f.data EXCEPT ![i] = d]
           g == Create(f, nm, trunc)
<1>1. f.dir \in [Names -> Inodes \cup {0}] /\ f.data \in [Inodes -> SUBSET Tags]
  BY FilesParts
<1>2. i \in Inodes
  <2>1. CASE f.dir[nm] # 0
    BY <1>1, <2>1
  <2>2. CASE f.dir[nm] = 0
    <3>1. 0 \in InUse(f)
      BY <2>2 DEF InUse
    <3> QED
      BY <2>2, <3>1, FreshExists
  <2> QED
    BY <2>1, <2>2
<1>3. g = [dir |-> dir, data |-> data, out |-> f.out, in |-> f.in]
  <2> DEFINE e == [f EXCEPT !.dir[nm] = i]
  <2>1. g = [e EXCEPT !.data[i] = IF trunc \/ f.dir[nm] = 0 THEN {} ELSE @]
    BY DEF Create
  <2> HIDE DEF i, g
  <2>2. e = [dir |-> dir, data |-> f.data, out |-> f.out, in |-> f.in]
    BY FilesParts DEF Files
  <2> HIDE DEF e, dir
  <2>3. [e EXCEPT !.data[i] = IF trunc \/ f.dir[nm] = 0 THEN {} ELSE @]
          = [dir |-> dir, data |-> [f.data EXCEPT ![i] = IF trunc \/ f.dir[nm] = 0 THEN {} ELSE f.data[i]],
             out |-> f.out, in |-> f.in]
    BY <2>2
  <2> QED
    BY <2>1, <2>3
<1> HIDE DEF i, g
<1>4. dir \in [Names -> Inodes \cup {0}] /\ dir[nm] = i
      /\ \A x \in Names : x # nm => dir[x] = f.dir[x]
  BY <1>1, <1>2
<1>5. d \in SUBSET Tags
  BY <1>1, <1>2
<1> HIDE DEF d
<1>6. data \in [Inodes -> SUBSET Tags]
  BY <1>1, <1>5
<1> HIDE DEF dir, data
<1>7. g \in Files /\ g.dir = dir /\ g.out = f.out /\ g.in = f.in
  BY <1>3, <1>4, <1>6, FilesParts, FilesMade
<1>8. 0 \notin Inodes
  BY DEF Inodes
<1>9. Present(g) = Present(f) \cup {nm}
  BY <1>2, <1>4, <1>7, <1>8 DEF Present
<1> QED
  BY <1>2, <1>4, <1>7, <1>9 DEF g

(* A name is removed. *)
LEMMA UnlinkFiles ==
    ASSUME NEW f \in Files, NEW nm \in Names
    PROVE  Unlink(f, nm) \in Files /\ Present(Unlink(f, nm)) = Present(f) \ {nm}
<1> DEFINE dir == [f.dir EXCEPT ![nm] = 0]
           g == [f EXCEPT !.dir[nm] = 0]
<1>1. f.dir \in [Names -> Inodes \cup {0}]
  BY FilesParts
<1>2. g = [dir |-> dir, data |-> f.data, out |-> f.out, in |-> f.in]
  BY FilesParts DEF Files
<1>3. dir \in [Names -> Inodes \cup {0}] /\ dir[nm] = 0
      /\ \A x \in Names : x # nm => dir[x] = f.dir[x]
  BY <1>1
<1> HIDE DEF g, dir
<1>4. g \in Files /\ g.dir = dir
  BY <1>2, <1>3, FilesParts, FilesMade
<1>5. Gc(g) \in Files /\ Gc(g).dir = dir
  BY <1>4, GcFiles
<1>6. Unlink(f, nm) = Gc(g)
  BY DEF Unlink, g
<1>7. Present(Gc(g)) = Present(f) \ {nm}
  BY <1>3, <1>5 DEF Present
<1> QED
  BY <1>5, <1>6, <1>7

(* Bytes are written to an inode. *)
LEMMA WriteFiles ==
    ASSUME NEW f \in Files, NEW i \in Inodes \cup {0}, NEW tags \in SUBSET Tags
    PROVE  Write(f, i, tags) \in Files /\ Present(Write(f, i, tags)) = Present(f)
<1>1. CASE i = 0
  BY <1>1 DEF Write
<1>2. CASE i # 0
  <2> DEFINE data == [f.data EXCEPT ![i] = f.data[i] \cup tags]
             g == [f EXCEPT !.data[i] = f.data[i] \cup tags]
  <2>1. f.data \in [Inodes -> SUBSET Tags] /\ i \in Inodes
    BY <1>2, FilesParts
  <2>2. g = [dir |-> f.dir, data |-> data, out |-> f.out, in |-> f.in]
    BY FilesParts DEF Files
  <2>3. f.data[i] \cup tags \in SUBSET Tags
    BY <2>1
  <2>4. data \in [Inodes -> SUBSET Tags]
    BY <2>1, <2>3
  <2> HIDE DEF data, g
  <2>5. g \in Files /\ g.dir = f.dir
    BY <2>2, <2>4, FilesParts, FilesMade
  <2>6. Write(f, i, tags) = g
    BY <1>2 DEF Write, g
  <2> QED
    BY <2>5, <2>6 DEF Present
<1> QED
  BY <1>1, <1>2

(* A file is read. *)
LEMMA ReadFiles ==
    ASSUME NEW f \in Files, NEW nm \in Names
    PROVE  Read(f, nm) \in SUBSET Tags
BY FilesParts DEF Read

(* The streams: a stream can be put on any inode, or closed. *)
LEMMA StreamFiles ==
    ASSUME NEW f \in Files, NEW i \in Inodes \cup {0}
    PROVE  /\ [f EXCEPT !.out = i] \in Files /\ Present([f EXCEPT !.out = i]) = Present(f)
           /\ [f EXCEPT !.in = i] \in Files /\ Present([f EXCEPT !.in = i]) = Present(f)
<1> DEFINE a == [f EXCEPT !.out = i]
           b == [f EXCEPT !.in = i]
<1>1. /\ a = [dir |-> f.dir, data |-> f.data, out |-> i, in |-> f.in]
      /\ b = [dir |-> f.dir, data |-> f.data, out |-> f.out, in |-> i]
  BY FilesParts DEF Files
<1> HIDE DEF a, b
<1>2. a \in Files /\ a.dir = f.dir /\ b \in Files /\ b.dir = f.dir
  BY <1>1, FilesParts, FilesMade
<1>3. Present(a) = Present(f) /\ Present(b) = Present(f)
  BY <1>2 DEF Present
<1> QED
  BY <1>2, <1>3 DEF a, b

(* Dropping inodes removes no name. *)
LEMMA GcPresent ==
    ASSUME NEW f \in Files
    PROVE  Gc(f) \in Files /\ Present(Gc(f)) = Present(f)
BY GcFiles DEF Present

(* freopen of stdout. *)
LEMMA ReopenOutFiles ==
    ASSUME NEW f \in Files, NEW nm \in Names, NEW trunc
    PROVE  /\ ReopenOut(f, nm, trunc) \in Files
           /\ Present(ReopenOut(f, nm, trunc)) = Present(f) \cup {nm}
<1> DEFINE e == [f EXCEPT !.out = 0]
           g == Create(e, nm, trunc)
<1>1. e \in Files /\ Present(e) = Present(f)
  BY StreamFiles
<1> HIDE DEF e
<1>2. g \in Files /\ Present(g) = Present(f) \cup {nm} /\ g.dir[nm] \in Inodes
  BY <1>1, CreateFiles
<1>3. ReopenOut(f, nm, trunc) = Gc([g EXCEPT !.out = g.dir[nm]])
  BY DEF ReopenOut, e
<1> HIDE DEF g
<1>4. /\ [g EXCEPT !.out = g.dir[nm]] \in Files
      /\ Present([g EXCEPT !.out = g.dir[nm]]) = Present(g)
  BY <1>2, StreamFiles
<1> QED
  BY <1>2, <1>3, <1>4, GcPresent

(* freopen of stdin. *)
LEMMA ReopenInFiles ==
    ASSUME NEW f \in Files, NEW nm \in Names
    PROVE  ReopenIn(f, nm) \in Files /\ Present(ReopenIn(f, nm)) = Present(f)
<1>1. f.dir[nm] \in Inodes \cup {0}
  BY FilesParts
<1>2. /\ [f EXCEPT !.in = f.dir[nm]] \in Files
      /\ Present([f EXCEPT !.in = f.dir[nm]]) = Present(f)
  BY <1>1, StreamFiles
<1> QED
  BY <1>2, GcPresent DEF ReopenIn

(* The streams are given back. *)
LEMMA CloseFiles ==
    ASSUME NEW f \in Files
    PROVE  /\ CloseOut(f) \in Files /\ Present(CloseOut(f)) = Present(f)
           /\ Gc([f EXCEPT !.in = 0]) \in Files
           /\ Present(Gc([f EXCEPT !.in = 0])) = Present(f)
<1>1. /\ [f EXCEPT !.out = 0] \in Files /\ Present([f EXCEPT !.out = 0]) = Present(f)
      /\ [f EXCEPT !.in = 0] \in Files /\ Present([f EXCEPT !.in = 0]) = Present(f)
  BY StreamFiles
<1> QED
  BY <1>1, GcPresent DEF CloseOut

-----------------------------------------------------------------------------
(* The stack: what the constructs saved is what GlobalsMatch says of the   *)
(* constructs below them.                                                  *)

Redirected(s, n) == \E e \in 1..n : s[e].k \in {"pipe", "word"}

Captured(s, n, c) ==
    \/ c = NULL /\ \A e \in 1..n : s[e].k # "word"
    \/ \E e \in 1..n : /\ s[e].k = "word" /\ s[e].nm = c
                       /\ \A j \in (e + 1)..n : s[j].k # "word"

Saved(s, d) ==
    /\ s[d].k \in {"pipe", "word"} => (s[d].pr <=> Redirected(s, d - 1))
    /\ s[d].k = "word" => Captured(s, d - 1, s[d].pc)

Globals(s, r, c) ==
    /\ r <=> Redirected(s, Len(s))
    /\ Captured(s, Len(s), c)

StackOK(s) ==
    /\ s \in Seq(Construct) /\ Len(s) <= MaxDepth
    /\ \A d \in 1..(Len(s) - 1) : s[d].cmds < MaxCmds
    /\ \A d \in 1..Len(s) : s[d].k = "word" => s[d].nm \in Names
    /\ \A d \in 1..Len(s) : Saved(s, d)

(* Both look at the kinds and the names of the constructs only. *)
LEMMA Agree ==
    ASSUME NEW s, NEW t, NEW n \in Int, NEW c,
           \A e \in 1..n : t[e].k = s[e].k /\ t[e].nm = s[e].nm
    PROVE  /\ Redirected(t, n) <=> Redirected(s, n)
           /\ Captured(t, n, c) <=> Captured(s, n, c)
<1>1. Redirected(t, n) <=> Redirected(s, n)
  BY DEF Redirected
<1>2. \A e \in 1..n : \A j \in (e + 1)..n : j \in 1..n
  OBVIOUS
<1>3. Captured(t, n, c) <=> Captured(s, n, c)
  BY <1>2 DEF Captured
<1> QED
  BY <1>1, <1>3

(* One construct more. *)
LEMMA Further ==
    ASSUME NEW s, NEW n \in Nat, NEW c
    PROVE  /\ Redirected(s, n + 1) <=> Redirected(s, n) \/ s[n + 1].k \in {"pipe", "word"}
           /\ s[n + 1].k # "word" => (Captured(s, n + 1, c) <=> Captured(s, n, c))
           /\ s[n + 1].k = "word" => Captured(s, n + 1, s[n + 1].nm)
<1>1. \A e : e \in 1..(n + 1) <=> e \in 1..n \/ e = n + 1
  OBVIOUS
<1>2. \A e \in 1..n : \A j : j \in (e + 1)..(n + 1) <=> j \in (e + 1)..n \/ j = n + 1
  OBVIOUS
<1>3. (n + 1 + 1)..(n + 1) = {}
  OBVIOUS
<1>4. Redirected(s, n + 1) <=> Redirected(s, n) \/ s[n + 1].k \in {"pipe", "word"}
  BY <1>1, Zenon DEF Redirected
<1>5. s[n + 1].k # "word" => (Captured(s, n + 1, c) <=> Captured(s, n, c))
  BY <1>1, <1>2, Zenon DEF Captured
<1>6. s[n + 1].k = "word" => Captured(s, n + 1, s[n + 1].nm)
  BY <1>1, <1>3 DEF Captured
<1> QED
  BY <1>4, <1>5, <1>6

(* A stack whose constructs differ in sent, cmds and the stage only. *)
Alike(s, t) ==
    /\ Len(t) = Len(s)
    /\ \A d \in 1..Len(s) : /\ t[d].k = s[d].k /\ t[d].nm = s[d].nm
                            /\ t[d].pr = s[d].pr /\ t[d].pc = s[d].pc

(* Constructs that saved the same have the same globals. *)
LEMMA AlikeStack ==
    ASSUME NEW s, NEW t, NEW r, NEW c, StackOK(s), Alike(s, t), t \in Seq(Construct),
           \A d \in 1..(Len(s) - 1) : t[d].cmds < MaxCmds, Globals(s, r, c)
    PROVE  StackOK(t) /\ Globals(t, r, c)
<1>1. Len(s) \in Nat /\ Len(t) = Len(s)
  BY DEF StackOK, Alike
<1>2. Globals(t, r, c)
  <2>1. /\ Redirected(t, Len(s)) <=> Redirected(s, Len(s))
        /\ Captured(t, Len(s), c) <=> Captured(s, Len(s), c)
    <3> DEFINE n == Len(s)
    <3>1. n \in Int /\ \A e \in 1..n : t[e].k = s[e].k /\ t[e].nm = s[e].nm
      BY <1>1 DEF Alike
    <3> HIDE DEF n
    <3>2. /\ Redirected(t, n) <=> Redirected(s, n)
          /\ Captured(t, n, c) <=> Captured(s, n, c)
      BY <3>1, Agree
    <3> QED
      BY <3>2 DEF n
  <2> QED
    BY <1>1, <2>1 DEF Globals
<1>3. ASSUME NEW d \in 1..Len(s)
      PROVE  Saved(t, d)
  <2>1. d - 1 \in Int /\ \A e \in 1..(d - 1) : e \in 1..Len(s)
    BY <1>1
  <2>2. \A e \in 1..(d - 1) : t[e].k = s[e].k /\ t[e].nm = s[e].nm
    BY <2>1 DEF Alike
  <2>3. /\ Redirected(t, d - 1) <=> Redirected(s, d - 1)
        /\ Captured(t, d - 1, s[d].pc) <=> Captured(s, d - 1, s[d].pc)
    BY <2>1, <2>2, Agree
  <2>4. Saved(s, d) /\ t[d].k = s[d].k /\ t[d].pr = s[d].pr /\ t[d].pc = s[d].pc
    BY DEF StackOK, Alike
  <2> QED
    BY <2>3, <2>4, Zenon DEF Saved
<1>4. \A d \in 1..Len(s) : t[d].k = "word" => t[d].nm \in Names
  BY DEF StackOK, Alike
<1> QED
  BY <1>1, <1>2, <1>3, <1>4 DEF StackOK

(* A construct that starts saves the globals as they are. *)
LEMMA PushConstruct ==
    ASSUME NEW s, NEW r, NEW c, NEW a \in Construct, StackOK(s), Globals(s, r, c),
           Len(s) < MaxDepth, s # <<>> => TopOf(s).cmds < MaxCmds,
           a.pr = r, a.pc = c, a.k = "word" => a.nm \in Names,
           NEW q, a.k \in {"pipe", "word"} => q = TRUE, a.k = "call" => q = r
    PROVE  /\ StackOK(Append(s, a))
           /\ Globals(Append(s, a), q, IF a.k = "word" THEN a.nm ELSE c)
<1> DEFINE n == Len(s)
           t == Append(s, a)
<1>1. n \in Nat /\ s \in Seq(Construct) /\ n < MaxDepth
  BY DEF StackOK
<1>2. /\ t \in Seq(Construct) /\ Len(t) = n + 1
      /\ \A e \in 1..n : t[e] = s[e]
      /\ t[n + 1] = a
  BY <1>1, AppendProperties
<1> HIDE DEF n, t
<1>3. \A d \in 1..(n + 1) : d \in 1..n \/ d = n + 1
  BY <1>1
<1>4. \A d \in 1..n : d \in 1..(n - 1) \/ (d = n /\ s # <<>>)
  BY <1>1 DEF n
<1>5. \A d \in 1..n : t[d].cmds < MaxCmds
  BY <1>2, <1>4 DEF StackOK, TopOf, n
<1>6. \A d \in 1..(n + 1) : t[d].k = "word" => t[d].nm \in Names
  BY <1>2, <1>3 DEF StackOK, n
<1>7. \A m \in Int : m <= n => \A z : /\ Redirected(t, m) <=> Redirected(s, m)
                                      /\ Captured(t, m, z) <=> Captured(s, m, z)
  <2> SUFFICES ASSUME NEW m \in Int, m <= n, NEW z
               PROVE  /\ Redirected(t, m) <=> Redirected(s, m)
                      /\ Captured(t, m, z) <=> Captured(s, m, z)
    OBVIOUS
  <2>1. \A e \in 1..m : t[e] = s[e]
    BY <1>1, <1>2
  <2> QED
    BY <2>1, Agree
<1>8. ASSUME NEW d \in 1..n
      PROVE  Saved(t, d)
  <2>1. d - 1 \in Int /\ d - 1 <= n
    BY <1>1
  <2>2. Saved(s, d) /\ t[d] = s[d]
    BY <1>2 DEF StackOK, n
  <2> QED
    BY <1>7, <2>1, <2>2 DEF Saved
<1>9. (r <=> Redirected(t, n)) /\ Captured(t, n, c)
  BY <1>1, <1>7 DEF Globals, n
<1>10. Saved(t, n + 1)
  <2> DEFINE m == n + 1
  <2>1. m - 1 = n /\ t[m] = a
    BY <1>1, <1>2
  <2> HIDE DEF m
  <2>2. (a.pr <=> Redirected(t, n)) /\ Captured(t, n, a.pc)
    BY <1>9, Zenon
  <2>3. (a.pr <=> Redirected(t, m - 1)) /\ Captured(t, m - 1, a.pc)
    BY <2>1, <2>2, Zenon
  <2>4. (t[m].pr <=> Redirected(t, m - 1)) /\ Captured(t, m - 1, t[m].pc)
    BY <2>1, <2>3, Zenon
  <2>5. Saved(t, m)
    BY <2>4, Zenon DEF Saved
  <2> QED
    BY <2>5 DEF m
<1>11. StackOK(t)
  <2>1. n + 1 <= MaxDepth /\ Len(t) - 1 = n
    BY <1>1, <1>2, BoundsAssumption
  <2>2. \A d \in 1..(n + 1) : Saved(t, d)
    BY <1>3, <1>8, <1>10
  <2> QED
    BY <1>2, <1>5, <1>6, <2>1, <2>2, Zenon DEF StackOK
<1>12. /\ Redirected(t, n + 1) <=> Redirected(t, n) \/ a.k \in {"pipe", "word"}
       /\ a.k # "word" => (Captured(t, n + 1, c) <=> Captured(t, n, c))
       /\ a.k = "word" => Captured(t, n + 1, a.nm)
  BY <1>1, <1>2, Further
<1>13. a.k \in {"pipe", "word"} \/ a.k = "call"
  BY DEF Construct, Constructs
<1>14. Globals(t, q, IF a.k = "word" THEN a.nm ELSE c)
  <2>1. q <=> Redirected(t, n + 1)
    BY <1>9, <1>12, <1>13
  <2>2. Captured(t, n + 1, IF a.k = "word" THEN a.nm ELSE c)
    BY <1>9, <1>12
  <2> QED
    BY <1>2, <2>1, <2>2 DEF Globals
<1> QED
  BY <1>11, <1>14 DEF t

(* A construct that ends puts back what it saved, or changed nothing. *)
LEMMA PopConstruct ==
    ASSUME NEW s, NEW r, NEW c, NEW q, NEW b, StackOK(s), Globals(s, r, c), s # <<>>,
           IF TopOf(s).k \in {"pipe", "word"} THEN q = TopOf(s).pr ELSE q = r,
           IF TopOf(s).k = "word" THEN b = TopOf(s).pc ELSE b = c
    PROVE  LET t == SubSeq(s, 1, Len(s) - 1)
           IN  /\ StackOK(t) /\ Globals(t, q, b)
               /\ t # <<>> => TopOf(t).cmds < MaxCmds
<1> DEFINE n == Len(s) - 1
           t == SubSeq(s, 1, n)
<1>1. n \in Nat /\ s \in Seq(Construct) /\ Len(s) = n + 1 /\ n + 1 <= MaxDepth /\ MaxDepth \in Nat
  BY BoundsAssumption DEF StackOK
<1>2. t \in Seq(Construct) /\ Len(t) = n /\ \A d \in 1..n : t[d] = s[d]
  BY <1>1, FrontIs
<1>3. \A d \in 1..n : s[d].cmds < MaxCmds
  BY <1>1 DEF StackOK
<1>4. TopOf(s) = s[n + 1]
  BY <1>1 DEF TopOf
<1> HIDE DEF n, t
<1>5. \A m \in Int : m <= n => \A z : /\ Redirected(t, m) <=> Redirected(s, m)
                                      /\ Captured(t, m, z) <=> Captured(s, m, z)
  <2> SUFFICES ASSUME NEW m \in Int, m <= n, NEW z
               PROVE  /\ Redirected(t, m) <=> Redirected(s, m)
                      /\ Captured(t, m, z) <=> Captured(s, m, z)
    OBVIOUS
  <2>1. \A e \in 1..m : t[e] = s[e]
    BY <1>1, <1>2
  <2> QED
    BY <2>1, Agree
<1>6. ASSUME NEW d \in 1..n
      PROVE  Saved(t, d)
  <2>1. d - 1 \in Int /\ d - 1 <= n /\ d \in 1..Len(s)
    BY <1>1
  <2>2. Saved(s, d) /\ t[d] = s[d]
    BY <1>2, <2>1 DEF StackOK
  <2> QED
    BY <1>5, <2>1, <2>2 DEF Saved
<1>7. StackOK(t)
  <2>1. \A d \in 1..n : t[d].k = "word" => t[d].nm \in Names
    BY <1>1, <1>2 DEF StackOK
  <2>2. \A d \in 1..(n - 1) : t[d].cmds < MaxCmds
    BY <1>1, <1>2, <1>3
  <2>3. n <= MaxDepth
    BY <1>1
  <2> QED
    BY <1>2, <1>6, <2>1, <2>2, <2>3 DEF StackOK
<1>8. t # <<>> => TopOf(t).cmds < MaxCmds
  BY <1>1, <1>2, <1>3 DEF TopOf
<1>9. /\ Redirected(s, n + 1) <=> Redirected(s, n) \/ s[n + 1].k \in {"pipe", "word"}
      /\ s[n + 1].k # "word" => (Captured(s, n + 1, c) <=> Captured(s, n, c))
  BY <1>1, Further
<1>10. Saved(s, n + 1) /\ n + 1 - 1 = n
  BY <1>1 DEF StackOK
<1>11. q <=> Redirected(s, n)
  BY <1>1, <1>4, <1>9, <1>10 DEF Globals, Saved
<1>12. Captured(s, n, b)
  BY <1>1, <1>4, <1>9, <1>10 DEF Globals, Saved
<1>13. Globals(t, q, b)
  BY <1>1, <1>2, <1>5, <1>11, <1>12 DEF Globals
<1> QED
  BY <1>7, <1>8, <1>13 DEF t, n

-----------------------------------------------------------------------------
(* Marks on the stack: Sent and Counted change neither what a construct is *)
(* nor what it saved.                                                      *)

(* The stages, and the commands counted below the top, are the same. *)
SameStages(s, t) ==
    /\ \A d \in 1..Len(s) : t[d].i = s[d].i
    /\ \A d \in 1..(Len(s) - 1) : t[d].cmds = s[d].cmds

(* The fields a mark leaves alone, in a record that is still a construct. *)
Kept(c, a) ==
    a \in Construct /\ a.k = c.k /\ a.nm = c.nm /\ a.pr = c.pr /\ a.pc = c.pc

(* A construct of the stack replaced by one that is kept in this sense. *)
LEMMA ReplaceConstruct ==
    ASSUME NEW s \in Seq(Construct), NEW d \in 1..Len(s), NEW a, Kept(s[d], a)
    PROVE  /\ [s EXCEPT ![d] = a] \in Seq(Construct)
           /\ Alike(s, [s EXCEPT ![d] = a])
           /\ [s EXCEPT ![d] = a][d] = a
           /\ \A e \in 1..Len(s) : e # d => [s EXCEPT ![d] = a][e] = s[e]
<1> DEFINE t == [s EXCEPT ![d] = a]
<1>1. a \in Construct
  BY DEF Kept
<1>2. t \in Seq(Construct) /\ Len(t) = Len(s) /\ t[d] = a
      /\ \A e \in 1..Len(s) : e # d => t[e] = s[e]
  BY <1>1
<1> HIDE DEF t
<1>3. ASSUME NEW e \in 1..Len(s)
      PROVE  /\ t[e].k = s[e].k /\ t[e].nm = s[e].nm
             /\ t[e].pr = s[e].pr /\ t[e].pc = s[e].pc
  <2>1. CASE e = d
    BY <1>2, <2>1, Zenon DEF Kept
  <2>2. CASE e # d
    BY <1>2, <2>2, Zenon
  <2> QED
    BY <2>1, <2>2
<1>4. Alike(s, t)
  BY <1>2, <1>3, Zenon DEF Alike
<1> QED
  BY <1>2, <1>4 DEF t

(* The innermost receiver is a construct of the stack. *)
LEMMA DestInStack ==
    ASSUME NEW s \in Seq(Construct)
    PROVE  /\ Dest(s) \in 0..Len(s)
           /\ Dest(s) # 0 => Dest(s) \in 1..Len(s) /\ s[Dest(s)].k \in {"pipe", "word"}
<1>1. CASE Receivers(s) = {}
  BY <1>1 DEF Dest
<1>2. CASE Receivers(s) # {}
  <2>1. Receivers(s) \subseteq 1..Len(s) /\ Len(s) \in Nat
    BY DEF Receivers
  <2>2. \E d \in Receivers(s) : \A e \in Receivers(s) : e <= d
    BY <1>2, <2>1, GreatestNumber, SMTT(30)
  <2>3. Dest(s) \in Receivers(s)
    BY <1>2, <2>2 DEF Dest
  <2> QED
    BY <2>1, <2>3 DEF Receivers
<1> QED
  BY <1>1, <1>2

(* Marking what was sent changes nothing else of the constructs. *)
LEMMA SentStack ==
    ASSUME NEW s \in Seq(Construct), NEW yes
    PROVE  /\ Sent(s, yes) \in Seq(Construct) /\ Alike(s, Sent(s, yes))
           /\ SameStages(s, Sent(s, yes))
           /\ \A d \in 1..Len(s) : Sent(s, yes)[d].cmds = s[d].cmds
<1>1. CASE ~(yes /\ Dest(s) # 0)
  <2>1. Sent(s, yes) = s
    BY <1>1 DEF Sent
  <2> QED
    BY <2>1 DEF Alike, SameStages
<1>2. CASE yes /\ Dest(s) # 0
  <2> DEFINE d == Dest(s)
             a == [s[d] EXCEPT !.sent = TRUE]
             t == [s EXCEPT ![d] = a]
  <2>1. d \in 1..Len(s)
    BY <1>2, DestInStack
  <2>2. Sent(s, yes) = t
    BY <1>2 DEF Sent
  <2> HIDE DEF d
  <2>3. s[d] \in Construct
    BY <2>1
  <2>4. Kept(s[d], a) /\ a.i = s[d].i /\ a.cmds = s[d].cmds
    BY <2>3 DEF Kept, Construct
  <2> HIDE DEF a
  <2>5. /\ t \in Seq(Construct) /\ Alike(s, t) /\ t[d] = a
        /\ \A e \in 1..Len(s) : e # d => t[e] = s[e]
    BY <2>1, <2>4, ReplaceConstruct
  <2> HIDE DEF t
  <2>6. \A e \in 1..Len(s) : t[e].i = s[e].i /\ t[e].cmds = s[e].cmds
    BY <2>4, <2>5, Zenon
  <2>7. \A e \in 1..(Len(s) - 1) : e \in 1..Len(s)
    OBVIOUS
  <2>8. SameStages(s, t)
    BY <2>6, <2>7, Zenon DEF SameStages
  <2> QED
    BY <2>2, <2>5, <2>6, <2>8, Zenon
<1> QED
  BY <1>1, <1>2

(* Counting a command changes nothing else of the constructs. *)
LEMMA CountedStack ==
    ASSUME NEW s \in Seq(Construct), s # <<>> => TopOf(s).cmds < MaxCmds
    PROVE  /\ Counted(s) \in Seq(Construct) /\ Alike(s, Counted(s))
           /\ SameStages(s, Counted(s))
<1>1. CASE s = <<>>
  <2>1. Counted(s) = s
    BY <1>1 DEF Counted
  <2> QED
    BY <2>1 DEF Alike, SameStages
<1>2. CASE s # <<>>
  <2> DEFINE d == Len(s)
             a == [s[d] EXCEPT !.cmds = s[d].cmds + 1]
             t == [s EXCEPT ![d] = a]
  <2>1. d \in 1..Len(s)
    BY <1>2
  <2>0. \A e \in 1..(Len(s) - 1) : e \in 1..Len(s) /\ e # d
    OBVIOUS
  <2>2. Counted(s) = t
    BY <1>2 DEF Counted
  <2>3. s[d].cmds < MaxCmds
    BY <1>2 DEF TopOf
  <2> HIDE DEF d
  <2>4. s[d] \in Construct
    BY <2>1
  <2>5. s[d].cmds \in 0..MaxCmds
    BY <2>4 DEF Construct
  <2>6. s[d].cmds + 1 \in 0..MaxCmds
    BY <2>3, <2>5, BoundsAssumption
  <2>7. Kept(s[d], a) /\ a.i = s[d].i
    BY <2>4, <2>6 DEF Kept, Construct
  <2> HIDE DEF a
  <2>8. /\ t \in Seq(Construct) /\ Alike(s, t) /\ t[d] = a
        /\ \A e \in 1..Len(s) : e # d => t[e] = s[e]
    BY <2>1, <2>7, ReplaceConstruct
  <2> HIDE DEF t
  <2>9. \A e \in 1..Len(s) : t[e].i = s[e].i
    BY <2>7, <2>8, Zenon
  <2>11. SameStages(s, t)
    BY <2>0, <2>8, <2>9, Zenon DEF SameStages
  <2> QED
    BY <2>2, <2>8, <2>11, Zenon
<1> QED
  BY <1>1, <1>2

-----------------------------------------------------------------------------
(* Owners: the construct that will remove a temporary file.  A stage of a  *)
(* pipeline owns the file it reads and the one it writes.                  *)
Owns(c, nm) ==
    IF c.k = "pipe" THEN nm \in {PipeTmp(c.i), PipeTmp(c.i - 1)} ELSE nm = c.nm

Owned(s, P) == \A nm \in P : nm # UserFile => \E d \in 1..Len(s) : Owns(s[d], nm)

(* The innermost construct can run one more command. *)
Ready(s) == s # <<>> => TopOf(s).cmds < MaxCmds

(* A marked stack is as good as the one before it. *)
LEMMA MarkedStack ==
    ASSUME NEW s, NEW t, NEW r, NEW c, StackOK(s), Globals(s, r, c),
           t \in Seq(Construct), Alike(s, t), SameStages(s, t)
    PROVE  /\ StackOK(t) /\ Globals(t, r, c)
           /\ \A P : Owned(s, P) => Owned(t, P)
<1>1. \A d \in 1..(Len(s) - 1) : t[d].cmds < MaxCmds
  BY Zenon DEF StackOK, SameStages
<1>2. StackOK(t) /\ Globals(t, r, c)
  BY <1>1, AlikeStack
<1>3. ASSUME NEW d \in 1..Len(s), NEW nm, Owns(s[d], nm)
      PROVE  Owns(t[d], nm)
  <2>1. t[d].k = s[d].k /\ t[d].nm = s[d].nm /\ t[d].i = s[d].i
    BY DEF Alike, SameStages
  <2> QED
    BY <1>3, <2>1, Zenon DEF Owns
<1>4. Len(t) = Len(s)
  BY DEF Alike
<1>5. \A P : Owned(s, P) => Owned(t, P)
  BY <1>3, <1>4, Zenon DEF Owned
<1> QED
  BY <1>2, <1>5

(* Marking what was sent keeps the invariant of the stack. *)
LEMMA SentOK ==
    ASSUME NEW s, NEW r, NEW c, StackOK(s), Globals(s, r, c), NEW yes
    PROVE  /\ StackOK(Sent(s, yes)) /\ Globals(Sent(s, yes), r, c)
           /\ \A P : Owned(s, P) => Owned(Sent(s, yes), P)
           /\ Ready(s) => Ready(Sent(s, yes))
<1> DEFINE t == Sent(s, yes)
<1>1. s \in Seq(Construct)
  BY DEF StackOK
<1>2. /\ t \in Seq(Construct) /\ Alike(s, t) /\ SameStages(s, t)
      /\ \A d \in 1..Len(s) : t[d].cmds = s[d].cmds
  BY <1>1, SentStack
<1> HIDE DEF t
<1>3. StackOK(t) /\ Globals(t, r, c) /\ \A P : Owned(s, P) => Owned(t, P)
  BY <1>2, MarkedStack
<1>4. Ready(s) => Ready(t)
  <2>1. Len(t) = Len(s)
    BY <1>2 DEF Alike
  <2>2. t # <<>> => s # <<>> /\ Len(s) \in 1..Len(s)
    BY <1>1, <1>2, <2>1
  <2> QED
    BY <1>2, <2>1, <2>2, Zenon DEF Ready, TopOf
<1> QED
  BY <1>3, <1>4 DEF t

(* Counting a command keeps the invariant of the stack. *)
LEMMA CountedOK ==
    ASSUME NEW s, NEW r, NEW c, StackOK(s), Globals(s, r, c), Ready(s)
    PROVE  /\ StackOK(Counted(s)) /\ Globals(Counted(s), r, c)
           /\ \A P : Owned(s, P) => Owned(Counted(s), P)
<1> DEFINE t == Counted(s)
<1>1. s \in Seq(Construct)
  BY DEF StackOK
<1>2. t \in Seq(Construct) /\ Alike(s, t) /\ SameStages(s, t)
  BY <1>1, CountedStack DEF Ready
<1> HIDE DEF t
<1>3. StackOK(t) /\ Globals(t, r, c) /\ \A P : Owned(s, P) => Owned(t, P)
  BY <1>2, MarkedStack
<1> QED
  BY <1>3 DEF t

(* The file of a construct that starts has an owner. *)
LEMMA OwnedPush ==
    ASSUME NEW s \in Seq(Construct), NEW a \in Construct, NEW P, NEW Q, NEW x,
           Owned(s, P), Q \subseteq P \cup {x}, Owns(a, x)
    PROVE  Owned(Append(s, a), Q)
<1> DEFINE n == Len(s)
           t == Append(s, a)
<1>1. n \in Nat
  OBVIOUS
<1>2. Len(t) = n + 1 /\ t[n + 1] = a /\ \A e \in 1..n : t[e] = s[e]
  BY AppendProperties
<1>3. n + 1 \in 1..(n + 1) /\ \A e \in 1..n : e \in 1..(n + 1)
  BY <1>1
<1> HIDE DEF t
<1> SUFFICES ASSUME NEW nm \in Q, nm # UserFile
             PROVE  \E d \in 1..(n + 1) : Owns(t[d], nm)
  BY <1>2 DEF Owned, t
<1>4. CASE nm = x
  BY <1>2, <1>3, <1>4, Zenon
<1>5. CASE nm \in P
  <2>1. PICK d \in 1..n : Owns(s[d], nm)
    BY <1>5 DEF Owned
  <2>2. Owns(t[d], nm) /\ d \in 1..(n + 1)
    BY <1>2, <1>3, <2>1, Zenon
  <2> QED
    BY <2>2
<1> QED
  BY <1>4, <1>5

(* The files of a construct that ends are gone. *)
LEMMA OwnedPop ==
    ASSUME NEW s \in Seq(Construct), s # <<>>, NEW P, NEW Q,
           Owned(s, P), Q \subseteq P, \A nm \in Q : nm # UserFile => ~Owns(TopOf(s), nm)
    PROVE  Owned(SubSeq(s, 1, Len(s) - 1), Q)
<1> DEFINE n == Len(s) - 1
           t == SubSeq(s, 1, n)
<1>1. n \in Nat /\ Len(s) = n + 1
  OBVIOUS
<1>2. Len(t) = n /\ \A e \in 1..n : t[e] = s[e]
  BY <1>1, FrontIs
<1> HIDE DEF t, n
<1>3. \A e \in 1..(n + 1) : e \in 1..n \/ e = n + 1
  BY <1>1
<1>4. TopOf(s) = s[n + 1]
  BY <1>1 DEF TopOf
<1> SUFFICES ASSUME NEW nm \in Q, nm # UserFile
             PROVE  \E d \in 1..n : Owns(t[d], nm)
  BY <1>2 DEF Owned, t, n
<1>5. PICK d \in 1..(n + 1) : Owns(s[d], nm)
  BY <1>1 DEF Owned
<1>6. d # n + 1
  BY <1>4, <1>5
<1>7. d \in 1..n
  BY <1>3, <1>6
<1> QED
  BY <1>2, <1>5, <1>7, Zenon

(* The file that wsh_capture_file names belongs to a substitution. *)
LEMMA OwnedCapture ==
    ASSUME NEW s, NEW P, NEW Q, NEW x, Owned(s, P), Q \subseteq P \cup {x},
           Captured(s, Len(s), x), x # NULL
    PROVE  Owned(s, Q)
<1>1. PICK d \in 1..Len(s) : s[d].k = "word" /\ s[d].nm = x
  BY Zenon DEF Captured
<1>2. Owns(s[d], x)
  BY <1>1 DEF Owns
<1> QED
  BY <1>2, Zenon DEF Owned

-----------------------------------------------------------------------------
(* The inductive invariant.  A pipeline whose freopen() fails returns      *)
(* without removing its files, so they have owners only where none fails.  *)
IInv ==
    /\ TypeOK
    /\ StackOK(stack)
    /\ Globals(stack, redirected, capture)
    /\ "fault" \notin Syntax => Owned(stack, Present(fs))

(* The tags of output are bounded by the depth of the stack. *)
LEMMA TagsHas ==
    ASSUME NEW s, StackOK(s)
    PROVE  Dest(s) \in Tags /\ 0 \in Tags /\ UserTag \in Tags /\ Wants(s) \in SUBSET Tags
<1>1. s \in Seq(Construct) /\ Len(s) \in Nat /\ Len(s) <= MaxDepth /\ MaxDepth \in Nat
  BY BoundsAssumption DEF StackOK
<1>2. Dest(s) \in 0..Len(s)
  BY <1>1, DestInStack
<1> QED
  BY <1>1, <1>2 DEF Tags, UserTag, Wants

(* No construct is open when the script starts. *)
LEMMA StdioInit == Init => IInv
<1> SUFFICES ASSUME Init PROVE IInv
  OBVIOUS
<1> DEFINE dir == [nm \in Names |-> IF nm = UserFile THEN 1 ELSE 0]
           data == [i \in Inodes |-> IF i = 1 THEN {UserTag} ELSE {}]
<1>1. UserTag \in Tags
  BY BoundsAssumption DEF Tags, UserTag
<1>2. 1 \in Inodes
  BY NamesFinite DEF Inodes
<1>3. dir \in [Names -> Inodes \cup {0}] /\ data \in [Inodes -> SUBSET Tags]
  BY <1>1, <1>2
<1>4. fs = [dir |-> dir, data |-> data, out |-> 0, in |-> 0]
  BY DEF Init
<1>5. \A nm \in Names : nm # UserFile => dir[nm] = 0
  OBVIOUS
<1> HIDE DEF dir, data
<1>6. fs \in Files /\ fs.dir = dir
  BY <1>3, <1>4, FilesMade
<1>7. TypeOK
  <2>0. stack \in Seq(Construct)
    BY DEF Init
  <2>1. redirected \in BOOLEAN /\ view \in [out : BOOLEAN, stage : BOOLEAN]
    BY Zenon DEF Init
  <2>2. /\ capture \in Names \cup {NULL} /\ stdout_file \in Pointers
        /\ stdin_file \in Pointers /\ term \subseteq Tags
        /\ handover \in [want : SUBSET Tags, got : SUBSET Tags]
    BY DEF Init, Pointers
  <2> QED
    BY <1>6, <2>0, <2>1, <2>2 DEF TypeOK
<1>8. StackOK(stack) /\ Globals(stack, redirected, capture)
  BY BoundsAssumption DEF Init, StackOK, Globals, Redirected, Captured
<1>9. Owned(stack, Present(fs))
  BY <1>5, <1>6 DEF Owned, Present
<1> QED
  BY <1>7, <1>8, <1>9 DEF IInv

(* A simple command writes, and creates at most the file of the script. *)
LEMMA SimpleStep == IInv /\ RunSimpleCommand => IInv'
<1> SUFFICES ASSUME IInv, RunSimpleCommand PROVE IInv'
  OBVIOUS
<1> PICK kind \in {"applet", "builtin", "guest"} \cap Syntax,
         redir \in {"none"} \cup ({"out", "in"} \cap Syntax),
         says \in BOOLEAN, opens \in Opens :
         SimpleCommand(kind, redir, says, opens)
  BY DEF RunSimpleCommand
<1> DEFINE cap == CaptureTmp(Depth + 1)
           need_capture == ~redirected /\ opens
           f1 == IF redirected THEN fs
                 ELSE IF opens THEN ReopenOut(fs, cap, TRUE) ELSE CloseOut(fs)
           so1 == IF need_capture THEN cap ELSE stdout_file
           f2 == CASE redir = "out" -> ReopenOut(f1, UserFile, TRUE)
                   [] redir = "in" -> ReopenIn(f1, UserFile)
                   [] OTHER -> f1
           process == kind # "builtin"
           so2 == IF process /\ redir = "out" THEN UserFile ELSE so1
           si2 == IF process /\ redir = "in" THEN UserFile ELSE stdin_file
           inode(p) == IF p \in Names THEN f2.dir[p] ELSE 0
           target == IF kind = "guest" THEN inode(so2) ELSE f2.out
           tag == IF redir = "out" THEN UserTag ELSE Dest(stack)
           f3 == Write(f2, target, IF says THEN {tag} ELSE {})
           gone(p) == IF p \in {cap, UserFile} THEN Dangling ELSE p
           got == IF need_capture THEN Read(f3, cap) ELSE {}
           want == IF says THEN {0} ELSE {}
<1>1. /\ stack \in Seq(Construct) /\ redirected \in BOOLEAN /\ capture \in Names \cup {NULL}
      /\ stdout_file \in Pointers /\ stdin_file \in Pointers /\ fs \in Files
      /\ term \subseteq Tags /\ handover \in [want : SUBSET Tags, got : SUBSET Tags]
      /\ StackOK(stack) /\ Globals(stack, redirected, capture)
  BY DEF IInv, TypeOK
<1>2. cap \in Names /\ UserFile \in Names
  <2>1. Depth + 1 \in 1..(MaxDepth + 1)
    BY <1>1, BoundsAssumption DEF StackOK, Depth
  <2> QED
    BY <2>1, NamesHas
<1>3. /\ stack' = Sent(Counted(stack), says /\ redir # "out")
      /\ view' = [out |-> kind = "guest" => inode(so2) = f2.out,
                  stage |-> redir = "in" \/ ReadsStage]
      /\ fs' = IF need_capture THEN Unlink(f3, cap) ELSE f3
      /\ term' = IF need_capture THEN term \cup Read(f3, cap) ELSE term
      /\ handover' = IF ~redirected /\ redir # "out"
                     THEN [want |-> want, got |-> got]
                     ELSE handover
      /\ stdout_file' = gone(so2)
      /\ stdin_file' = gone(si2)
      /\ UNCHANGED <<redirected, capture>>
  BY Zenon DEF SimpleCommand
<1> HIDE DEF cap
<1>4. /\ f1 \in Files
      /\ need_capture => Present(f1) = Present(fs) \cup {cap}
      /\ ~need_capture => Present(f1) = Present(fs)
  BY <1>1, <1>2, ReopenOutFiles, CloseFiles
<1>5. so1 \in Pointers
  BY <1>1, <1>2 DEF Pointers
<1> HIDE DEF f1, so1
<1>6. f2 \in Files /\ Present(f2) \subseteq Present(f1) \cup {UserFile}
  <2> HIDE DEF f2
  <2>1. CASE redir = "out"
    <3>1. f2 = ReopenOut(f1, UserFile, TRUE)
      BY <2>1 DEF f2
    <3> QED
      BY <1>2, <1>4, <3>1, ReopenOutFiles
  <2>2. CASE redir = "in"
    <3>1. f2 = ReopenIn(f1, UserFile)
      BY <2>2 DEF f2
    <3> QED
      BY <1>2, <1>4, <3>1, ReopenInFiles
  <2>3. CASE redir = "none"
    <3>1. f2 = f1
      BY <2>3 DEF f2
    <3> QED
      BY <1>4, <3>1
  <2>4. redir = "out" \/ redir = "in" \/ redir = "none"
    OBVIOUS
  <2> QED
    BY <2>1, <2>2, <2>3, <2>4, Zenon
<1>7. so2 \in Pointers /\ si2 \in Pointers
  BY <1>1, <1>2, <1>5 DEF Pointers
<1>8. gone(so2) \in Pointers /\ gone(si2) \in Pointers
  BY <1>7 DEF Pointers
<1> HIDE DEF f2, so2, si2
<1>9. target \in Inodes \cup {0}
  BY <1>6, FilesParts
<1>10. tag \in Tags /\ 0 \in Tags
  BY <1>1, TagsHas
<1>11. (IF says THEN {tag} ELSE {}) \in SUBSET Tags
  BY <1>10
<1> HIDE DEF target, tag
<1>12. f3 \in Files /\ Present(f3) = Present(f2)
  BY <1>6, <1>9, <1>11, WriteFiles
<1> HIDE DEF f3
<1>13. Read(f3, cap) \in SUBSET Tags
  BY <1>2, <1>12, ReadFiles
<1>14. fs' \in Files /\ Present(fs') \subseteq Present(fs) \cup {UserFile}
  <2>1. CASE need_capture
    <3>1. fs' = Unlink(f3, cap)
      BY <1>3, <2>1
    <3> QED
      BY <1>2, <1>4, <1>6, <1>12, <2>1, <3>1, UnlinkFiles
  <2>2. CASE ~need_capture
    <3>1. fs' = f3
      BY <1>3, <2>2
    <3> QED
      BY <1>4, <1>6, <1>12, <2>2, <3>1
  <2> QED
    BY <2>1, <2>2
<1>15. term' \subseteq Tags
  BY <1>1, <1>3, <1>13
<1>16. handover' \in [want : SUBSET Tags, got : SUBSET Tags]
  <2>1. want \in SUBSET Tags /\ got \in SUBSET Tags
    BY <1>10, <1>13
  <2> HIDE DEF want, got
  <2> QED
    BY <1>1, <1>3, <2>1
<1>17. view' \in [out : BOOLEAN, stage : BOOLEAN]
  <2> DEFINE a == kind = "guest" => inode(so2) = f2.out
             c == redir = "in" \/ ReadsStage
  <2>1. a \in BOOLEAN /\ c \in BOOLEAN
    BY Zenon
  <2>2. view' = [out |-> a, stage |-> c]
    BY <1>3
  <2> HIDE DEF a, c
  <2> QED
    BY <2>1, <2>2
<1>18. Ready(stack)
  BY DEF RunSimpleCommand, MayRun, Ready
<1>19. /\ StackOK(Counted(stack)) /\ Globals(Counted(stack), redirected, capture)
       /\ \A P : Owned(stack, P) => Owned(Counted(stack), P)
  BY <1>1, <1>18, CountedOK
<1>20. /\ StackOK(stack') /\ Globals(stack', redirected, capture)
       /\ \A P : Owned(stack, P) => Owned(stack', P)
  BY <1>3, <1>19, SentOK
<1>21. Owned(stack, Present(fs)) => Owned(stack', Present(fs'))
  <2>1. Owned(stack, Present(fs)) => Owned(stack, Present(fs'))
    BY <1>14 DEF Owned
  <2> QED
    BY <1>20, <2>1
<1>22. redirected' = redirected /\ capture' = capture
  BY <1>3
<1>23. stack' \in Seq(Construct)
  BY <1>20 DEF StackOK
<1>24. TypeOK'
  BY <1>1, <1>3, <1>8, <1>14, <1>15, <1>16, <1>17, <1>22, <1>23 DEF TypeOK
<1> QED
  BY <1>20, <1>21, <1>22, <1>24 DEF IInv

(* What every action starts from. *)
LEMMA IInvParts ==
    ASSUME IInv
    PROVE  /\ stack \in Seq(Construct) /\ redirected \in BOOLEAN /\ capture \in Names \cup {NULL}
           /\ stdout_file \in Pointers /\ stdin_file \in Pointers /\ fs \in Files
           /\ term \subseteq Tags /\ handover \in [want : SUBSET Tags, got : SUBSET Tags]
           /\ view \in [out : BOOLEAN, stage : BOOLEAN]
           /\ StackOK(stack) /\ Globals(stack, redirected, capture)
           /\ Len(stack) \in Nat /\ Len(stack) <= MaxDepth /\ MaxDepth \in Nat
BY BoundsAssumption DEF IInv, TypeOK, StackOK

(* A construct that starts is one: it saves what the globals hold. *)
LEMMA OpenConstruct ==
    ASSUME IInv, NEW k \in Constructs \ {"top"}, NEW n \in 0..MaxStages,
           NEW nm \in Names \cup {NULL}
    PROVE  LET a == Open(k, n, nm)
           IN  /\ a \in Construct /\ a.k = k /\ a.nm = nm /\ a.i = 0
               /\ a.pr = redirected /\ a.pc = capture
<1>1. 0 \in 0..MaxCmds /\ 0 \in 0..(MaxStages - 1)
  BY BoundsAssumption
<1>2. FALSE \in BOOLEAN
  BY Zenon
<1> QED
  BY <1>1, <1>2, IInvParts DEF Open, Construct

(* A function call redirects nothing. *)
LEMMA CallStep == IInv /\ CallFunction => IInv'
<1> SUFFICES ASSUME IInv, CallFunction PROVE IInv'
  OBVIOUS
<1> DEFINE cap == CaptureTmp(Depth + 1)
<1> PICK nm \in {cap, NULL} :
         /\ stack' = Append(stack, Open("call", 0, nm))
         /\ \/ nm = cap /\ stdout_file' = cap /\ fs' = ReopenOut(fs, cap, TRUE)
            \/ nm = NULL /\ UNCHANGED stdout_file /\ fs' \in {fs, CloseOut(fs)}
  BY DEF CallFunction
<1> DEFINE a == Open("call", 0, nm)
<1>1. Len(stack) < MaxDepth /\ Ready(stack)
  BY DEF CallFunction, MayNest, MayRun, Depth, Ready
<1>2. cap \in Names
  <2>1. Depth + 1 \in 1..(MaxDepth + 1)
    BY IInvParts DEF Depth
  <2> QED
    BY <2>1, NamesHas
<1>3. /\ stack' = Append(stack, a)
      /\ UNCHANGED <<redirected, capture, stdin_file, term, handover, view>>
  BY DEF CallFunction
<1> HIDE DEF cap
<1>4. fs' \in Files /\ Present(fs') \subseteq Present(fs) \cup {nm}
  <2>1. CASE fs' = fs
    BY <2>1, IInvParts
  <2>2. CASE fs' = CloseOut(fs)
    BY <2>2, IInvParts, CloseFiles
  <2>3. CASE nm = cap /\ fs' = ReopenOut(fs, cap, TRUE)
    <3>1. fs' \in Files /\ Present(fs') = Present(fs) \cup {cap}
      BY <1>2, <2>3, IInvParts, ReopenOutFiles
    <3> QED
      BY <2>3, <3>1
  <2> QED
    BY <2>1, <2>2, <2>3
<1>5. stdout_file' \in Pointers
  BY <1>2, <1>3, IInvParts DEF Pointers
<1>6. nm \in Names \cup {NULL}
  BY <1>2
<1>7. "call" \in Constructs \ {"top"} /\ 0 \in 0..MaxStages
  BY BoundsAssumption DEF Constructs
<1>8. /\ a \in Construct /\ a.k = "call" /\ a.nm = nm
      /\ a.pr = redirected /\ a.pc = capture
  BY <1>6, <1>7, OpenConstruct
<1> HIDE DEF a
<1>9. StackOK(stack') /\ Globals(stack', redirected, capture)
  <2>1. /\ StackOK(Append(stack, a))
        /\ Globals(Append(stack, a), redirected, IF a.k = "word" THEN a.nm ELSE capture)
    BY <1>1, <1>8, IInvParts, PushConstruct DEF Ready
  <2> QED
    BY <1>3, <1>8, <2>1
<1>10. Owned(stack, Present(fs)) => Owned(stack', Present(fs'))
  <2>1. Owns(a, nm)
    BY <1>8 DEF Owns
  <2> QED
    BY <1>3, <1>4, <1>8, <2>1, IInvParts, OwnedPush
<1>11. stack' \in Seq(Construct)
  BY <1>9 DEF StackOK
<1>12. TypeOK'
  BY <1>3, <1>4, <1>5, <1>11, IInvParts DEF TypeOK
<1> QED
  BY <1>3, <1>9, <1>10, <1>12 DEF IInv

(* The first stage gets its temporary file; what was set before is saved. *)
LEMMA PipelineStartStep == IInv /\ PipelineStart => IInv'
<1> SUFFICES ASSUME IInv, PipelineStart PROVE IInv'
  OBVIOUS
<1> PICK n \in 2..MaxStages : stack' = Append(stack, Open("pipe", n, NULL))
  BY DEF PipelineStart
<1> DEFINE a == Open("pipe", n, NULL)
           nm == PipeTmp(0)
<1>1. Len(stack) < MaxDepth /\ Ready(stack)
  BY DEF PipelineStart, MayNest, MayRun, Depth, Ready
<1>2. nm \in Names
  <2>1. 0 \in 0..(MaxStages - 1)
    BY BoundsAssumption
  <2> QED
    BY <2>1, NamesHas
<1>3. /\ redirected' = TRUE /\ stdout_file' = nm /\ stdin_file' = NULL
      /\ fs' = ReopenOut(fs, nm, TRUE)
      /\ UNCHANGED <<capture, term, handover, view>>
  BY DEF PipelineStart, TakeStdout
<1>4. nm = PipeTmp(0)
  OBVIOUS
<1> HIDE DEF nm
<1>5. fs' \in Files /\ Present(fs') = Present(fs) \cup {nm}
  BY <1>2, <1>3, IInvParts, ReopenOutFiles
<1>6. "pipe" \in Constructs \ {"top"} /\ n \in 0..MaxStages
  BY BoundsAssumption DEF Constructs
<1>7. /\ a \in Construct /\ a.k = "pipe" /\ a.i = 0
      /\ a.pr = redirected /\ a.pc = capture
  BY <1>6, OpenConstruct
<1>8. stack' = Append(stack, a)
  OBVIOUS
<1> HIDE DEF a
<1>9. StackOK(stack') /\ Globals(stack', TRUE, capture)
  <2>1. /\ StackOK(Append(stack, a))
        /\ Globals(Append(stack, a), TRUE, IF a.k = "word" THEN a.nm ELSE capture)
    BY <1>1, <1>7, IInvParts, PushConstruct DEF Ready
  <2> QED
    BY <1>7, <1>8, <2>1
<1>10. Owned(stack, Present(fs)) => Owned(stack', Present(fs'))
  <2>1. Owns(a, nm)
    BY <1>4, <1>7 DEF Owns
  <2> QED
    BY <1>5, <1>7, <1>8, <2>1, IInvParts, OwnedPush
<1>11. stack' \in Seq(Construct)
  BY <1>9 DEF StackOK
<1>12. redirected' \in BOOLEAN
  BY <1>3, Zenon
<1>13. TypeOK'
  BY <1>2, <1>3, <1>5, <1>11, <1>12, IInvParts DEF TypeOK, Pointers
<1>14. Globals(stack', redirected', capture')
  BY <1>3, <1>9
<1> QED
  BY <1>9, <1>10, <1>13, <1>14 DEF IInv

(* A command substitution gets its file; what was set before is saved. *)
LEMMA WordStartStep == IInv /\ WordStart => IInv'
<1> SUFFICES ASSUME IInv, WordStart PROVE IInv'
  OBVIOUS
<1> DEFINE nm == WordTmp(Depth + 1)
           a == Open("word", 0, nm)
<1>1. Len(stack) < MaxDepth /\ Ready(stack)
  BY DEF WordStart, MayNest, MayRun, Depth, Ready
<1>2. nm \in Names
  <2>1. Depth + 1 \in 1..MaxDepth
    BY <1>1, IInvParts DEF Depth
  <2> QED
    BY <2>1, NamesHas
<1>3. /\ stack' = Append(stack, a)
      /\ redirected' = TRUE /\ capture' = nm
      /\ fs' = ReopenOut(fs, nm, TRUE)
      /\ UNCHANGED <<stdout_file, stdin_file, term, handover, view>>
  BY DEF WordStart, TakeStdout
<1> HIDE DEF nm
<1>4. fs' \in Files /\ Present(fs') = Present(fs) \cup {nm}
  BY <1>2, <1>3, IInvParts, ReopenOutFiles
<1>5. "word" \in Constructs \ {"top"} /\ 0 \in 0..MaxStages /\ nm \in Names \cup {NULL}
  BY <1>2, BoundsAssumption DEF Constructs
<1>6. /\ a \in Construct /\ a.k = "word" /\ a.nm = nm
      /\ a.pr = redirected /\ a.pc = capture
  BY <1>5, OpenConstruct
<1> HIDE DEF a
<1>7. StackOK(stack') /\ Globals(stack', TRUE, nm)
  <2>1. /\ StackOK(Append(stack, a))
        /\ Globals(Append(stack, a), TRUE, IF a.k = "word" THEN a.nm ELSE capture)
    BY <1>1, <1>2, <1>6, IInvParts, PushConstruct DEF Ready
  <2> QED
    BY <1>3, <1>6, <2>1
<1>8. Owned(stack, Present(fs)) => Owned(stack', Present(fs'))
  <2>1. Owns(a, nm)
    BY <1>6 DEF Owns
  <2> QED
    BY <1>3, <1>4, <1>6, <2>1, IInvParts, OwnedPush
<1>9. stack' \in Seq(Construct)
  BY <1>7 DEF StackOK
<1>10. redirected' \in BOOLEAN
  BY <1>3, Zenon
<1>11. TypeOK'
  BY <1>2, <1>3, <1>4, <1>9, <1>10, IInvParts DEF TypeOK
<1>12. Globals(stack', redirected', capture')
  BY <1>3, <1>7
<1> QED
  BY <1>7, <1>8, <1>11, <1>12 DEF IInv

(* A construct that cannot start leaves the globals as they were. *)
LEMMA StartFailsStep == IInv /\ (PipelineStartFails \/ WordStartFails) => IInv'
<1> SUFFICES ASSUME IInv, PipelineStartFails \/ WordStartFails PROVE IInv'
  OBVIOUS
<1>1. Ready(stack) /\ "fault" \in Syntax
  BY DEF PipelineStartFails, WordStartFails, MayNest, MayRun, Ready
<1>2. /\ stack' = Counted(stack) /\ fs' = CloseOut(fs)
      /\ UNCHANGED <<redirected, capture, stdout_file, stdin_file, term, handover, view>>
  BY DEF PipelineStartFails, WordStartFails
<1>3. StackOK(stack') /\ Globals(stack', redirected, capture)
  BY <1>1, <1>2, IInvParts, CountedOK
<1>4. stack' \in Seq(Construct) /\ fs' \in Files
  BY <1>2, <1>3, IInvParts, CloseFiles DEF StackOK
<1>5. TypeOK'
  BY <1>2, <1>4, IInvParts DEF TypeOK
<1> QED
  BY <1>1, <1>2, <1>3, <1>5 DEF IInv

(* The first stage has no stage before it. *)
LEMMA NoStageBefore == PipeTmp(-1) \notin Names
BY BoundsAssumption DEF Names, PipeTmp, WordTmp, CaptureTmp, UserFile

(* NULL is no name. *)
LEMMA NullIsNoName == NULL \notin Names
BY BoundsAssumption DEF Names, NULL, PipeTmp, WordTmp, CaptureTmp, UserFile

(* The innermost construct. *)
LEMMA TopConstruct ==
    ASSUME IInv, NEW k, Kind(stack) = k, k # "top"
    PROVE  /\ stack # <<>> /\ TopOf(stack) \in Construct /\ TopOf(stack).k = k
           /\ Callers = SubSeq(stack, 1, Len(stack) - 1)
           /\ k = "word" => TopOf(stack).nm \in Names
<1>1. stack # <<>> /\ TopOf(stack).k = k
  BY DEF Kind
<1>2. Len(stack) \in 1..Len(stack)
  BY <1>1, IInvParts
<1>3. TopOf(stack) \in Construct
  BY <1>2, IInvParts DEF TopOf
<1>4. k = "word" => TopOf(stack).nm \in Names
  BY <1>1, <1>2, IInvParts DEF StackOK, TopOf
<1> QED
  BY <1>1, <1>3, <1>4 DEF Callers

(* The stage of a pipeline, and the file system once its input is removed. *)
LEMMA Stage ==
    ASSUME IInv, Kind(stack) = "pipe"
    PROVE  LET c == TopOf(stack)
           IN  /\ c.i \in 0..(MaxStages - 1) /\ c.n \in 0..MaxStages
               /\ PipeTmp(c.i) \in Names
               /\ DropInput(fs) \in Files
               /\ Present(DropInput(fs)) \subseteq Present(fs) \ {PipeTmp(c.i - 1)}
<1> DEFINE i == TopOf(stack).i
<1>1. i \in 0..(MaxStages - 1) /\ TopOf(stack).n \in 0..MaxStages
  BY TopConstruct DEF Construct
<1>2. PipeTmp(i) \in Names
  BY <1>1, NamesHas
<1>3. DropInput(fs) = IF i > 0 THEN Unlink(fs, PipeTmp(i - 1)) ELSE fs
  BY DEF DropInput
<1> HIDE DEF i
<1>4. /\ DropInput(fs) \in Files
      /\ Present(DropInput(fs)) \subseteq Present(fs) \ {PipeTmp(i - 1)}
  <2>1. CASE i > 0
    <3>1. i - 1 \in 0..(MaxStages - 1)
      BY <1>1, <2>1, BoundsAssumption
    <3>2. PipeTmp(i - 1) \in Names
      BY <3>1, NamesHas
    <3>3. DropInput(fs) = Unlink(fs, PipeTmp(i - 1))
      BY <1>3, <2>1
    <3> QED
      BY <3>2, <3>3, IInvParts, UnlinkFiles
  <2>2. CASE ~(i > 0)
    <3>1. i - 1 = -1
      BY <1>1, <2>2, BoundsAssumption
    <3>2. PipeTmp(i - 1) \notin Names
      BY <3>1, NoStageBefore
    <3>3. DropInput(fs) = fs
      BY <1>3, <2>2
    <3> QED
      BY <3>2, <3>3, IInvParts DEF Present
  <2> QED
    BY <2>1, <2>2
<1> QED
  BY <1>1, <1>2, <1>4 DEF i

(* A function returns. *)
LEMMA FunctionReturnsStep == IInv /\ FunctionReturns => IInv'
<1> SUFFICES ASSUME IInv, FunctionReturns PROVE IInv'
  OBVIOUS
<1> DEFINE c == TopOf(stack)
           t == SubSeq(stack, 1, Len(stack) - 1)
<1>1. Kind(stack) = "call" /\ "call" # "top"
  BY DEF FunctionReturns
<1>2. stack # <<>> /\ c \in Construct /\ c.k = "call" /\ Callers = t
  BY <1>1, TopConstruct
<1>3. c.nm \in Names \cup {NULL}
  BY <1>2 DEF Construct
<1>4. /\ c.nm = NULL => UNCHANGED <<stdout_file, fs, term>>
      /\ c.nm # NULL => /\ term' = term \cup Read(fs, c.nm)
                        /\ fs' = Unlink(fs, c.nm)
                        /\ stdout_file' = IF stdout_file = c.nm THEN Dangling ELSE stdout_file
      /\ stack' = Counted(t)
      /\ UNCHANGED <<redirected, capture, stdin_file, handover, view>>
  BY <1>2 DEF FunctionReturns
<1>5. StackOK(t) /\ Globals(t, redirected, capture) /\ Ready(t)
  BY <1>2, IInvParts, PopConstruct DEF Ready
<1>6. /\ fs' \in Files /\ Present(fs') \subseteq Present(fs) \ {c.nm}
      /\ term' \subseteq Tags /\ stdout_file' \in Pointers
  <2>1. CASE c.nm = NULL
    BY <1>4, <2>1, IInvParts, NullIsNoName DEF Present
  <2>2. CASE c.nm # NULL
    <3>1. c.nm \in Names
      BY <1>3, <2>2
    <3>2. /\ term' = term \cup Read(fs, c.nm) /\ fs' = Unlink(fs, c.nm)
          /\ stdout_file' \in {stdout_file, Dangling}
      BY <1>4, <2>2
    <3> QED
      BY <3>1, <3>2, IInvParts, UnlinkFiles, ReadFiles DEF Pointers
  <2> QED
    BY <2>1, <2>2
<1>7. Owned(stack, Present(fs)) => Owned(t, Present(fs'))
  <2>1. \A nm \in Present(fs') : nm # UserFile => ~Owns(TopOf(stack), nm)
    BY <1>2, <1>6 DEF Owns
  <2>2. Present(fs') \subseteq Present(fs)
    BY <1>6
  <2> QED
    BY <1>2, <2>1, <2>2, IInvParts, OwnedPop
<1> HIDE DEF t
<1>8. /\ StackOK(stack') /\ Globals(stack', redirected, capture)
      /\ \A P : Owned(t, P) => Owned(stack', P)
  BY <1>4, <1>5, CountedOK
<1>9. stack' \in Seq(Construct)
  BY <1>8 DEF StackOK
<1>10. TypeOK'
  BY <1>4, <1>6, <1>9, IInvParts DEF TypeOK
<1> QED
  BY <1>4, <1>7, <1>8, <1>10 DEF IInv

(* freopen fails: what was saved is restored. *)
LEMMA StageOpenFailsStep == IInv /\ StageOpenFails => IInv'
<1> SUFFICES ASSUME IInv, StageOpenFails PROVE IInv'
  OBVIOUS
<1> DEFINE c == TopOf(stack)
           t == SubSeq(stack, 1, Len(stack) - 1)
           f1 == DropInput(fs)
           nm == PipeTmp(c.i)
<1>1. Kind(stack) = "pipe" /\ "pipe" # "top"
  BY DEF StageOpenFails
<1>2. stack # <<>> /\ c \in Construct /\ c.k = "pipe" /\ Callers = t
  BY <1>1, TopConstruct
<1>3. /\ nm \in Names /\ f1 \in Files
      /\ Present(f1) \subseteq Present(fs) \ {PipeTmp(c.i - 1)}
  BY <1>1, Stage
<1>4. /\ \/ f1.dir[nm] = 0 /\ fs' = Gc([f1 EXCEPT !.in = 0])
         \/ f1.dir[nm] # 0 /\ "fault" \in Syntax /\ fs' = CloseOut(ReopenIn(f1, nm))
      /\ handover' = [want |-> Wants(stack), got |-> Read(f1, nm)]
      /\ redirected' = c.pr /\ stdout_file' = c.so /\ stdin_file' = c.si
      /\ stack' = Counted(t)
      /\ UNCHANGED <<capture, term, view>>
  BY <1>2 DEF StageOpenFails, RestoreGlobals
<1>5. StackOK(t) /\ Globals(t, c.pr, capture) /\ Ready(t)
  BY <1>2, IInvParts, PopConstruct DEF Ready
<1>6. /\ redirected' \in BOOLEAN /\ stdout_file' \in Pointers /\ stdin_file' \in Pointers
  BY <1>2, <1>4 DEF Construct
<1> HIDE DEF f1, t
<1>7. /\ fs' \in Files
      /\ "fault" \notin Syntax => Present(fs') \subseteq Present(fs) \ {PipeTmp(c.i - 1), nm}
  <2>1. CASE f1.dir[nm] = 0 /\ fs' = Gc([f1 EXCEPT !.in = 0])
    <3>1. fs' \in Files /\ Present(fs') = Present(f1)
      BY <1>3, <2>1, CloseFiles
    <3>2. nm \notin Present(f1)
      BY <2>1 DEF Present
    <3> QED
      BY <1>3, <3>1, <3>2
  <2>2. CASE f1.dir[nm] # 0 /\ "fault" \in Syntax /\ fs' = CloseOut(ReopenIn(f1, nm))
    <3>1. ReopenIn(f1, nm) \in Files
      BY <1>3, ReopenInFiles
    <3> QED
      BY <2>2, <3>1, CloseFiles
  <2> QED
    BY <1>4, <2>1, <2>2
<1>8. handover' \in [want : SUBSET Tags, got : SUBSET Tags]
  <2>1. Read(f1, nm) \in SUBSET Tags /\ Wants(stack) \in SUBSET Tags
    BY <1>3, IInvParts, ReadFiles, TagsHas
  <2> QED
    BY <1>4, <2>1
<1>9. "fault" \notin Syntax /\ Owned(stack, Present(fs)) => Owned(t, Present(fs'))
  <2> SUFFICES ASSUME "fault" \notin Syntax, Owned(stack, Present(fs))
               PROVE  Owned(t, Present(fs'))
    OBVIOUS
  <2>1. \A x \in Present(fs') : x # UserFile => ~Owns(TopOf(stack), x)
    BY <1>2, <1>7 DEF Owns
  <2>2. Present(fs') \subseteq Present(fs)
    BY <1>7
  <2> QED
    BY <1>2, <2>1, <2>2, IInvParts, OwnedPop DEF t
<1>10. /\ StackOK(stack') /\ Globals(stack', redirected', capture')
       /\ \A P : Owned(t, P) => Owned(stack', P)
  BY <1>4, <1>5, CountedOK
<1>11. stack' \in Seq(Construct)
  BY <1>10 DEF StackOK
<1>12. TypeOK'
  BY <1>4, <1>6, <1>7, <1>8, <1>11, IInvParts DEF TypeOK
<1> QED
  BY <1>9, <1>10, <1>12 DEF IInv

(* The last stage is done: the files go, what was saved is restored. *)
LEMMA PipelineEndStep == IInv /\ PipelineEnd => IInv'
<1> SUFFICES ASSUME IInv, PipelineEnd PROVE IInv'
  OBVIOUS
<1> DEFINE c == TopOf(stack)
           t == SubSeq(stack, 1, Len(stack) - 1)
           final == PipeTmp(c.i)
           f1 == DropInput(fs)
           output == Read(f1, final)
           f2 == Unlink(f1, final)
           tags == IF output = {} THEN {} ELSE {Dest(t)}
           g == Create(f2, capture, FALSE)
           f3 == IF capture # NULL /\ output # {} THEN Write(g, g.dir[capture], tags) ELSE f2
           u == Sent(t, output # {})
<1>1. Kind(stack) = "pipe" /\ "pipe" # "top"
  BY DEF PipelineEnd
<1>2. stack # <<>> /\ c \in Construct /\ c.k = "pipe" /\ Callers = t
  BY <1>1, TopConstruct
<1>3. /\ final \in Names /\ f1 \in Files
      /\ Present(f1) \subseteq Present(fs) \ {PipeTmp(c.i - 1)}
  BY <1>1, Stage
<1>4. /\ fs' = Gc([f3 EXCEPT !.in = 0])
      /\ term' = IF capture = NULL THEN term \cup tags ELSE term
      /\ handover' = [want |-> Wants(stack), got |-> output]
      /\ redirected' = c.pr /\ stdout_file' = c.so /\ stdin_file' = c.si
      /\ stack' = Counted(u)
      /\ UNCHANGED <<capture, view>>
  BY <1>2 DEF PipelineEnd, RestoreGlobals
<1>5. StackOK(t) /\ Globals(t, c.pr, capture) /\ Ready(t)
  BY <1>2, IInvParts, PopConstruct DEF Ready
<1>6. /\ redirected' \in BOOLEAN /\ stdout_file' \in Pointers /\ stdin_file' \in Pointers
  BY <1>2, <1>4 DEF Construct
<1> HIDE DEF f1, t
<1>7. output \in SUBSET Tags /\ Wants(stack) \in SUBSET Tags
  BY <1>3, IInvParts, ReadFiles, TagsHas
<1>8. tags \in SUBSET Tags
  <2>1. Dest(t) \in Tags
    BY <1>5, TagsHas
  <2> HIDE DEF output
  <2> QED
    BY <2>1
<1> HIDE DEF output
<1>9. f2 \in Files /\ Present(f2) \subseteq Present(fs) \ {PipeTmp(c.i - 1), final}
  BY <1>3, UnlinkFiles
<1> HIDE DEF f2, tags
<1>10. f3 \in Files /\ \/ Present(f3) = Present(f2)
                       \/ Present(f3) = Present(f2) \cup {capture} /\ capture # NULL
  <2>1. CASE capture # NULL /\ output # {}
    <3>1. capture \in Names
      BY <2>1, IInvParts
    <3>2. g \in Files /\ Present(g) = Present(f2) \cup {capture} /\ g.dir[capture] \in Inodes
      BY <1>9, <3>1, CreateFiles
    <3> HIDE DEF g
    <3>3. f3 = Write(g, g.dir[capture], tags)
      BY <2>1
    <3>4. g.dir[capture] \in Inodes \cup {0}
      BY <3>2
    <3>5. /\ Write(g, g.dir[capture], tags) \in Files
          /\ Present(Write(g, g.dir[capture], tags)) = Present(g)
      BY <1>8, <3>2, <3>4, WriteFiles
    <3> HIDE DEF f3
    <3> QED
      BY <2>1, <3>2, <3>3, <3>5
  <2>2. CASE ~(capture # NULL /\ output # {})
    <3>1. f3 = f2
      BY <2>2
    <3> QED
      BY <1>9, <3>1
  <2> QED
    BY <2>1, <2>2
<1> HIDE DEF f3
<1>11. fs' \in Files /\ Present(fs') = Present(f3)
  BY <1>4, <1>10, CloseFiles
<1>12. Owned(stack, Present(fs)) => Owned(t, Present(fs'))
  <2> SUFFICES ASSUME Owned(stack, Present(fs))
               PROVE  Owned(t, Present(fs'))
    OBVIOUS
  <2>1. \A x \in Present(f2) : x # UserFile => ~Owns(TopOf(stack), x)
    BY <1>2, <1>9 DEF Owns
  <2>2. Present(f2) \subseteq Present(fs)
    BY <1>9
  <2>3. Owned(t, Present(f2))
    BY <1>2, <2>1, <2>2, IInvParts, OwnedPop DEF t
  <2>4. CASE Present(fs') = Present(f2)
    BY <2>3, <2>4
  <2>5. CASE Present(fs') = Present(f2) \cup {capture} /\ capture # NULL
    <3>1. Captured(t, Len(t), capture)
      BY <1>5 DEF Globals
    <3>2. Present(fs') \subseteq Present(f2) \cup {capture}
      BY <2>5
    <3> QED
      BY <2>3, <2>5, <3>1, <3>2, OwnedCapture
  <2> QED
    BY <1>10, <1>11, <2>4, <2>5
<1>13. /\ StackOK(u) /\ Globals(u, c.pr, capture) /\ Ready(u)
       /\ \A P : Owned(t, P) => Owned(u, P)
  BY <1>5, SentOK
<1> HIDE DEF u
<1>14. /\ StackOK(stack') /\ Globals(stack', redirected', capture')
       /\ \A P : Owned(u, P) => Owned(stack', P)
  BY <1>4, <1>13, CountedOK
<1>15. stack' \in Seq(Construct)
  BY <1>14 DEF StackOK
<1>16. /\ handover' \in [want : SUBSET Tags, got : SUBSET Tags]
       /\ term' \subseteq Tags
  BY <1>4, <1>7, <1>8, IInvParts
<1>17. TypeOK'
  BY <1>4, <1>6, <1>11, <1>15, <1>16, IInvParts DEF TypeOK
<1> QED
  BY <1>12, <1>13, <1>14, <1>17 DEF IInv

(* The substitution is read back, its file goes, what was saved is restored. *)
LEMMA WordEndStep == IInv /\ WordEnd => IInv'
<1> SUFFICES ASSUME IInv, WordEnd PROVE IInv'
  OBVIOUS
<1> DEFINE c == TopOf(stack)
           t == SubSeq(stack, 1, Len(stack) - 1)
<1> PICK opens \in Opens :
         LET f1 == ReopenOuter(fs, c.pc, opens)
         IN  /\ handover' = [want |-> Wants(stack), got |-> Read(f1, c.nm)]
             /\ fs' = Unlink(f1, c.nm)
             /\ stack' = Callers
  BY DEF WordEnd
<1> DEFINE f1 == ReopenOuter(fs, c.pc, opens)
<1>1. Kind(stack) = "word" /\ "word" # "top"
  BY DEF WordEnd
<1>2. stack # <<>> /\ c \in Construct /\ c.k = "word" /\ c.nm \in Names /\ Callers = t
  BY <1>1, TopConstruct
<1>3. /\ redirected' = c.pr /\ capture' = c.pc
      /\ handover' = [want |-> Wants(stack), got |-> Read(f1, c.nm)]
      /\ fs' = Unlink(f1, c.nm)
      /\ stack' = t
      /\ UNCHANGED <<stdout_file, stdin_file, term, view>>
  BY <1>2 DEF WordEnd, RestoreCapture
<1>4. StackOK(t) /\ Globals(t, c.pr, c.pc)
  BY <1>2, IInvParts, PopConstruct
<1>5. c.pr \in BOOLEAN /\ c.pc \in Names \cup {NULL}
  BY <1>2 DEF Construct
<1> HIDE DEF t
<1>6. f1 \in Files /\ \/ Present(f1) = Present(fs)
                      \/ Present(f1) = Present(fs) \cup {c.pc} /\ c.pc # NULL
  <2> HIDE DEF f1
  <2>1. CASE c.pc = NULL
    <3>1. f1 = fs
      BY <2>1 DEF ReopenOuter, f1
    <3> QED
      BY <3>1, IInvParts
  <2>2. CASE c.pc # NULL /\ opens
    <3>1. c.pc \in Names /\ f1 = ReopenOut(fs, c.pc, FALSE)
      BY <1>5, <2>2 DEF ReopenOuter, f1
    <3> QED
      BY <2>2, <3>1, IInvParts, ReopenOutFiles
  <2>3. CASE c.pc # NULL /\ ~opens
    <3>1. f1 = CloseOut(fs)
      BY <2>3 DEF ReopenOuter, f1
    <3> QED
      BY <3>1, IInvParts, CloseFiles
  <2> QED
    BY <2>1, <2>2, <2>3
<1> HIDE DEF f1
<1>7. fs' \in Files /\ Present(fs') = Present(f1) \ {c.nm}
  BY <1>2, <1>3, <1>6, UnlinkFiles
<1>8. handover' \in [want : SUBSET Tags, got : SUBSET Tags]
  <2>1. Read(f1, c.nm) \in SUBSET Tags /\ Wants(stack) \in SUBSET Tags
    BY <1>2, <1>6, IInvParts, ReadFiles, TagsHas
  <2> QED
    BY <1>3, <2>1
<1>9. Owned(stack, Present(fs)) => Owned(t, Present(fs'))
  <2> SUFFICES ASSUME Owned(stack, Present(fs))
               PROVE  Owned(t, Present(fs'))
    OBVIOUS
  <2> DEFINE Q == Present(fs) \ {c.nm}
  <2>1. \A x \in Q : x # UserFile => ~Owns(TopOf(stack), x)
    BY <1>2 DEF Owns
  <2>2. Owned(t, Q)
    BY <1>2, <2>1, IInvParts, OwnedPop DEF t
  <2>3. CASE Present(f1) = Present(fs)
    BY <1>7, <2>2, <2>3
  <2>4. CASE Present(f1) = Present(fs) \cup {c.pc} /\ c.pc # NULL
    <3>1. Captured(t, Len(t), c.pc)
      BY <1>4 DEF Globals
    <3>2. Present(fs') \subseteq Q \cup {c.pc}
      BY <1>7, <2>4
    <3> QED
      BY <2>2, <2>4, <3>1, <3>2, OwnedCapture
  <2> QED
    BY <1>6, <2>3, <2>4
<1>10. TypeOK'
  <2>1. stack' \in Seq(Construct)
    BY <1>3, <1>4 DEF StackOK
  <2> QED
    BY <1>3, <1>5, <1>7, <1>8, <2>1, IInvParts DEF TypeOK
<1>11. StackOK(stack') /\ Globals(stack', redirected', capture')
  BY <1>3, <1>4
<1> QED
  BY <1>3, <1>9, <1>10, <1>11 DEF IInv

(* The next stage reads what the last one wrote. *)
LEMMA NextStageStep == IInv /\ NextStage => IInv'
<1> SUFFICES ASSUME IInv, NextStage PROVE IInv'
  OBVIOUS
<1> DEFINE n == Len(stack)
           c == stack[n]
           f1 == DropInput(fs)
           a == [[[c EXCEPT !.i = c.i + 1] EXCEPT !.sent = FALSE] EXCEPT !.cmds = 0]
           t == [stack EXCEPT ![n] = a]
<1>1. Kind(stack) = "pipe" /\ "pipe" # "top" /\ c = TopOf(stack)
  BY DEF NextStage, TopOf
<1>2. stack # <<>> /\ c \in Construct /\ c.k = "pipe"
  BY <1>1, TopConstruct
<1>3. n \in 1..n /\ n \in Nat /\ stack \in Seq(Construct)
  BY <1>2, IInvParts
<1>4. /\ c.i \in 0..(MaxStages - 1) /\ c.n \in 0..MaxStages
      /\ PipeTmp(c.i) \in Names /\ f1 \in Files
      /\ Present(f1) \subseteq Present(fs) \ {PipeTmp(c.i - 1)}
  BY <1>1, Stage
<1>5. /\ c.i < c.n - 1
      /\ handover' = [want |-> Wants(stack), got |-> Read(f1, PipeTmp(c.i))]
      /\ fs' = ReopenOut(ReopenIn(f1, PipeTmp(c.i)), PipeTmp(c.i + 1), TRUE)
      /\ stdin_file' = Dangling /\ stdout_file' = PipeTmp(c.i + 1)
      /\ UNCHANGED <<redirected, capture, term, view>>
  BY <1>1 DEF NextStage, StageStreams, StageNames
<1>6. stack' = t
  <2>1. stack' = [stack EXCEPT ![n].i = @ + 1, ![n].sent = FALSE, ![n].cmds = 0]
    BY DEF NextStage, Depth
  <2> QED
    BY <1>3, <2>1
<1>7. c.i + 1 \in 0..(MaxStages - 1)
  BY <1>4, <1>5, BoundsAssumption
<1>8. PipeTmp(c.i + 1) \in Names
  BY <1>7, NamesHas
<1> HIDE DEF f1
<1>9. fs' \in Files /\ Present(fs') \subseteq (Present(fs) \ {PipeTmp(c.i - 1)}) \cup {PipeTmp(c.i + 1)}
  <2>1. /\ ReopenIn(f1, PipeTmp(c.i)) \in Files
        /\ Present(ReopenIn(f1, PipeTmp(c.i))) = Present(f1)
    BY <1>4, ReopenInFiles
  <2>2. fs' \in Files /\ Present(fs') = Present(f1) \cup {PipeTmp(c.i + 1)}
    BY <1>5, <1>8, <2>1, ReopenOutFiles
  <2> QED
    BY <1>4, <2>2
<1>10. handover' \in [want : SUBSET Tags, got : SUBSET Tags]
  <2>1. Read(f1, PipeTmp(c.i)) \in SUBSET Tags /\ Wants(stack) \in SUBSET Tags
    BY <1>4, IInvParts, ReadFiles, TagsHas
  <2> QED
    BY <1>5, <2>1
<1>11. Kept(c, a) /\ a.i = c.i + 1
  <2>1. FALSE \in BOOLEAN
    BY Zenon
  <2>2. 0 \in 0..MaxCmds
    BY BoundsAssumption
  <2> HIDE DEF c
  <2> QED
    BY <1>2, <1>7, <2>1, <2>2 DEF Kept, Construct
<1> HIDE DEF a
<1>12. /\ t \in Seq(Construct) /\ Alike(stack, t) /\ t[n] = a
       /\ \A e \in 1..n : e # n => t[e] = stack[e]
  BY <1>3, <1>11, ReplaceConstruct
<1> HIDE DEF t
<1>13. StackOK(t) /\ Globals(t, redirected, capture)
  <2>1. \A d \in 1..(n - 1) : d \in 1..n /\ d # n
    BY <1>3
  <2>2. \A d \in 1..(n - 1) : t[d].cmds < MaxCmds
    BY <1>12, <2>1, IInvParts, Zenon DEF StackOK
  <2> QED
    BY <1>12, <2>2, IInvParts, AlikeStack
<1>14. Owned(stack, Present(fs)) => Owned(t, Present(fs'))
  <2> SUFFICES ASSUME Owned(stack, Present(fs)), NEW nm \in Present(fs'), nm # UserFile
               PROVE  \E d \in 1..n : Owns(t[d], nm)
    BY <1>12 DEF Owned, Alike
  <2>1. a.k = "pipe" /\ a.i = c.i + 1
    BY <1>2, <1>11 DEF Kept
  <2>2. Owns(t[n], PipeTmp(c.i + 1)) /\ Owns(t[n], PipeTmp(c.i))
    <3>1. Owns(a, PipeTmp(a.i)) /\ Owns(a, PipeTmp(a.i - 1))
      BY <2>1 DEF Owns
    <3>2. a.i - 1 = c.i
      <4>1. c.i \in Int
        BY <1>4, BoundsAssumption
      <4> HIDE DEF c
      <4> QED
        BY <2>1, <4>1
    <3> QED
      BY <1>12, <2>1, <3>1, <3>2, Zenon
  <2>3. CASE nm = PipeTmp(c.i + 1)
    BY <1>3, <2>2, <2>3
  <2>4. CASE nm \in Present(fs) /\ nm # PipeTmp(c.i - 1)
    <3>1. PICK d \in 1..n : Owns(stack[d], nm)
      BY <2>4 DEF Owned
    <3>2. CASE d # n
      BY <1>12, <3>1, <3>2, Zenon
    <3>3. CASE d = n
      <4>1. nm = PipeTmp(c.i)
        BY <1>2, <2>4, <3>1, <3>3 DEF Owns
      <4> QED
        BY <1>3, <2>2, <4>1
    <3> QED
      BY <3>2, <3>3
  <2> QED
    BY <1>9, <2>3, <2>4
<1>15. TypeOK'
  BY <1>4, <1>5, <1>6, <1>8, <1>9, <1>10, <1>12, IInvParts DEF TypeOK, Pointers
<1> QED
  BY <1>5, <1>6, <1>13, <1>14, <1>15 DEF IInv

-----------------------------------------------------------------------------
(* Theorems *)

(* Every step. *)
LEMMA StdioStep == IInv /\ [Next]_vars => IInv'
<1> SUFFICES ASSUME IInv, [Next]_vars PROVE IInv'
  OBVIOUS
<1>1. CASE UNCHANGED vars
  BY <1>1 DEF vars, IInv, TypeOK
<1>2. CASE Next
  BY <1>2, SimpleStep, CallStep, FunctionReturnsStep, PipelineStartStep, StartFailsStep,
     NextStageStep, StageOpenFailsStep, PipelineEndStep, WordStartStep, WordEndStep DEF Next
<1> QED
  BY <1>1, <1>2

(* The invariant of the constructs, the globals and the files. *)
LEMMA StdioInvariant == Spec => []IInv
BY StdioInit, StdioStep, PTL DEF Spec

(* Every variable of the shell keeps its type, whatever the script nests   *)
(* and whichever freopen() fails; wsh_capture_file never points to a       *)
(* buffer that is gone.                                                    *)
THEOREM StdioTypeCorrect == Spec => []TypeOK
<1>1. IInv => TypeOK
  BY DEF IInv
<1> QED
  BY <1>1, StdioInvariant, PTL

(* The saves and restores of run_pipeline and run_word_command match: on   *)
(* every path wsh_stdout_redirected and wsh_capture_file say what the      *)
(* constructs in progress are.                                             *)
THEOREM GlobalsAlwaysMatch == Spec => []GlobalsMatch
<1>1. IInv => GlobalsMatch
  BY DEF IInv, Globals, Redirected, Captured, GlobalsMatch, Depth
<1> QED
  BY <1>1, StdioInvariant, PTL

(* Where every freopen() succeeds, a shell that is back at the top level   *)
(* has removed every temporary file it made.                               *)
THEOREM TmpRemoved ==
    ASSUME "fault" \notin Syntax
    PROVE  Spec => []NoTmpLeft
<1>1. IInv => NoTmpLeft
  <2> SUFFICES ASSUME IInv, stack = <<>>, NEW nm \in TmpNames
               PROVE  fs.dir[nm] = 0
    BY DEF NoTmpLeft
  <2>1. nm \in Names /\ nm # UserFile
    BY DEF TmpNames
  <2>2. Owned(stack, Present(fs)) /\ Len(stack) = 0
    BY DEF IInv
  <2>3. nm \notin Present(fs)
    BY <2>1, <2>2 DEF Owned
  <2> QED
    BY <2>1, <2>3 DEF Present
<1> QED
  BY <1>1, StdioInvariant, PTL

-----------------------------------------------------------------------------
(* What is in the files.  No two names are the same file, so an operation  *)
(* on one name leaves what is read under the others as it was.             *)

OneName(f) == \A m, n \in Names : f.dir[m] = f.dir[n] /\ f.dir[m] # 0 => m = n
Good(f) == f \in Files /\ OneName(f)
Others(f, g, nm) == \A m \in Names : m # nm => g.dir[m] = f.dir[m] /\ Read(g, m) = Read(f, m)
SameFiles(f, g) == \A m \in Names : g.dir[m] = f.dir[m] /\ Read(g, m) = Read(f, m)

(* Dropping what nothing refers to shows under no name. *)
LEMMA GcData ==
    ASSUME NEW f, Good(f)
    PROVE  Good(Gc(f)) /\ SameFiles(f, Gc(f)) /\ Gc(f).out = f.out /\ Gc(f).in = f.in
<1> DEFINE data == [i \in Inodes |-> IF i \in InUse(f) THEN f.data[i] ELSE {}]
           g == Gc(f)
<1>1. g \in Files /\ g.dir = f.dir /\ g.out = f.out /\ g.in = f.in
  BY GcFiles DEF Good
<1>2. g.data = data
  <2>1. g = [f EXCEPT !.data = data]
    BY DEF Gc
  <2> HIDE DEF data, g
  <2> QED
    BY <2>1 DEF Good, Files
<1>3. f.dir \in [Names -> Inodes \cup {0}] /\ f.data \in [Inodes -> SUBSET Tags]
  BY FilesParts DEF Good
<1> HIDE DEF g
<1>4. ASSUME NEW m \in Names PROVE Read(g, m) = Read(f, m)
  <2>1. f.dir[m] \in InUse(f) /\ (f.dir[m] # 0 => f.dir[m] \in Inodes)
    BY <1>3 DEF InUse
  <2> QED
    BY <1>1, <1>2, <2>1 DEF Read
<1> QED
  BY <1>1, <1>4 DEF Good, OneName, SameFiles, g

(* A stream is put on another inode, or closed. *)
LEMMA StreamData ==
    ASSUME NEW f, Good(f), NEW i \in Inodes \cup {0}
    PROVE  /\ Good([f EXCEPT !.out = i]) /\ SameFiles(f, [f EXCEPT !.out = i])
           /\ [f EXCEPT !.out = i].out = i /\ [f EXCEPT !.out = i].in = f.in
           /\ Good([f EXCEPT !.in = i]) /\ SameFiles(f, [f EXCEPT !.in = i])
           /\ [f EXCEPT !.in = i].in = i /\ [f EXCEPT !.in = i].out = f.out
<1> DEFINE a == [f EXCEPT !.out = i]
           b == [f EXCEPT !.in = i]
<1>1. a \in Files /\ b \in Files
  BY StreamFiles DEF Good
<1>2. /\ a.dir = f.dir /\ a.data = f.data /\ a.out = i /\ a.in = f.in
      /\ b.dir = f.dir /\ b.data = f.data /\ b.out = f.out /\ b.in = i
  BY DEF Good, Files
<1> HIDE DEF a, b
<1>3. SameFiles(f, a) /\ SameFiles(f, b)
  BY <1>2 DEF SameFiles, Read
<1>4. OneName(a) /\ OneName(b)
  BY <1>2 DEF Good, OneName
<1> QED
  BY <1>1, <1>2, <1>3, <1>4 DEF Good, a, b

(* A file is created or opened, and truncated or not. *)
LEMMA CreateData ==
    ASSUME NEW f, Good(f), NEW nm \in Names, NEW trunc \in BOOLEAN
    PROVE  LET g == Create(f, nm, trunc) IN
           /\ Good(g) /\ Others(f, g, nm) /\ g.out = f.out /\ g.in = f.in
           /\ g.dir[nm] \in Inodes /\ (f.dir[nm] # 0 => g.dir[nm] = f.dir[nm])
           /\ Read(g, nm) = IF trunc THEN {} ELSE Read(f, nm)
<1> DEFINE i == IF f.dir[nm] # 0 THEN f.dir[nm] ELSE Fresh(f)
           d == IF trunc \/ f.dir[nm] = 0 THEN {} ELSE f.data[i]
           g == Create(f, nm, trunc)
<1>1. /\ f \in Files /\ f.dir \in [Names -> Inodes \cup {0}] /\ f.data \in [Inodes -> SUBSET Tags]
      /\ OneName(f)
  BY FilesParts DEF Good
<1>2. g \in Files /\ g.out = f.out /\ g.in = f.in
  BY <1>1, CreateFiles
<1>3. i \in Inodes /\ \A m \in Names : m # nm => f.dir[m] # i
  <2>1. CASE f.dir[nm] # 0
    BY <1>1, <2>1 DEF OneName
  <2>2. CASE f.dir[nm] = 0
    <3>1. 0 \in InUse(f)
      BY <2>2 DEF InUse
    <3>2. Fresh(f) \in Inodes /\ Fresh(f) \notin InUse(f)
      BY <1>1, <3>1, FreshExists
    <3> QED
      BY <2>2, <3>2 DEF InUse
  <2> QED
    BY <2>1, <2>2
<1>4. g.dir = [f.dir EXCEPT ![nm] = i] /\ g.data = [f.data EXCEPT ![i] = d]
  <2> DEFINE e == [f EXCEPT !.dir[nm] = i]
  <2>1. g = [e EXCEPT !.data[i] = IF trunc \/ f.dir[nm] = 0 THEN {} ELSE @]
    BY DEF Create
  <2> HIDE DEF i, g
  <2>2. /\ e = [dir |-> [f.dir EXCEPT ![nm] = i], data |-> f.data, out |-> f.out, in |-> f.in]
    BY <1>1, FilesParts DEF Files
  <2> HIDE DEF e
  <2> QED
    BY <2>1, <2>2
<1>5. 0 \notin Inodes
  BY DEF Inodes
<1>6. d = IF trunc THEN {} ELSE Read(f, nm)
  BY <1>1, <1>3 DEF Read
<1> HIDE DEF i, d, g
<1>7. g.dir[nm] = i /\ g.data[i] = d
  BY <1>1, <1>3, <1>4
<1>8. \A m \in Names : m # nm => g.dir[m] = f.dir[m]
  BY <1>1, <1>4
<1>9. OneName(g)
  BY <1>1, <1>3, <1>7, <1>8 DEF OneName
<1>10. Others(f, g, nm)
  <2> SUFFICES ASSUME NEW m \in Names, m # nm PROVE Read(g, m) = Read(f, m)
    BY <1>8 DEF Others
  <2>1. CASE f.dir[m] = 0
    BY <1>8, <2>1 DEF Read
  <2>2. CASE f.dir[m] # 0
    <3>1. f.dir[m] \in Inodes /\ f.dir[m] # i /\ g.dir[m] = f.dir[m]
      BY <1>1, <1>3, <1>8, <2>2
    <3>2. g.data[f.dir[m]] = f.data[f.dir[m]]
      BY <1>1, <1>4, <3>1
    <3> QED
      BY <2>2, <3>1, <3>2 DEF Read
  <2> QED
    BY <2>1, <2>2
<1>11. Read(g, nm) = d
  BY <1>3, <1>5, <1>7 DEF Read
<1>12. f.dir[nm] # 0 => i = f.dir[nm]
  BY DEF i
<1> QED
  BY <1>2, <1>3, <1>6, <1>7, <1>9, <1>10, <1>11, <1>12 DEF Good, g

(* A name is removed. *)
LEMMA UnlinkData ==
    ASSUME NEW f, Good(f), NEW nm \in Names
    PROVE  LET g == Unlink(f, nm) IN
           Good(g) /\ Others(f, g, nm) /\ g.out = f.out /\ g.in = f.in /\ g.dir[nm] = 0
<1> DEFINE e == [f EXCEPT !.dir[nm] = 0]
<1>1. f \in Files /\ f.dir \in [Names -> Inodes \cup {0}] /\ OneName(f)
  BY FilesParts DEF Good
<1>2. e = [dir |-> [f.dir EXCEPT ![nm] = 0], data |-> f.data, out |-> f.out, in |-> f.in]
  BY <1>1, FilesParts DEF Files
<1>3. [f.dir EXCEPT ![nm] = 0] \in [Names -> Inodes \cup {0}]
  BY <1>1
<1>4. e \in Files
  BY <1>1, <1>2, <1>3, FilesParts, FilesMade
<1> HIDE DEF e
<1>5. /\ e.dir[nm] = 0 /\ e.data = f.data /\ e.out = f.out /\ e.in = f.in
      /\ \A m \in Names : m # nm => e.dir[m] = f.dir[m]
  BY <1>1, <1>2
<1>6. Good(e) /\ Others(f, e, nm)
  <2>1. OneName(e)
    BY <1>1, <1>5 DEF OneName
  <2>2. Others(f, e, nm)
    BY <1>5 DEF Others, Read
  <2> QED
    BY <1>4, <2>1, <2>2 DEF Good
<1>7. Unlink(f, nm) = Gc(e)
  BY DEF Unlink, e
<1>8. Good(Gc(e)) /\ SameFiles(e, Gc(e)) /\ Gc(e).out = e.out /\ Gc(e).in = e.in
  BY <1>6, GcData
<1> QED
  BY <1>5, <1>6, <1>7, <1>8 DEF Others, SameFiles

(* Something is written to the file behind a name. *)
LEMMA WriteData ==
    ASSUME NEW f, Good(f), NEW nm \in Names, f.dir[nm] # 0, NEW tags \in SUBSET Tags
    PROVE  LET g == Write(f, f.dir[nm], tags) IN
           /\ Good(g) /\ Others(f, g, nm) /\ g.out = f.out /\ g.in = f.in
           /\ g.dir[nm] = f.dir[nm] /\ Read(g, nm) = Read(f, nm) \cup tags
<1> DEFINE i == f.dir[nm]
           g == Write(f, i, tags)
           data == [f.data EXCEPT ![i] = f.data[i] \cup tags]
<1>1. /\ f \in Files /\ f.dir \in [Names -> Inodes \cup {0}] /\ f.data \in [Inodes -> SUBSET Tags]
      /\ OneName(f)
  BY FilesParts DEF Good
<1>2. i \in Inodes /\ i # 0
  BY <1>1
<1>3. g \in Files
  BY <1>1, <1>2, WriteFiles
<1>4. g.dir = f.dir /\ g.data = data /\ g.out = f.out /\ g.in = f.in
  <2>1. g = [f EXCEPT !.data[i] = f.data[i] \cup tags]
    BY <1>2 DEF Write
  <2> HIDE DEF g, i
  <2>2. g = [dir |-> f.dir, data |-> data, out |-> f.out, in |-> f.in]
    BY <1>1, <2>1, FilesParts DEF Files
  <2> QED
    BY <2>2
<1> HIDE DEF g
<1>5. OneName(g)
  BY <1>1, <1>4 DEF OneName
<1>6. Read(g, nm) = Read(f, nm) \cup tags
  <2>1. g.data[i] = f.data[i] \cup tags
    BY <1>1, <1>2, <1>4
  <2> QED
    BY <1>2, <1>4, <2>1 DEF Read
<1>7. Others(f, g, nm)
  <2> SUFFICES ASSUME NEW m \in Names, m # nm PROVE Read(g, m) = Read(f, m)
    BY <1>4 DEF Others
  <2>1. CASE f.dir[m] = 0
    BY <1>4, <2>1 DEF Read
  <2>2. CASE f.dir[m] # 0
    <3>1. f.dir[m] \in Inodes /\ f.dir[m] # i
      BY <1>1, <1>2, <2>2 DEF OneName
    <3>2. g.data[f.dir[m]] = f.data[f.dir[m]]
      BY <1>1, <1>2, <1>4, <3>1
    <3> QED
      BY <1>4, <2>2, <3>2 DEF Read
  <2> QED
    BY <2>1, <2>2
<1> QED
  BY <1>3, <1>4, <1>5, <1>6, <1>7 DEF Good, g

(* freopen of stdout. *)
LEMMA ReopenOutData ==
    ASSUME NEW f, Good(f), NEW nm \in Names, NEW trunc \in BOOLEAN
    PROVE  LET g == ReopenOut(f, nm, trunc) IN
           /\ Good(g) /\ Others(f, g, nm) /\ g.out = g.dir[nm] /\ g.in = f.in
           /\ g.dir[nm] \in Inodes /\ (f.dir[nm] # 0 => g.dir[nm] = f.dir[nm])
           /\ Read(g, nm) = IF trunc THEN {} ELSE Read(f, nm)
<1> DEFINE e == [f EXCEPT !.out = 0]
           g == Create(e, nm, trunc)
           h == [g EXCEPT !.out = g.dir[nm]]
<1>1. Good(e) /\ SameFiles(f, e) /\ e.in = f.in
  BY StreamData
<1> HIDE DEF e
<1>2. /\ Good(g) /\ Others(e, g, nm) /\ g.in = e.in
      /\ g.dir[nm] \in Inodes /\ (e.dir[nm] # 0 => g.dir[nm] = e.dir[nm])
      /\ Read(g, nm) = IF trunc THEN {} ELSE Read(e, nm)
  BY <1>1, CreateData
<1>3. ReopenOut(f, nm, trunc) = Gc(h)
  BY DEF ReopenOut, e
<1> HIDE DEF g
<1>4. Good(h) /\ SameFiles(g, h) /\ h.out = g.dir[nm] /\ h.in = g.in
  BY <1>2, StreamData, ZenonT(40)
<1> HIDE DEF h
<1>5. Good(Gc(h)) /\ SameFiles(h, Gc(h)) /\ Gc(h).out = h.out /\ Gc(h).in = h.in
  BY <1>4, GcData
<1>6. Others(f, Gc(h), nm)
  BY <1>1, <1>2, <1>4, <1>5 DEF Others, SameFiles
<1> QED
  BY <1>1, <1>2, <1>3, <1>4, <1>5, <1>6 DEF SameFiles

(* freopen of stdin, and closing it. *)
LEMMA ReopenInData ==
    ASSUME NEW f, Good(f), NEW i \in Inodes \cup {0}
    PROVE  LET g == Gc([f EXCEPT !.in = i]) IN
           Good(g) /\ SameFiles(f, g) /\ g.out = f.out /\ g.in = i
<1> DEFINE e == [f EXCEPT !.in = i]
<1>1. Good(e) /\ SameFiles(f, e) /\ e.in = i /\ e.out = f.out
  BY StreamData
<1> HIDE DEF e
<1>2. Good(Gc(e)) /\ SameFiles(e, Gc(e)) /\ Gc(e).out = e.out /\ Gc(e).in = e.in
  BY <1>1, GcData
<1> QED
  BY <1>1, <1>2 DEF SameFiles, e

-----------------------------------------------------------------------------
(* The construct that output is for *)

(* What Dest chooses: the last construct that is not a function call. *)
LEMMA DestWhat ==
    ASSUME NEW s \in Seq(Construct)
    PROVE  /\ Dest(s) \in 0..Len(s)
           /\ Dest(s) # 0 => Dest(s) \in 1..Len(s) /\ s[Dest(s)].k \in {"pipe", "word"}
           /\ \A e \in 1..Len(s) : e > Dest(s) => s[e].k = "call"
<1>1. \A e \in 1..Len(s) : s[e].k \notin {"pipe", "word"} => s[e].k = "call"
  <2> SUFFICES ASSUME NEW e \in 1..Len(s) PROVE s[e].k \in {"pipe", "word", "call"}
    OBVIOUS
  <2>1. s[e] \in Construct
    OBVIOUS
  <2> QED
    BY <2>1 DEF Construct, Constructs
<1>2. CASE Receivers(s) = {}
  BY <1>1, <1>2, DestInStack DEF Receivers
<1>3. CASE Receivers(s) # {}
  <2>1. Receivers(s) \subseteq 0..Len(s) /\ Len(s) \in Nat
    BY DEF Receivers
  <2>2. \E d \in Receivers(s) : \A e \in Receivers(s) : e <= d
    BY <1>3, <2>1, GreatestNumber
  <2>3. Dest(s) \in Receivers(s) /\ \A e \in Receivers(s) : e <= Dest(s)
    BY <1>3, <2>2 DEF Dest
  <2>4. ASSUME NEW e \in 1..Len(s), e > Dest(s) PROVE s[e].k = "call"
    <3>1. Dest(s) \in Nat
      BY <2>1, <2>3
    <3>2. e \notin Receivers(s)
      BY <2>3, <2>4, <3>1
    <3> QED
      BY <1>1, <3>2 DEF Receivers
  <2> QED
    BY <2>4, DestInStack
<1> QED
  BY <1>2, <1>3

(* Nothing else has that property. *)
LEMMA DestOnly ==
    ASSUME NEW s \in Seq(Construct), NEW d \in 0..Len(s),
           d # 0 => s[d].k \in {"pipe", "word"},
           \A e \in 1..Len(s) : e > d => s[e].k = "call"
    PROVE  Dest(s) = d
<1> DEFINE x == Dest(s)
<1>1. /\ x \in 0..Len(s) /\ (x # 0 => x \in 1..Len(s) /\ s[x].k \in {"pipe", "word"})
      /\ \A e \in 1..Len(s) : e > x => s[e].k = "call"
  BY DestWhat
<1> HIDE DEF x
<1>2. ~(x > d) /\ ~(d > x)
  BY <1>1
<1> QED
  BY <1>1, <1>2 DEF x

(* Constructs that are the same but for what was sent and counted. *)
Like(c, a) == a.k = c.k /\ a.nm = c.nm /\ a.i = c.i /\ a.n = c.n

(* Counting a command and marking what was sent, in this order and in the  *)
(* other.                                                                  *)
Marks(s, t, yes) ==
    /\ t \in Seq(Construct) /\ Len(t) = Len(s)
    /\ \A e \in 1..Len(s) : /\ Like(s[e], t[e])
                            /\ t[e].sent = (s[e].sent \/ (yes /\ e = Dest(s)))
    /\ s # <<>> => TopOf(t).cmds # 0

(* A construct with another value of sent. *)
LEMMA MarkSent ==
    ASSUME NEW c \in Construct
    PROVE  LET a == [c EXCEPT !.sent = TRUE]
           IN  a \in Construct /\ Like(c, a) /\ a.sent = TRUE /\ a.cmds = c.cmds
<1> DEFINE a == [c EXCEPT !.sent = TRUE]
<1>1. a \in Construct /\ a.sent = TRUE
  BY DEF Construct
<1>2. Like(c, a) /\ a.cmds = c.cmds
  BY DEF Construct, Like
<1> QED
  BY <1>1, <1>2

(* A construct with another value of cmds. *)
LEMMA MarkCmds ==
    ASSUME NEW c \in Construct, NEW m \in 0..MaxCmds
    PROVE  LET a == [c EXCEPT !.cmds = m]
           IN  a \in Construct /\ Like(c, a) /\ a.sent = c.sent /\ a.cmds = m
<1> DEFINE a == [c EXCEPT !.cmds = m]
<1>1. a \in Construct /\ a.cmds = m
  BY DEF Construct
<1>2. Like(c, a) /\ a.sent = c.sent
  BY DEF Construct, Like
<1> QED
  BY <1>1, <1>2

(* The stack after Counted. *)
LEMMA CountedWhat ==
    ASSUME NEW s \in Seq(Construct), Ready(s)
    PROVE  /\ Counted(s) \in Seq(Construct) /\ Len(Counted(s)) = Len(s)
           /\ \A e \in 1..Len(s) : /\ Like(s[e], Counted(s)[e])
                                   /\ Counted(s)[e].sent = s[e].sent
           /\ s # <<>> => TopOf(Counted(s)).cmds # 0
<1>1. CASE s = <<>>
  BY <1>1 DEF Counted
<1>2. CASE s # <<>>
  <2> DEFINE d == Len(s)
             a == [s[d] EXCEPT !.cmds = s[d].cmds + 1]
             t == [s EXCEPT ![d] = a]
  <2>1. d \in 1..Len(s) /\ s[d].cmds < MaxCmds
    BY <1>2 DEF Ready, TopOf
  <2>2. Counted(s) = t
    BY <1>2 DEF Counted
  <2>3. s[d] \in Construct
    BY <2>1
  <2>4. s[d].cmds \in 0..MaxCmds
    BY <2>3 DEF Construct
  <2>5. s[d].cmds + 1 \in 0..MaxCmds /\ s[d].cmds + 1 # 0
    BY <2>1, <2>4, BoundsAssumption
  <2>6. a \in Construct /\ Like(s[d], a) /\ a.sent = s[d].sent /\ a.cmds # 0
    <3> DEFINE m == s[d].cmds + 1
    <3>1. m \in 0..MaxCmds /\ m # 0
      BY <2>5
    <3>2. a = [s[d] EXCEPT !.cmds = m]
      OBVIOUS
    <3> HIDE DEF m, d, a
    <3> QED
      BY <2>3, <3>1, <3>2, MarkCmds
  <2> HIDE DEF a
  <2>7. /\ t \in Seq(Construct) /\ Len(t) = Len(s) /\ t[d] = a
        /\ \A e \in 1..Len(s) : e # d => t[e] = s[e]
    BY <2>1, <2>6
  <2> HIDE DEF t
  <2>8. TopOf(t) = a
    BY <2>7 DEF TopOf
  <2>9. \A e \in 1..Len(s) : Like(s[e], t[e]) /\ t[e].sent = s[e].sent
    <3>1. \A e \in 1..Len(s) : e = d \/ e # d
      OBVIOUS
    <3> QED
      BY <2>6, <2>7, <3>1, Zenon DEF Like
  <2> QED
    BY <2>2, <2>6, <2>7, <2>8, <2>9
<1> QED
  BY <1>1, <1>2

(* The stack after Sent. *)
LEMMA SentWhat ==
    ASSUME NEW s \in Seq(Construct), NEW yes \in BOOLEAN
    PROVE  /\ Sent(s, yes) \in Seq(Construct) /\ Len(Sent(s, yes)) = Len(s)
           /\ \A e \in 1..Len(s) :
                /\ Like(s[e], Sent(s, yes)[e])
                /\ Sent(s, yes)[e].sent = (s[e].sent \/ (yes /\ e = Dest(s)))
                /\ Sent(s, yes)[e].cmds = s[e].cmds
<1> DEFINE d == Dest(s)
<1>1. d \in 0..Len(s) /\ (d # 0 => d \in 1..Len(s))
  BY DestInStack
<1>2. ASSUME NEW e \in 1..Len(s) PROVE s[e].sent \in BOOLEAN
  <2>1. s[e] \in Construct
    OBVIOUS
  <2> QED
    BY <2>1 DEF Construct
<1>3. CASE ~(yes /\ d # 0)
  <2>1. Sent(s, yes) = s
    BY <1>3 DEF Sent
  <2>2. \A e \in 1..Len(s) : ~(yes /\ e = d)
    BY <1>1, <1>3
  <2> HIDE DEF d
  <2>3. \A e \in 1..Len(s) : s[e].sent = (s[e].sent \/ (yes /\ e = d))
    BY <1>2, <2>2
  <2> QED
    BY <2>1, <2>3 DEF Like, d
<1>4. CASE yes /\ d # 0
  <2> DEFINE a == [s[d] EXCEPT !.sent = TRUE]
             t == [s EXCEPT ![d] = a]
  <2>1. d \in 1..Len(s)
    BY <1>1, <1>4
  <2>2. Sent(s, yes) = t
    BY <1>4 DEF Sent
  <2> HIDE DEF d
  <2>3. s[d] \in Construct
    BY <2>1
  <2>4. a \in Construct /\ Like(s[d], a) /\ a.sent = TRUE /\ a.cmds = s[d].cmds
    BY <2>3, MarkSent
  <2> HIDE DEF a
  <2>5. /\ t \in Seq(Construct) /\ Len(t) = Len(s) /\ t[d] = a
        /\ \A e \in 1..Len(s) : e # d => t[e] = s[e]
    BY <2>1, <2>4
  <2> HIDE DEF t
  <2>6. ASSUME NEW e \in 1..Len(s)
        PROVE  /\ Like(s[e], t[e]) /\ t[e].cmds = s[e].cmds
               /\ t[e].sent = (s[e].sent \/ (yes /\ e = d))
    <3>1. CASE e = d
      <4>1. (s[e].sent \/ (yes /\ e = d)) = TRUE
        BY <1>2, <1>4, <3>1
      <4> QED
        BY <2>4, <2>5, <3>1, <4>1, Zenon
    <3>2. CASE e # d
      <4>1. (s[e].sent \/ (yes /\ e = d)) = s[e].sent
        BY <1>2, <3>2
      <4> QED
        BY <2>5, <3>2, <4>1, Zenon DEF Like
    <3> QED
      BY <3>1, <3>2
  <2> QED
    BY <2>2, <2>5, <2>6 DEF d
<1> QED
  BY <1>3, <1>4

(* Both. *)
LEMMA MarksWhat ==
    ASSUME NEW s \in Seq(Construct), Ready(s), NEW yes \in BOOLEAN
    PROVE  Marks(s, Sent(Counted(s), yes), yes) /\ Marks(s, Counted(Sent(s, yes)), yes)
<1> DEFINE n == Len(s)
           c == Counted(s)
           t == Sent(c, yes)
           u == Sent(s, yes)
           v == Counted(u)
<1>1. /\ c \in Seq(Construct) /\ Len(c) = n
      /\ \A e \in 1..n : Like(s[e], c[e]) /\ c[e].sent = s[e].sent
      /\ s # <<>> => TopOf(c).cmds # 0
  BY CountedWhat
<1>2. /\ u \in Seq(Construct) /\ Len(u) = n
      /\ \A e \in 1..n : /\ Like(s[e], u[e]) /\ u[e].cmds = s[e].cmds
                         /\ u[e].sent = (s[e].sent \/ (yes /\ e = Dest(s)))
  BY SentWhat
<1>3. n \in Nat /\ (s # <<>> => n \in 1..n) /\ (s = <<>> <=> n = 0)
  OBVIOUS
<1> HIDE DEF c, u
<1>4. Dest(c) = Dest(s)
  <2>1. /\ Dest(s) \in 0..Len(c) /\ (Dest(s) # 0 => c[Dest(s)].k \in {"pipe", "word"})
        /\ \A e \in 1..Len(c) : e > Dest(s) => c[e].k = "call"
    BY <1>1, DestWhat DEF Like
  <2> QED
    BY <1>1, <2>1, DestOnly
<1>5. /\ t \in Seq(Construct) /\ Len(t) = Len(c)
      /\ \A e \in 1..Len(c) : /\ Like(c[e], t[e]) /\ t[e].cmds = c[e].cmds
                              /\ t[e].sent = (c[e].sent \/ (yes /\ e = Dest(c)))
  BY <1>1, SentWhat
<1>6. Ready(u)
  <2>1. u # <<>> => s # <<>>
    BY <1>2, <1>3
  <2>2. s # <<>> => TopOf(u).cmds = TopOf(s).cmds
    BY <1>2, <1>3 DEF TopOf
  <2> QED
    BY <2>1, <2>2 DEF Ready
<1>7. /\ v \in Seq(Construct) /\ Len(v) = Len(u)
      /\ \A e \in 1..Len(u) : Like(u[e], v[e]) /\ v[e].sent = u[e].sent
      /\ u # <<>> => TopOf(v).cmds # 0
  BY <1>2, <1>6, CountedWhat
<1> HIDE DEF t, v
<1>8. s # <<>> => TopOf(t).cmds # 0 /\ u # <<>>
  BY <1>1, <1>2, <1>3, <1>5 DEF TopOf
<1>9. Marks(s, t, yes)
  <2>1. \A e \in 1..n : Like(s[e], t[e])
    BY <1>1, <1>5 DEF Like
  <2>2. \A e \in 1..n : t[e].sent = (s[e].sent \/ (yes /\ e = Dest(s)))
    BY <1>1, <1>4, <1>5
  <2> QED
    BY <1>1, <1>5, <1>8, <2>1, <2>2 DEF Marks
<1>10. Marks(s, v, yes)
  <2>1. \A e \in 1..n : Like(s[e], v[e])
    BY <1>2, <1>7 DEF Like
  <2>2. \A e \in 1..n : v[e].sent = (s[e].sent \/ (yes /\ e = Dest(s)))
    BY <1>2, <1>7
  <2> QED
    BY <1>2, <1>7, <1>8, <2>1, <2>2 DEF Marks
<1> QED
  BY <1>9, <1>10 DEF t, v, c, u

-----------------------------------------------------------------------------
(* The invariant *)

(* The file that a construct will read: what the running stage writes, the *)
(* capture of a substitution or of a function call.                        *)
NameOf(c) == IF c.k = "pipe" THEN PipeTmp(c.i) ELSE c.nm

(* Each construct has a file of its own, and in a stage of a pipeline only *)
(* functions are called.                                                   *)
Placed(s) ==
    \A d \in 1..Len(s) :
        /\ s[d].k = "word" => s[d].nm = WordTmp(d)
        /\ s[d].k = "call" => s[d].nm \in {NULL, CaptureTmp(d)}
        /\ s[d].k = "pipe" => \A e \in 1..Len(s) : e > d => s[e].k = "call"

(* The file of a pipeline or a substitution holds what commands wrote for  *)
(* it; that of a function call is empty, for the commands in the function  *)
(* have captures of their own.                                             *)
Holds(c, d, f) ==
    /\ c.k = "call" /\ c.nm # NULL => Read(f, c.nm) = {}
    /\ c.k # "call" => /\ f.dir[NameOf(c)] # 0
                       /\ Read(f, NameOf(c)) = IF c.sent THEN {d} ELSE {}
Full(s, f) == \A d \in 1..Len(s) : Holds(s[d], d, f)

(* Scripts in which nothing moves stdout away from a construct before the  *)
(* construct ends: no output is redirected, and no pipeline runs in a      *)
(* substitution.                                                           *)
Settled == "out" \notin Syntax /\ <<"word", "pipe">> \notin Nesting

(* stdout is open on the file that waits for the output of the next        *)
(* command, and a pipeline also tells guests so: always in those scripts,  *)
(* in others until the innermost construct has run a command.              *)
OutOK(s, f, so) ==
    s # <<>> /\ Dest(s) # 0 /\ (Settled \/ TopOf(s).cmds = 0) =>
        /\ f.out = f.dir[NameOf(s[Dest(s)])]
        /\ s[Dest(s)].k = "pipe" => so = NameOf(s[Dest(s)])

(* stdin is where the pipeline put it. *)
NoPipe(s) == \A d \in 1..Len(s) : s[d].k # "pipe"
StageIn(c, f) ==
    IF c.i = 0 THEN f.in = 0
    ELSE f.in = f.dir[PipeTmp(c.i - 1)] /\ f.in # 0
InOK(s, f) ==
    /\ NoPipe(s) => f.in = 0
    /\ \A d \in 1..Len(s) : s[d].k = "pipe" => StageIn(s[d], f)

(* In those scripts no pipeline is in progress with a substitution. *)
Separate(s) == Settled => NoPipe(s) \/ \A d \in 1..Len(s) : s[d].k # "word"

Streams(s, f, so) ==
    /\ Placed(s) /\ Separate(s) /\ Good(f) /\ Full(s, f)
    /\ OutOK(s, f, so) /\ InOK(s, f)

DInv ==
    /\ Streams(stack, fs, stdout_file)
    /\ OutputDelivered /\ TerminalOnly /\ StageInput /\ GuestOutput

(* The scripts of which it holds: each stage, substitution and function is *)
(* one command, unless nothing moves stdout away; no command redirects its *)
(* input, a stage contains no pipeline and no substitution, a substitution *)
(* no guest; and every freopen() succeeds.                                 *)
Delivering ==
    /\ MaxCmds = 1 \/ Settled
    /\ Syntax \cap {"in", "fault"} = {}
    /\ Nesting \cap {<<"pipe", "pipe">>, <<"pipe", "word">>, <<"word", "guest">>} = {}

-----------------------------------------------------------------------------
(* Facts about its parts *)

(* The kinds of names differ, and so do their numbers. *)
LEMMA NamesDiffer ==
    ASSUME NEW i \in Int, NEW j \in Int
    PROVE  /\ PipeTmp(i) # WordTmp(j) /\ PipeTmp(i) # CaptureTmp(j) /\ WordTmp(i) # CaptureTmp(j)
           /\ UserFile \notin {PipeTmp(i), WordTmp(i), CaptureTmp(i), NULL, Dangling}
           /\ NULL \notin {PipeTmp(i), WordTmp(i), CaptureTmp(i), Dangling}
           /\ Dangling \notin {PipeTmp(i), WordTmp(i), CaptureTmp(i)}
           /\ (PipeTmp(i) = PipeTmp(j) \/ WordTmp(i) = WordTmp(j) \/ CaptureTmp(i) = CaptureTmp(j)
                 => i = j)
BY DEF PipeTmp, WordTmp, CaptureTmp, UserFile, NULL, Dangling

(* The file of a construct: a name, the user's never, and none that a new  *)
(* construct or command takes.                                             *)
LEMMA NameOfWhat ==
    ASSUME NEW s \in Seq(Construct), Len(s) <= MaxDepth, Placed(s), NEW d \in 1..Len(s)
    PROVE  /\ s[d].k = "pipe" => s[d].i \in 0..(MaxStages - 1) /\ NameOf(s[d]) = PipeTmp(s[d].i)
           /\ s[d].k = "word" => NameOf(s[d]) = WordTmp(d)
           /\ s[d].k = "call" => NameOf(s[d]) = s[d].nm /\ s[d].nm \in {NULL, CaptureTmp(d)}
           /\ s[d].k \in {"pipe", "word", "call"}
           /\ NameOf(s[d]) \in Names \/ (s[d].k = "call" /\ s[d].nm = NULL)
           /\ NameOf(s[d]) \notin {UserFile, WordTmp(Len(s) + 1), CaptureTmp(Len(s) + 1)}
           /\ s[d].k # "pipe" => \A i \in Int : NameOf(s[d]) # PipeTmp(i)
<1> DEFINE c == s[d]
           n == Len(s)
<1>1. c \in Construct /\ d \in Int /\ d <= n /\ n \in Nat /\ d \in 1..MaxDepth /\ d \in 1..(MaxDepth + 1)
  BY BoundsAssumption
<1>2. c.k \in {"pipe", "word", "call"} /\ c.i \in 0..(MaxStages - 1)
  BY <1>1 DEF Construct, Constructs
<1>3. /\ c.k = "word" => c.nm = WordTmp(d)
      /\ c.k = "call" => c.nm \in {NULL, CaptureTmp(d)}
  BY DEF Placed
<1> HIDE DEF c, n
<1>4. c.i \in Int /\ d # n + 1 /\ n + 1 \in Int
  BY <1>1, <1>2, BoundsAssumption
<1>5. CASE c.k = "pipe"
  <2>1. NameOf(c) = PipeTmp(c.i)
    BY <1>5 DEF NameOf
  <2> QED
    BY <1>2, <1>4, <1>5, <2>1, NamesHas, NamesDiffer DEF c, n
<1>6. CASE c.k = "word"
  <2>1. NameOf(c) = WordTmp(d)
    BY <1>3, <1>6 DEF NameOf
  <2> QED
    BY <1>1, <1>4, <1>6, <2>1, NamesHas, NamesDiffer DEF c, n
<1>7. CASE c.k = "call"
  <2>1. NameOf(c) = c.nm
    BY <1>7 DEF NameOf
  <2> QED
    BY <1>1, <1>3, <1>4, <1>7, <2>1, NamesHas, NamesDiffer DEF c, n
<1> QED
  BY <1>2, <1>5, <1>6, <1>7

(* No construct has the file of a pipeline or substitution but itself. *)
LEMMA NamesApart ==
    ASSUME NEW s \in Seq(Construct), Len(s) <= MaxDepth, Placed(s),
           NEW d \in 1..Len(s), NEW e \in 1..Len(s), d # e, s[d].k # "call"
    PROVE  NameOf(s[e]) # NameOf(s[d])
<1>1. d \in Int /\ e \in Int /\ (d > e \/ e > d)
  OBVIOUS
<1>2. ~(s[d].k = "pipe" /\ s[e].k = "pipe")
  BY <1>1 DEF Placed
<1>3. /\ s[d].k = "pipe" => s[d].i \in Int /\ NameOf(s[d]) = PipeTmp(s[d].i)
      /\ s[d].k = "word" => NameOf(s[d]) = WordTmp(d)
      /\ s[d].k \in {"pipe", "word"}
  BY NameOfWhat, BoundsAssumption
<1>4. /\ s[e].k = "pipe" => s[e].i \in Int /\ NameOf(s[e]) = PipeTmp(s[e].i)
      /\ s[e].k = "word" => NameOf(s[e]) = WordTmp(e)
      /\ s[e].k = "call" => NameOf(s[e]) \in {NULL, CaptureTmp(e)}
      /\ s[e].k \in {"pipe", "word", "call"}
  BY NameOfWhat, BoundsAssumption
<1> QED
  BY <1>1, <1>2, <1>3, <1>4, NamesDiffer

(* A file that is no construct's can change. *)
LEMMA FullSame ==
    ASSUME NEW s \in Seq(Construct), Len(s) <= MaxDepth, Placed(s), NEW f, NEW g, NEW x,
           Others(f, g, x), NEW d \in 1..Len(s), NameOf(s[d]) # x, Holds(s[d], d, f)
    PROVE  Holds(s[d], d, g)
<1> DEFINE c == s[d]
<1>1. (c.k # "call" \/ c.nm # NULL) => NameOf(c) \in Names
  BY NameOfWhat
<1>2. c.k = "call" => NameOf(c) = c.nm
  BY NameOfWhat
<1> HIDE DEF c
<1>3. NameOf(c) # x /\ Holds(c, d, f)
  BY DEF c
<1>4. Holds(c, d, g)
  BY <1>1, <1>2, <1>3 DEF Holds, Others
<1> QED
  BY <1>4 DEF c

(* The marks keep the places and the input; the files follow what was sent. *)
LEMMA MarkedPlaces ==
    ASSUME NEW s \in Seq(Construct), NEW t, NEW yes, Marks(s, t, yes), Placed(s)
    PROVE  /\ Placed(t) /\ \A e \in 1..Len(s) : NameOf(t[e]) = NameOf(s[e])
           /\ \A f : InOK(s, f) => InOK(t, f)
           /\ \A f, so : (Settled => OutOK(s, f, so)) => OutOK(t, f, so)
           /\ Separate(s) => Separate(t)
<1>1. Len(t) = Len(s) /\ \A e \in 1..Len(s) : Like(s[e], t[e])
  BY DEF Marks
<1>2. Placed(t)
  BY <1>1 DEF Placed, Like
<1>3. \A e \in 1..Len(s) : NameOf(t[e]) = NameOf(s[e])
  BY <1>1 DEF NameOf, Like
<1>4. ASSUME NEW f, InOK(s, f) PROVE InOK(t, f)
  <2>1. NoPipe(t) => NoPipe(s)
    BY <1>1 DEF NoPipe, Like
  <2>2. ASSUME NEW e \in 1..Len(s), t[e].k = "pipe" PROVE StageIn(t[e], f)
    <3>1. t[e].i = s[e].i /\ s[e].k = "pipe"
      BY <1>1, <2>2 DEF Like
    <3>2. StageIn(s[e], f)
      BY <1>4, <3>1 DEF InOK
    <3> QED
      BY <3>1, <3>2 DEF StageIn
  <2> QED
    BY <1>1, <1>4, <2>1, <2>2 DEF InOK
<1>5. t # <<>> => s # <<>> /\ TopOf(t).cmds # 0
  BY <1>1 DEF Marks
<1>6. Dest(t) = Dest(s) /\ (Dest(s) # 0 => Dest(s) \in 1..Len(s))
  <2>1. /\ Dest(s) \in 0..Len(t) /\ (Dest(s) # 0 => t[Dest(s)].k \in {"pipe", "word"})
        /\ \A e \in 1..Len(t) : e > Dest(s) => t[e].k = "call"
    BY <1>1, DestWhat DEF Like
  <2>2. t \in Seq(Construct)
    BY DEF Marks
  <2> QED
    BY <2>1, <2>2, DestOnly, DestWhat
<1>7. ASSUME NEW f, NEW so, Settled => OutOK(s, f, so) PROVE OutOK(t, f, so)
  <2> SUFFICES ASSUME t # <<>>, Dest(t) # 0, Settled
               PROVE  /\ f.out = f.dir[NameOf(t[Dest(t)])]
                      /\ t[Dest(t)].k = "pipe" => so = NameOf(t[Dest(t)])
    BY <1>5 DEF OutOK
  <2> DEFINE d == Dest(s)
  <2>1. d \in 1..Len(s) /\ Dest(t) = d /\ t[d].k = s[d].k /\ NameOf(t[d]) = NameOf(s[d])
    BY <1>1, <1>3, <1>6 DEF Like
  <2>2. /\ f.out = f.dir[NameOf(s[d])]
        /\ s[d].k = "pipe" => so = NameOf(s[d])
    BY <1>5, <1>6, <1>7 DEF OutOK
  <2> QED
    BY <2>1, <2>2
<1>8. Separate(s) => Separate(t)
  BY <1>1 DEF Separate, NoPipe, Like
<1> QED
  BY <1>2, <1>3, <1>4, <1>7, <1>8

(* A construct a that may be put on s, and the stack t with it. *)
Pushes(s, a, t) ==
    /\ Len(s) < MaxDepth /\ a \in Construct /\ t = Append(s, a)
    /\ a.k = "word" => a.nm = WordTmp(Len(s) + 1)
    /\ a.k = "call" => a.nm \in {NULL, CaptureTmp(Len(s) + 1)}
    /\ a.k # "call" => NoPipe(s)
    /\ a.k = "pipe" => (Settled => \A d \in 1..Len(s) : s[d].k # "word")
Pushed(s, a, t) ==
    /\ t \in Seq(Construct) /\ Len(t) = Len(s) + 1 /\ t[Len(s) + 1] = a /\ TopOf(t) = a
    /\ \A e \in 1..Len(s) : t[e] = s[e]
    /\ Dest(t) = IF a.k = "call" THEN Dest(s) ELSE Len(s) + 1

(* A file that is no construct's. *)
Apart(s, x) == \A d \in 1..Len(s) : NameOf(s[d]) # x

(* A construct more. *)
LEMMA PushPlaces ==
    ASSUME NEW s \in Seq(Construct), NEW a, NEW t, Placed(s), Separate(s), Pushes(s, a, t),
           NEW f, NEW g, NEW x, Full(s, f), Others(f, g, x), Apart(s, x),
           Holds(a, Len(s) + 1, g)
    PROVE  Pushed(s, a, t) /\ Placed(t) /\ Separate(t) /\ Full(t, g)
<1>0. /\ Len(s) < MaxDepth /\ a \in Construct /\ t = Append(s, a)
      /\ a.k = "word" => a.nm = WordTmp(Len(s) + 1)
      /\ a.k = "call" => a.nm \in {NULL, CaptureTmp(Len(s) + 1)}
      /\ a.k # "call" => NoPipe(s)
      /\ \A d \in 1..Len(s) : NameOf(s[d]) # x
  BY DEF Pushes, Apart
<1> DEFINE n == Len(s)
<1>1. n \in Nat /\ n < MaxDepth /\ MaxDepth \in Nat
  BY <1>0, BoundsAssumption
<1>2. /\ t \in Seq(Construct) /\ Len(t) = n + 1
      /\ \A e \in 1..n : t[e] = s[e]
      /\ t[n + 1] = a
  BY <1>0, <1>1, AppendProperties
<1>3. \A e : e \in 1..(n + 1) <=> e \in 1..n \/ e = n + 1
  BY <1>1
<1>4. \A e \in 1..n : n + 1 > e /\ ~(e > n + 1) /\ e \in Int
  BY <1>1
<1>5. ~(n + 1 > n + 1)
  BY <1>1
<1>6. a.k \in {"pipe", "word", "call"}
  BY <1>0 DEF Construct, Constructs
<1>7. TopOf(t) = a
  BY <1>2 DEF TopOf
<1>8. Placed(t)
  <2> SUFFICES ASSUME NEW d \in 1..(n + 1)
               PROVE  /\ t[d].k = "word" => t[d].nm = WordTmp(d)
                      /\ t[d].k = "call" => t[d].nm \in {NULL, CaptureTmp(d)}
                      /\ t[d].k = "pipe" => \A e \in 1..(n + 1) : e > d => t[e].k = "call"
    BY <1>2 DEF Placed
  <2>1. CASE d = n + 1
    <3> HIDE DEF n
    <3>1. \A e \in 1..(n + 1) : ~(e > d)
      BY <1>3, <1>4, <1>5, <2>1, Zenon
    <3> QED
      BY <1>0, <1>2, <2>1, <3>1, Zenon DEF n
  <2>2. CASE d \in 1..n
    <3>1. t[d] = s[d]
      BY <1>2, <2>2
    <3>2. s[d].k = "pipe" => a.k = "call"
      BY <1>0, <1>6, <2>2 DEF NoPipe
    <3>3. /\ s[d].k = "word" => s[d].nm = WordTmp(d)
          /\ s[d].k = "call" => s[d].nm \in {NULL, CaptureTmp(d)}
          /\ s[d].k = "pipe" => \A e \in 1..n : e > d => s[e].k = "call"
      BY <2>2 DEF Placed
    <3> HIDE DEF n
    <3>4. s[d].k = "pipe" => \A e \in 1..(n + 1) : e > d => t[e].k = "call"
      BY <1>2, <1>3, <3>2, <3>3, Zenon
    <3> QED
      BY <3>1, <3>3, <3>4, Zenon
  <2> QED
    BY <1>3, <2>1, <2>2
<1>9. Full(t, g)
  <2>1. \A d \in 1..n : Holds(s[d], d, g)
    <3> SUFFICES ASSUME NEW d \in 1..n PROVE Holds(s[d], d, g)
      OBVIOUS
    <3>1. n <= MaxDepth /\ NameOf(s[d]) # x /\ Holds(s[d], d, f)
      BY <1>0, <1>1 DEF Full
    <3> QED
      BY <3>1, FullSame
  <2> HIDE DEF n
  <2>2. \A d \in 1..(n + 1) : Holds(t[d], d, g)
    BY <1>2, <1>3, <2>1, Zenon DEF n
  <2> QED
    BY <1>2, <2>2, Zenon DEF Full
<1>10. Dest(t) = IF a.k = "call" THEN Dest(s) ELSE n + 1
  <2>1. CASE a.k = "call"
    <3> DEFINE d == Dest(s)
    <3>1. /\ d \in 0..n /\ (d # 0 => d \in 1..n /\ s[d].k \in {"pipe", "word"})
          /\ \A e \in 1..n : e > d => s[e].k = "call"
      BY DestWhat
    <3>2. d \in 0..(n + 1)
      BY <1>1, <3>1
    <3> HIDE DEF d, n
    <3>3. d # 0 => t[d].k \in {"pipe", "word"}
      BY <1>2, <3>1, Zenon
    <3>4. \A e \in 1..(n + 1) : e > d => t[e].k = "call"
      BY <1>2, <1>3, <2>1, <3>1, Zenon
    <3>5. Dest(t) = d
      BY <1>2, <3>2, <3>3, <3>4, DestOnly
    <3> QED
      BY <2>1, <3>5 DEF d
  <2>2. CASE a.k # "call"
    <3> HIDE DEF n
    <3>1. n + 1 \in 0..(n + 1) /\ t[n + 1].k \in {"pipe", "word"}
      BY <1>1, <1>2, <1>6, <2>2
    <3>2. \A e \in 1..(n + 1) : e > n + 1 => t[e].k = "call"
      BY <1>1
    <3>3. Dest(t) = n + 1
      BY <1>2, <3>1, <3>2, DestOnly
    <3> QED
      BY <2>2, <3>3
  <2> QED
    BY <2>1, <2>2
<1>11. Separate(t)
  <2>1. a.k = "pipe" => (Settled => \A d \in 1..n : s[d].k # "word")
    BY DEF Pushes
  <2> HIDE DEF n
  <2>2. NoPipe(s) /\ a.k # "pipe" => NoPipe(t)
    BY <1>2, <1>3 DEF NoPipe, n
  <2>3. (\A d \in 1..n : s[d].k # "word") /\ a.k # "word" => \A d \in 1..(n + 1) : t[d].k # "word"
    BY <1>2, <1>3
  <2>4. Settled => NoPipe(s) \/ \A d \in 1..n : s[d].k # "word"
    BY DEF Separate, n
  <2>5. a.k \in {"pipe", "word"} => NoPipe(s)
    BY <1>0
  <2>6. Settled => NoPipe(t) \/ \A d \in 1..(n + 1) : t[d].k # "word"
    BY <1>6, <2>1, <2>2, <2>3, <2>4, <2>5
  <2> QED
    BY <1>2, <2>6 DEF Separate
<1> QED
  BY <1>2, <1>7, <1>8, <1>9, <1>10, <1>11 DEF Pushed

(* The stack t without the last construct of s. *)
Popped(s, t) ==
    /\ t \in Seq(Construct) /\ Len(t) = Len(s) - 1 /\ Len(t) < MaxDepth
    /\ \A e \in 1..Len(t) : t[e] = s[e] /\ e \in 1..Len(s)
    /\ TopOf(s) = s[Len(s)] /\ Len(s) \in 1..Len(s)
    /\ TopOf(s).k # "call" => NoPipe(t) /\ Apart(t, NameOf(TopOf(s)))
    /\ TopOf(s).k = "call" /\ NoPipe(t) => NoPipe(s)
    /\ Separate(s) => Separate(t)

(* A construct less. *)
LEMMA PopPlaces ==
    ASSUME NEW s \in Seq(Construct), s # <<>>, Len(s) <= MaxDepth, Placed(s), NEW f, Full(s, f), NEW t,
           t = SubSeq(s, 1, Len(s) - 1)
    PROVE  Popped(s, t) /\ Placed(t) /\ Full(t, f)
<1> DEFINE n == Len(s) - 1
<1>1. n \in Nat /\ Len(s) = n + 1 /\ n < MaxDepth
  BY BoundsAssumption
<1>2. t \in Seq(Construct) /\ Len(t) = n /\ \A e \in 1..n : t[e] = s[e]
  BY FrontIs
<1>3. TopOf(s) = s[n + 1] /\ n + 1 \in 1..(n + 1)
  BY <1>1 DEF TopOf
<1>4. \A e : e \in 1..(n + 1) <=> e \in 1..n \/ e = n + 1
  BY <1>1
<1> HIDE DEF n
<1>5. \A e \in 1..n : n + 1 > e /\ e # n + 1
  BY <1>1
<1>6. Placed(t)
  BY <1>1, <1>2, <1>4 DEF Placed
<1>7. Full(t, f)
  BY <1>1, <1>2, <1>4 DEF Full
<1>8. ASSUME TopOf(s).k # "call"
      PROVE  NoPipe(t) /\ \A e \in 1..n : NameOf(t[e]) # NameOf(TopOf(s))
  <2>1. NoPipe(t)
    BY <1>1, <1>2, <1>3, <1>4, <1>5, <1>8 DEF Placed, NoPipe
  <2>2. ASSUME NEW e \in 1..n PROVE NameOf(t[e]) # NameOf(TopOf(s))
    <3>1. e \in 1..Len(s) /\ n + 1 \in 1..Len(s) /\ n + 1 # e /\ s[n + 1].k # "call"
      BY <1>1, <1>3, <1>4, <1>5, <1>8
    <3>2. NameOf(s[e]) # NameOf(s[n + 1])
      BY <3>1, NamesApart
    <3> QED
      BY <1>2, <1>3, <3>2
  <2> QED
    BY <2>1, <2>2
<1>9. TopOf(s).k = "call" /\ NoPipe(t) => NoPipe(s)
  BY <1>1, <1>2, <1>3, <1>4 DEF NoPipe
<1>10. Separate(s) => Separate(t)
  BY <1>1, <1>2, <1>4 DEF Separate, NoPipe
<1> QED
  BY <1>1, <1>2, <1>3, <1>4, <1>6, <1>7, <1>8, <1>9, <1>10 DEF Popped, Apart

(* Output is redirected while some construct waits for it, and a construct *)
(* that may run a command has run none or still has stdout.                *)
LEMMA Waiting ==
    ASSUME IInv, Delivering
    PROVE  /\ redirected <=> Dest(stack) # 0
           /\ MayRun => Ready(stack) /\ (stack # <<>> => Settled \/ TopOf(stack).cmds = 0)
<1>1. stack \in Seq(Construct) /\ Globals(stack, redirected, capture)
  BY IInvParts
<1>2. redirected <=> Dest(stack) # 0
  <2> DEFINE d == Dest(stack)
  <2>1. /\ d \in 0..Len(stack) /\ (d # 0 => d \in 1..Len(stack) /\ stack[d].k \in {"pipe", "word"})
        /\ \A e \in 1..Len(stack) : e > d => stack[e].k = "call"
    BY <1>1, DestWhat
  <2> HIDE DEF d
  <2>2. redirected <=> \E e \in 1..Len(stack) : stack[e].k \in {"pipe", "word"}
    BY <1>1 DEF Globals, Redirected
  <2>3. d = 0 => \A e \in 1..Len(stack) : stack[e].k = "call"
    BY <2>1
  <2> QED
    BY <2>1, <2>2, <2>3 DEF d
<1>3. stack # <<>> => TopOf(stack).cmds \in 0..MaxCmds
  <2>1. stack # <<>> => TopOf(stack) \in Construct
    BY <1>1 DEF TopOf
  <2> QED
    BY <2>1 DEF Construct
<1>4. MayRun /\ stack # <<>> => TopOf(stack).cmds < MaxCmds
  BY DEF MayRun
<1>5. MaxCmds = 1 \/ Settled
  BY DEF Delivering
<1> QED
  BY <1>2, <1>3, <1>4, <1>5 DEF Ready

(* No pipeline or substitution starts, and no guest runs, inside one that  *)
(* would take its streams away.                                            *)
LEMMA NotNested ==
    ASSUME Delivering
    PROVE  /\ Within("pipe") => /\ NoPipe(stack)
                                /\ Settled => \A d \in 1..Len(stack) : stack[d].k # "word"
           /\ Within("word") => NoPipe(stack)
           /\ Within("guest") => \A d \in 1..Len(stack) : stack[d].k # "word"
BY DEF Delivering, Within, NoPipe, Depth, Settled

(* What the parts of the invariant say. *)
LEMMA DInvParts ==
    ASSUME IInv, DInv
    PROVE  /\ Placed(stack) /\ Separate(stack) /\ Good(fs) /\ Full(stack, fs)
           /\ OutOK(stack, fs, stdout_file) /\ InOK(stack, fs)
BY DEF DInv, Streams

-----------------------------------------------------------------------------
(* The steps *)

(* The initial state. *)
LEMMA DeliveryInit == Init => DInv
<1> SUFFICES ASSUME Init PROVE DInv
  OBVIOUS
<1>1. IInv
  BY StdioInit
<1>2. Good(fs)
  <2>1. fs \in Files
    BY <1>1, IInvParts
  <2>2. fs.dir = [nm \in Names |-> IF nm = UserFile THEN 1 ELSE 0]
    BY DEF Init
  <2>3. OneName(fs)
    BY <2>2 DEF OneName
  <2> QED
    BY <2>1, <2>3 DEF Good
<1>3. Len(stack) = 0 /\ stack = <<>>
  BY DEF Init
<1>4. Placed(stack) /\ Separate(stack) /\ Full(stack, fs) /\ OutOK(stack, fs, stdout_file)
  BY <1>3 DEF Placed, Full, OutOK, Separate, NoPipe
<1>5. InOK(stack, fs)
  <2>1. fs.in = 0
    BY DEF Init
  <2> QED
    BY <1>3, <2>1 DEF InOK
<1> QED
  BY <1>2, <1>4, <1>5
     DEF Init, DInv, Streams, OutputDelivered, TerminalOnly, StageInput, GuestOutput

(* Unchanged histories keep their promises. *)
Told(h, t, v) == h.got = h.want /\ t \subseteq {0} /\ v.out /\ v.stage

(* The invariant from its parts. *)
LEMMA DInvMade ==
    /\ DInv <=> /\ Streams(stack, fs, stdout_file)
                /\ Told(handover, term, view)
    /\ DInv' <=> /\ Streams(stack', fs', stdout_file')
                 /\ Told(handover', term', view')
BY DEF DInv, Streams, Told, OutputDelivered, TerminalOnly, StageInput, GuestOutput

(* A function is called. *)
LEMMA CallDelivers ==
    ASSUME Delivering, IInv, DInv, CallFunction
    PROVE  DInv'
<1> DEFINE n == Len(stack)
           nm == IF redirected THEN NULL ELSE CaptureTmp(n + 1)
           a == Open("call", 0, nm)
           t == stack'
           d == Dest(stack)
           x == CaptureTmp(n + 1)
<1>1. n \in Nat /\ n < MaxDepth /\ MaxDepth \in Nat /\ MayRun
  BY BoundsAssumption, IInvParts DEF CallFunction, MayNest, Depth
<1>2. /\ stack' = Append(stack, a)
      /\ redirected => UNCHANGED <<stdout_file, fs>>
      /\ ~redirected => fs' = ReopenOut(fs, x, TRUE)
      /\ UNCHANGED <<term, handover, view>>
  BY DEF CallFunction, Depth, Delivering
<1>3. x \in Names /\ 0 \in 0..MaxStages /\ "call" \in Constructs \ {"top"} /\ nm \in {NULL, x}
  BY <1>1, NamesHas, BoundsAssumption DEF Constructs
<1>4. a \in Construct /\ a.k = "call" /\ a.nm = nm
  <2>1. nm \in Names \cup {NULL}
    BY <1>3
  <2> HIDE DEF nm
  <2> QED
    BY <1>3, <2>1, OpenConstruct
<1>5. /\ stack \in Seq(Construct) /\ Len(stack) <= MaxDepth /\ Placed(stack) /\ Separate(stack)
      /\ Good(fs) /\ Full(stack, fs) /\ OutOK(stack, fs, stdout_file) /\ InOK(stack, fs)
  BY DInvParts, IInvParts
<1>6. (redirected <=> d # 0) /\ (stack # <<>> => Settled \/ TopOf(stack).cmds = 0)
  BY <1>1, Waiting
<1>7. \A e \in 1..n : NameOf(stack[e]) # x
  BY <1>5, NameOfWhat
<1>8. /\ Good(fs') /\ Others(fs, fs', x) /\ fs'.in = fs.in
      /\ ~redirected => Read(fs', x) = {}
      /\ redirected => fs' = fs
  <2>1. CASE redirected
    BY <1>2, <1>5, <2>1 DEF Others
  <2>2. CASE ~redirected
    <3> DEFINE g == ReopenOut(fs, x, TRUE)
    <3> HIDE DEF x
    <3>1. Good(g) /\ Others(fs, g, x) /\ g.in = fs.in /\ Read(g, x) = {}
      BY <1>3, <1>5, ReopenOutData
    <3>2. fs' = g
      BY <1>2, <2>2
    <3> QED
      BY <2>2, <3>1, <3>2
  <2> QED
    BY <2>1, <2>2
<1>9. Holds(a, n + 1, fs')
  BY <1>4, <1>8 DEF Holds
<1>10. /\ t \in Seq(Construct) /\ Len(t) = n + 1 /\ t[n + 1] = a /\ TopOf(t) = a
       /\ \A e \in 1..n : t[e] = stack[e]
       /\ Placed(t) /\ Separate(t) /\ Full(t, fs') /\ Dest(t) = d
  <2> HIDE DEF a, nm, x, t
  <2>1. Pushes(stack, a, t)
    BY <1>1, <1>2, <1>3, <1>4 DEF Pushes, x, t
  <2>2. Apart(stack, x)
    BY <1>7 DEF Apart
  <2>3. Pushed(stack, a, t) /\ Placed(t) /\ Separate(t) /\ Full(t, fs')
    BY <1>5, <1>8, <1>9, <2>1, <2>2, PushPlaces
  <2> QED
    BY <1>4, <2>3 DEF Pushed
<1> HIDE DEF a, t, x, nm
<1>11. OutOK(t, fs', stdout_file')
  <2> SUFFICES ASSUME d # 0
               PROVE  /\ fs'.out = fs'.dir[NameOf(t[d])]
                      /\ t[d].k = "pipe" => stdout_file' = NameOf(t[d])
    BY <1>10 DEF OutOK
  <2>1. d \in 1..n
    BY <1>5, DestWhat
  <2>2. stack # <<>> /\ t[d] = stack[d]
    BY <1>10, <2>1
  <2>3. fs' = fs /\ stdout_file' = stdout_file
    BY <1>2, <1>6
  <2> QED
    BY <1>5, <1>6, <2>2, <2>3 DEF OutOK
<1>12. InOK(t, fs')
  <2>1. NoPipe(t) => NoPipe(stack)
    BY <1>1, <1>10 DEF NoPipe
  <2>2. ASSUME NEW e \in 1..(n + 1), t[e].k = "pipe" PROVE StageIn(t[e], fs')
    <3>1. e \in 1..n /\ t[e] = stack[e]
      BY <1>1, <1>4, <1>10, <2>2
    <3>2. StageIn(stack[e], fs)
      BY <1>5, <2>2, <3>1 DEF InOK
    <3>3. redirected
      <4>1. d # 0
        BY <1>5, <2>2, <3>1, DestWhat
      <4> QED
        BY <1>6, <4>1
    <3> QED
      BY <1>8, <3>1, <3>2, <3>3
  <2> QED
    BY <1>5, <1>8, <1>10, <2>1, <2>2 DEF InOK
<1> QED
  BY <1>2, <1>8, <1>10, <1>11, <1>12, DInvMade DEF Streams, t

(* A command substitution starts. *)
LEMMA WordStartDelivers ==
    ASSUME Delivering, IInv, DInv, WordStart
    PROVE  DInv'
<1> DEFINE n == Len(stack)
           x == WordTmp(n + 1)
           a == Open("word", 0, x)
           t == stack'
           g == ReopenOut(fs, x, TRUE)
<1>1. n \in Nat /\ n < MaxDepth /\ MaxDepth \in Nat /\ Within("word")
  BY BoundsAssumption, IInvParts DEF WordStart, MayNest, Depth
<1>2. t = Append(stack, a) /\ fs' = g /\ UNCHANGED <<stdout_file, stdin_file, term, handover, view>>
  BY DEF WordStart, Depth
<1>3. x \in Names /\ 0 \in 0..MaxStages /\ "word" \in Constructs \ {"top"}
  BY <1>1, NamesHas, BoundsAssumption DEF Constructs
<1>4. a \in Construct /\ a.k = "word" /\ a.nm = x /\ a.sent = FALSE
  <2>1. x \in Names \cup {NULL}
    BY <1>3
  <2>2. a.sent = FALSE
    BY DEF Open
  <2> HIDE DEF x
  <2> QED
    BY <1>3, <2>1, <2>2, OpenConstruct
<1>5. /\ stack \in Seq(Construct) /\ Len(stack) <= MaxDepth /\ Placed(stack) /\ Separate(stack)
      /\ Good(fs) /\ Full(stack, fs) /\ InOK(stack, fs)
  BY DInvParts, IInvParts
<1>6. NoPipe(stack)
  BY <1>1, NotNested
<1>7. Apart(stack, x)
  BY <1>5, NameOfWhat DEF Apart
<1>8. /\ Good(g) /\ Others(fs, g, x) /\ g.in = fs.in /\ Read(g, x) = {}
      /\ g.out = g.dir[x] /\ g.dir[x] # 0
  <2>1. 0 \notin Inodes
    BY DEF Inodes
  <2> HIDE DEF x
  <2> QED
    BY <1>3, <1>5, <2>1, ReopenOutData
<1>9. Holds(a, n + 1, g) /\ NameOf(a) = x
  <2> HIDE DEF a, x, g
  <2> QED
    BY <1>4, <1>8 DEF Holds, NameOf
<1> HIDE DEF a, g, t
<1>10. Pushes(stack, a, t)
  BY <1>1, <1>2, <1>4, <1>6 DEF Pushes
<1> HIDE DEF x
<1>11. Pushed(stack, a, t) /\ Placed(t) /\ Separate(t) /\ Full(t, g)
  BY <1>5, <1>7, <1>8, <1>9, <1>10, PushPlaces
<1>12. /\ Len(t) = n + 1 /\ t[n + 1] = a /\ Dest(t) = n + 1
       /\ \A e \in 1..n : t[e] = stack[e]
  BY <1>4, <1>11 DEF Pushed
<1>13. OutOK(t, g, stdout_file)
  BY <1>4, <1>8, <1>9, <1>12 DEF OutOK
<1>14. InOK(t, g)
  <2>1. NoPipe(t)
    BY <1>1, <1>4, <1>6, <1>12 DEF NoPipe
  <2>2. fs.in = 0
    BY <1>5, <1>6 DEF InOK
  <2> QED
    BY <1>8, <2>1, <2>2 DEF InOK, NoPipe
<1> QED
  BY <1>2, <1>8, <1>11, <1>13, <1>14, DInvMade DEF Streams, t

(* A pipeline starts. *)
LEMMA PipelineStartDelivers ==
    ASSUME Delivering, IInv, DInv, PipelineStart
    PROVE  DInv'
<1> DEFINE n == Len(stack)
           x == PipeTmp(0)
           t == stack'
           g == ReopenOut(fs, x, TRUE)
<1>1. n \in Nat /\ n < MaxDepth /\ MaxDepth \in Nat /\ Within("pipe")
  BY BoundsAssumption, IInvParts DEF PipelineStart, MayNest, Depth
<1>2. PICK m \in 2..MaxStages : t = Append(stack, Open("pipe", m, NULL))
  BY DEF PipelineStart
<1> DEFINE a == Open("pipe", m, NULL)
<1>3. fs' = g /\ stdout_file' = x /\ UNCHANGED <<term, handover, view>>
  BY DEF PipelineStart
<1>4. x \in Names /\ "pipe" \in Constructs \ {"top"}
  BY NamesHas, BoundsAssumption DEF Constructs
<1>5. NoPipe(stack) /\ (Settled => \A e \in 1..n : stack[e].k # "word")
  BY <1>1, NotNested
<1>6. /\ stack \in Seq(Construct) /\ Len(stack) <= MaxDepth /\ Placed(stack) /\ Separate(stack)
      /\ Good(fs) /\ Full(stack, fs) /\ InOK(stack, fs)
  BY DInvParts, IInvParts
<1>7. fs.in = 0
  BY <1>5, <1>6 DEF InOK
<1>8. a \in Construct /\ a.k = "pipe" /\ a.i = 0 /\ a.sent = FALSE
  <2>1. m \in 0..MaxStages /\ NULL \in Names \cup {NULL}
    BY BoundsAssumption
  <2>2. a.sent = FALSE
    BY DEF Open
  <2> QED
    BY <1>4, <2>1, <2>2, OpenConstruct
<1>9. Apart(stack, x)
  BY <1>5, <1>6, NameOfWhat DEF Apart, NoPipe
<1>10. /\ Good(g) /\ Others(fs, g, x) /\ g.in = fs.in /\ Read(g, x) = {}
       /\ g.out = g.dir[x] /\ g.dir[x] # 0
  <2>1. 0 \notin Inodes
    BY DEF Inodes
  <2> HIDE DEF x
  <2> QED
    BY <1>4, <1>6, <2>1, ReopenOutData
<1> HIDE DEF a, g, t
<1>11. Holds(a, n + 1, g) /\ NameOf(a) = x
  BY <1>8, <1>10 DEF Holds, NameOf
<1>12. Pushes(stack, a, t)
  BY <1>1, <1>2, <1>5, <1>8 DEF Pushes, a
<1> HIDE DEF x
<1>13. Pushed(stack, a, t) /\ Placed(t) /\ Separate(t) /\ Full(t, g)
  BY <1>6, <1>9, <1>10, <1>11, <1>12, PushPlaces
<1>14. /\ Len(t) = n + 1 /\ t[n + 1] = a /\ Dest(t) = n + 1
       /\ \A e \in 1..n : t[e] = stack[e]
  BY <1>8, <1>13 DEF Pushed
<1>15. OutOK(t, g, x)
  BY <1>8, <1>10, <1>11, <1>14 DEF OutOK
<1>16. InOK(t, g)
  <2>1. ~NoPipe(t)
    BY <1>1, <1>8, <1>14 DEF NoPipe
  <2>2. ASSUME NEW e \in 1..(n + 1), t[e].k = "pipe" PROVE StageIn(t[e], g)
    <3>1. t[e] = a
      BY <1>1, <1>5, <1>14, <2>2 DEF NoPipe
    <3> QED
      BY <1>7, <1>8, <1>10, <3>1 DEF StageIn
  <2> QED
    BY <1>14, <2>1, <2>2 DEF InOK
<1> QED
  BY <1>3, <1>10, <1>13, <1>15, <1>16, DInvMade DEF Streams, t

(* A function returns. *)
LEMMA ReturnDelivers ==
    ASSUME Delivering, IInv, DInv, FunctionReturns
    PROVE  DInv'
<1> DEFINE n == Len(stack)
           u == Callers
           c == TopOf(stack)
           t == stack'
<1>1. stack # <<>> /\ c \in Construct /\ c.k = "call" /\ u = SubSeq(stack, 1, n - 1)
  BY TopConstruct DEF FunctionReturns
<1>2. /\ t = Counted(u)
      /\ c.nm = NULL => UNCHANGED <<stdout_file, fs, term>>
      /\ c.nm # NULL => /\ term' = term \cup Read(fs, c.nm) /\ fs' = Unlink(fs, c.nm)
                        /\ stdout_file # c.nm => stdout_file' = stdout_file
      /\ UNCHANGED <<stdin_file, handover, view>>
  BY DEF FunctionReturns
<1>3. /\ stack \in Seq(Construct) /\ Len(stack) <= MaxDepth /\ Placed(stack) /\ Separate(stack)
      /\ Good(fs) /\ Full(stack, fs) /\ InOK(stack, fs)
  BY DInvParts, IInvParts
<1>4. Ready(u)
  <2>1. StackOK(stack) /\ Globals(stack, redirected, capture)
    BY IInvParts
  <2>2. SubSeq(stack, 1, Len(stack) - 1) # <<>> => TopOf(SubSeq(stack, 1, Len(stack) - 1)).cmds < MaxCmds
    BY <1>1, <2>1, PopConstruct
  <2> QED
    BY <1>1, <2>2 DEF Ready
<1> HIDE DEF u, c
<1>5. /\ u \in Seq(Construct) /\ Len(u) = n - 1 /\ Len(u) < MaxDepth
      /\ \A e \in 1..Len(u) : u[e] = stack[e] /\ e \in 1..n
      /\ Placed(u) /\ Full(u, fs)
      /\ c = stack[n] /\ n \in 1..n
      /\ NoPipe(u) => NoPipe(stack)
      /\ Separate(u)
  <2>1. Popped(stack, u) /\ Placed(u) /\ Full(u, fs)
    BY <1>1, <1>3, PopPlaces
  <2> QED
    BY <1>1, <1>3, <2>1 DEF Popped, c
<1>6. c.nm = CaptureTmp(n) \/ c.nm = NULL
  BY <1>1, <1>3, <1>5 DEF Placed
<1>7. c.nm # NULL => c.nm \in Names /\ Read(fs, c.nm) = {} /\ Apart(u, c.nm)
                     /\ \A i \in Int : c.nm # PipeTmp(i)
  <2> SUFFICES ASSUME c.nm # NULL
               PROVE  /\ c.nm \in Names /\ Read(fs, c.nm) = {} /\ Apart(u, c.nm)
                      /\ \A i \in Int : c.nm # PipeTmp(i)
    OBVIOUS
  <2>1. c.nm = CaptureTmp(n) /\ n \in 1..(MaxDepth + 1) /\ n \in Int
    BY <1>3, <1>5, <1>6, BoundsAssumption
  <2>2. Holds(c, n, fs)
    BY <1>3, <1>5 DEF Full
  <2>3. n = Len(u) + 1 /\ Len(u) <= MaxDepth
    BY <1>5, BoundsAssumption
  <2>4. Apart(u, c.nm)
    BY <1>5, <2>1, <2>3, NameOfWhat DEF Apart
  <2> QED
    BY <1>1, <2>1, <2>2, <2>4, NamesHas, NamesDiffer DEF Holds
<1>8. Good(fs') /\ Full(u, fs') /\ fs'.in = fs.in /\ fs'.out = fs.out
      /\ (c.nm # NULL => Others(fs, fs', c.nm))
      /\ \A i \in 0..(MaxStages - 1) : fs'.dir[PipeTmp(i)] = fs.dir[PipeTmp(i)]
  <2>1. CASE c.nm = NULL
    BY <1>2, <1>3, <1>5, <2>1
  <2>2. CASE c.nm # NULL
    <3> DEFINE x == c.nm
               g == Unlink(fs, x)
    <3>1. x \in Names /\ Apart(u, x) /\ fs' = g
      BY <1>2, <1>7, <2>2
    <3> HIDE DEF x
    <3>2. Good(g) /\ Others(fs, g, x) /\ g.in = fs.in /\ g.out = fs.out
      BY <1>3, <3>1, UnlinkData
    <3> HIDE DEF g
    <3>3. Full(u, g)
      <4> SUFFICES ASSUME NEW e \in 1..Len(u) PROVE Holds(u[e], e, g)
        BY DEF Full
      <4>1. Len(u) <= MaxDepth /\ NameOf(u[e]) # x /\ Holds(u[e], e, fs)
        BY <1>5, <3>1, BoundsAssumption DEF Apart, Full
      <4> QED
        BY <1>5, <3>2, <4>1, FullSame
    <3>4. \A i \in 0..(MaxStages - 1) : PipeTmp(i) \in Names /\ PipeTmp(i) # x
      BY <1>7, <2>2, NamesHas, BoundsAssumption DEF x
    <3>5. \A i \in 0..(MaxStages - 1) : g.dir[PipeTmp(i)] = fs.dir[PipeTmp(i)]
      BY <3>2, <3>4 DEF Others
    <3> QED
      BY <3>1, <3>2, <3>3, <3>5 DEF x
  <2> QED
    BY <2>1, <2>2
<1>9. InOK(u, fs')
  <2>1. ASSUME NEW e \in 1..Len(u), u[e].k = "pipe" PROVE StageIn(u[e], fs')
    <3>1. StageIn(u[e], fs) /\ u[e] \in Construct
      BY <1>3, <1>5, <2>1 DEF InOK
    <3>2. u[e].i \in 0..(MaxStages - 1)
      BY <3>1 DEF Construct
    <3>3. u[e].i # 0 => u[e].i - 1 \in 0..(MaxStages - 1)
      BY <3>2, BoundsAssumption
    <3> QED
      BY <1>8, <3>1, <3>3 DEF StageIn
  <2> QED
    BY <1>3, <1>5, <1>8, <2>1 DEF InOK
<1>10. Marks(u, t, FALSE)
  <2>1. Marks(u, Sent(Counted(u), FALSE), FALSE)
    BY <1>4, <1>5, MarksWhat
  <2>2. Sent(Counted(u), FALSE) = Counted(u)
    BY DEF Sent
  <2> QED
    BY <1>2, <2>1, <2>2
<1> HIDE DEF t
<1>11. Settled => OutOK(u, fs', stdout_file')
  <2> DEFINE d == Dest(u)
  <2> SUFFICES ASSUME Settled, d # 0
               PROVE  /\ fs'.out = fs'.dir[NameOf(u[d])]
                      /\ u[d].k = "pipe" => stdout_file' = NameOf(u[d])
    BY DEF OutOK
  <2>1. /\ d \in 1..Len(u) /\ u[d].k \in {"pipe", "word"}
        /\ \A e \in 1..Len(u) : e > d => u[e].k = "call"
    BY <1>5, DestWhat
  <2> HIDE DEF d
  <2>2. Dest(stack) = d
    <3>1. d \in 0..n /\ stack[d].k \in {"pipe", "word"}
      BY <1>5, <2>1
    <3>2. ASSUME NEW e \in 1..n, e > d PROVE stack[e].k = "call"
      <4>1. e = n \/ e \in 1..Len(u)
        <5> HIDE DEF n
        <5> QED
          BY <1>5
      <4> QED
        BY <1>1, <1>5, <2>1, <3>2, <4>1
    <3> QED
      BY <1>3, <3>1, <3>2, DestOnly
  <2>3. stack[d] = u[d] /\ OutOK(stack, fs, stdout_file)
    BY <1>5, <2>1, DInvParts
  <2>4. /\ fs.out = fs.dir[NameOf(u[d])]
        /\ u[d].k = "pipe" => stdout_file = NameOf(u[d])
    BY <1>1, <2>1, <2>2, <2>3 DEF OutOK
  <2>5. CASE c.nm = NULL
    BY <1>2, <2>4, <2>5
  <2>6. CASE c.nm # NULL
    <3>1. NameOf(u[d]) # c.nm
      BY <1>7, <2>1, <2>6 DEF Apart
    <3>2. NameOf(u[d]) \in Names
      <4>1. Len(u) <= MaxDepth /\ u[d].k # "call"
        BY <1>5, <2>1, BoundsAssumption
      <4> QED
        BY <1>5, <2>1, <4>1, NameOfWhat
    <3>3. fs'.dir[NameOf(u[d])] = fs.dir[NameOf(u[d])]
      BY <1>8, <2>6, <3>1, <3>2 DEF Others
    <3> QED
      BY <1>2, <1>8, <2>4, <2>6, <3>1, <3>3
  <2> QED
    BY <2>5, <2>6
<1>12. /\ Placed(t) /\ Separate(t) /\ InOK(t, fs') /\ OutOK(t, fs', stdout_file')
       /\ \A e \in 1..Len(u) : NameOf(t[e]) = NameOf(u[e])
  BY <1>5, <1>9, <1>10, <1>11, MarkedPlaces
<1>13. Full(t, fs')
  <2> SUFFICES ASSUME NEW e \in 1..Len(u) PROVE Holds(t[e], e, fs')
    BY <1>10 DEF Full, Marks
  <2>1. Holds(u[e], e, fs')
    BY <1>8 DEF Full
  <2>2. u[e].sent \in BOOLEAN
    <3>1. u[e] \in Construct
      BY <1>5
    <3> QED
      BY <3>1 DEF Construct
  <2>3. t[e].k = u[e].k /\ t[e].nm = u[e].nm /\ t[e].sent = u[e].sent
    BY <1>10, <2>2 DEF Marks, Like
  <2> QED
    BY <1>12, <2>1, <2>3 DEF Holds
<1>14. Told(handover, term, view) /\ term' = term
  BY <1>2, <1>7, DInvMade
<1> QED
  BY <1>2, <1>8, <1>12, <1>13, <1>14, DInvMade DEF Streams, t

(* The same for all the constructs of a stack. *)
LEMMA FullOthers ==
    ASSUME NEW s \in Seq(Construct), Len(s) <= MaxDepth, Placed(s), NEW f, NEW g, NEW x,
           Others(f, g, x), Apart(s, x), Full(s, f)
    PROVE  Full(s, g)
<1> SUFFICES ASSUME NEW d \in 1..Len(s) PROVE Holds(s[d], d, g)
  BY DEF Full
<1>1. NameOf(s[d]) # x /\ Holds(s[d], d, f)
  BY DEF Apart, Full
<1> QED
  BY <1>1, FullSame

(* The stack below the construct that ends. *)
LEMMA Below ==
    ASSUME IInv, DInv, stack # <<>>
    PROVE  /\ Popped(stack, Callers) /\ Placed(Callers) /\ Full(Callers, fs) /\ Ready(Callers)
           /\ Separate(Callers)
           /\ Holds(TopOf(stack), Len(stack), fs)
<1>1. /\ stack \in Seq(Construct) /\ Len(stack) <= MaxDepth /\ Placed(stack) /\ Full(stack, fs)
      /\ Separate(stack) /\ StackOK(stack) /\ Globals(stack, redirected, capture)
  BY DInvParts, IInvParts
<1>2. Callers = SubSeq(stack, 1, Len(stack) - 1)
  BY DEF Callers
<1>3. Popped(stack, Callers) /\ Placed(Callers) /\ Full(Callers, fs)
  BY <1>1, <1>2, PopPlaces
<1>4. SubSeq(stack, 1, Len(stack) - 1) # <<>> => TopOf(SubSeq(stack, 1, Len(stack) - 1)).cmds < MaxCmds
  BY <1>1, PopConstruct
<1>5. Holds(TopOf(stack), Len(stack), fs)
  BY <1>1, <1>3 DEF Full, Popped
<1>6. Separate(Callers)
  BY <1>1, <1>3 DEF Popped
<1> QED
  BY <1>2, <1>3, <1>4, <1>5, <1>6 DEF Ready

(* The end of a stage: what it wrote is still there when the file it read  *)
(* has been removed, and no other construct has noticed.                   *)
LEMMA StageData ==
    ASSUME IInv, DInv, Kind(stack) = "pipe"
    PROVE  LET c == TopOf(stack)
               g == DropInput(fs)
           IN  /\ stack # <<>> /\ c \in Construct /\ c.k = "pipe" /\ c.i \in 0..(MaxStages - 1)
               /\ Good(g) /\ g.dir[PipeTmp(c.i)] # 0
               /\ Read(g, PipeTmp(c.i)) = Wants(stack)
               /\ Full(Callers, g) /\ NoPipe(Callers)
               /\ \A j \in Int : Apart(Callers, PipeTmp(j))
<1> DEFINE c == TopOf(stack)
           g == DropInput(fs)
           u == Callers
<1>1. stack # <<>> /\ c \in Construct /\ c.k = "pipe"
  BY TopConstruct
<1>2. c.i \in 0..(MaxStages - 1) /\ PipeTmp(c.i) \in Names
  BY Stage
<1>3. Popped(stack, u) /\ Placed(u) /\ Full(u, fs) /\ Holds(c, Len(stack), fs) /\ Good(fs)
  BY <1>1, Below, DInvParts
<1> HIDE DEF u
<1>4. u \in Seq(Construct) /\ Len(u) <= MaxDepth /\ NoPipe(u)
  BY <1>1, <1>3, BoundsAssumption DEF Popped
<1>5. \A j \in Int : Apart(u, PipeTmp(j))
  BY <1>3, <1>4, NameOfWhat DEF Apart, NoPipe
<1>6. fs.dir[PipeTmp(c.i)] # 0 /\ Read(fs, PipeTmp(c.i)) = Wants(stack)
  BY <1>1, <1>3 DEF Holds, NameOf, Wants
<1>7. CASE c.i = 0
  <2>1. g = fs
    BY <1>7 DEF DropInput
  <2> HIDE DEF c, g
  <2> QED
    BY <1>1, <1>2, <1>3, <1>4, <1>5, <1>6, <2>1 DEF c, g, u
<1>8. CASE c.i # 0
  <2> DEFINE x == PipeTmp(c.i - 1)
  <2>1. c.i - 1 \in 0..(MaxStages - 1) /\ c.i - 1 \in Int /\ c.i \in Int /\ c.i > 0
    <3> HIDE DEF c
    <3> QED
      BY <1>2, <1>8, BoundsAssumption
  <2>2. g = Unlink(fs, x)
    BY <2>1 DEF DropInput
  <2> HIDE DEF c, g
  <2>3. x \in Names /\ PipeTmp(c.i) # x /\ Apart(u, x)
    BY <1>5, <2>1, NamesHas, NamesDiffer
  <2> HIDE DEF x
  <2>4. Good(g) /\ Others(fs, g, x)
    BY <1>3, <2>2, <2>3, UnlinkData
  <2>5. Full(u, g)
    BY <1>3, <1>4, <2>3, <2>4, FullOthers
  <2>6. g.dir[PipeTmp(c.i)] # 0 /\ Read(g, PipeTmp(c.i)) = Wants(stack)
    BY <1>2, <1>6, <2>3, <2>4 DEF Others
  <2> QED
    BY <1>1, <1>2, <1>4, <1>5, <2>4, <2>5, <2>6 DEF c, g, u
<1> QED
  BY <1>7, <1>8

(* The next stage starts. *)
LEMMA NextStageDelivers ==
    ASSUME Delivering, IInv, DInv, NextStage
    PROVE  DInv'
<1> DEFINE n == Len(stack)
           c == stack[n]
           u == Callers
           f1 == DropInput(fs)
           x == PipeTmp(c.i)
           y == PipeTmp(c.i + 1)
           f2 == ReopenIn(f1, x)
           g == ReopenOut(f2, y, TRUE)
           a == [[[c EXCEPT !.i = c.i + 1] EXCEPT !.sent = FALSE] EXCEPT !.cmds = 0]
           t == [stack EXCEPT ![n] = a]
<1>1. Kind(stack) = "pipe" /\ c = TopOf(stack)
  BY DEF NextStage, TopOf
<1>2. /\ stack # <<>> /\ c \in Construct /\ c.k = "pipe" /\ c.i \in 0..(MaxStages - 1)
      /\ Good(f1) /\ f1.dir[x] # 0 /\ Read(f1, x) = Wants(stack)
      /\ Full(u, f1) /\ NoPipe(u) /\ \A j \in Int : Apart(u, PipeTmp(j))
  BY <1>1, StageData
<1>3. n \in 1..n /\ n \in Nat /\ stack \in Seq(Construct) /\ Placed(stack)
  BY <1>2, IInvParts, DInvParts
<1>4. /\ c.i < c.n - 1
      /\ handover' = [want |-> Wants(stack), got |-> Read(f1, x)]
      /\ fs' = g /\ stdout_file' = y
      /\ UNCHANGED <<term, view>>
  BY <1>1 DEF NextStage, StageStreams, StageNames
<1>5. stack' = t
  <2>1. stack' = [stack EXCEPT ![n].i = @ + 1, ![n].sent = FALSE, ![n].cmds = 0]
    BY DEF NextStage, Depth
  <2> QED
    BY <1>3, <2>1
<1>6. Popped(stack, u) /\ Placed(u)
  BY <1>2, Below
<1> HIDE DEF f1, u
<1>7. c.n \in 0..MaxStages /\ c.i \in Int
  BY <1>2, BoundsAssumption DEF Construct
<1>8. /\ c.i + 1 \in 0..(MaxStages - 1) /\ c.i + 1 \in Int /\ c.i + 1 # 0 /\ c.i # c.i + 1
      /\ (c.i + 1) - 1 = c.i
  <2> HIDE DEF c
  <2> QED
    BY <1>2, <1>4, <1>7, BoundsAssumption
<1>9. /\ a.k = "pipe" /\ a.i = c.i + 1 /\ a.nm = c.nm /\ a.sent = FALSE /\ a.cmds = 0
      /\ a \in Construct
  <2>1. FALSE \in BOOLEAN
    BY Zenon
  <2>2. 0 \in 0..MaxCmds
    BY BoundsAssumption
  <2> HIDE DEF c
  <2> QED
    BY <1>2, <1>8, <2>1, <2>2 DEF Construct
<1> HIDE DEF a
<1>10. /\ t \in Seq(Construct) /\ Len(t) = n /\ t[n] = a
       /\ \A e \in 1..n : e # n => t[e] = stack[e]
  BY <1>3, <1>9
<1> HIDE DEF t
<1>11. /\ u \in Seq(Construct) /\ Len(u) = n - 1 /\ Len(u) <= MaxDepth
       /\ \A e \in 1..Len(u) : u[e] = stack[e] /\ e \in 1..n /\ e # n
  BY <1>3, <1>6, BoundsAssumption DEF Popped
<1>12. ASSUME NEW e \in 1..n, e # n PROVE e \in 1..Len(u) /\ t[e] = u[e]
  <2>1. e \in 1..Len(u)
    <3> HIDE DEF n
    <3> QED
      BY <1>3, <1>11, <1>12
  <2> QED
    BY <1>10, <1>11, <1>12, <2>1
<1>13. x \in Names /\ y \in Names /\ x # y /\ Apart(u, y)
  BY <1>2, <1>7, <1>8, NamesHas, NamesDiffer
<1> HIDE DEF c
<1>14. f2 = Gc([f1 EXCEPT !.in = f1.dir[x]]) /\ f1.dir[x] \in Inodes \cup {0}
  BY <1>2, <1>13, FilesParts DEF ReopenIn, Good
<1>15. Good(f2) /\ SameFiles(f1, f2) /\ f2.in = f1.dir[x]
  <2> DEFINE i == f1.dir[x]
  <2>1. i \in Inodes \cup {0} /\ f2 = Gc([f1 EXCEPT !.in = i])
    BY <1>14
  <2> HIDE DEF i, x, f2
  <2>2. Good(f2) /\ SameFiles(f1, f2) /\ f2.in = i
    BY <1>2, <2>1, ReopenInData
  <2> QED
    BY <2>2 DEF i
<1> HIDE DEF f2, x, y
<1>16. /\ Good(g) /\ Others(f2, g, y) /\ g.out = g.dir[y] /\ g.in = f2.in
       /\ g.dir[y] # 0 /\ Read(g, y) = {}
  <2>1. 0 \notin Inodes
    BY DEF Inodes
  <2> QED
    BY <1>13, <1>15, <2>1, ReopenOutData
<1> HIDE DEF g
<1>17. Others(f1, g, y) /\ g.in = g.dir[x] /\ g.in # 0
  BY <1>2, <1>13, <1>15, <1>16 DEF Others, SameFiles
<1>18. Full(u, g)
  BY <1>2, <1>6, <1>11, <1>13, <1>17, FullOthers
<1>19. NameOf(a) = y
  BY <1>9 DEF NameOf, y
<1>20. Full(t, g)
  <2>1. Holds(a, n, g)
    BY <1>9, <1>16, <1>19 DEF Holds
  <2> SUFFICES ASSUME NEW e \in 1..n PROVE Holds(t[e], e, g)
    BY <1>10 DEF Full
  <2> QED
    BY <1>10, <1>12, <1>18, <2>1 DEF Full
<1>21. Placed(t)
  <2> SUFFICES ASSUME NEW d \in 1..n
               PROVE  /\ t[d].k = "word" => t[d].nm = WordTmp(d)
                      /\ t[d].k = "call" => t[d].nm \in {NULL, CaptureTmp(d)}
                      /\ t[d].k = "pipe" => \A e \in 1..n : e > d => t[e].k = "call"
    BY <1>10 DEF Placed
  <2>1. CASE d = n
    <3>1. \A e \in 1..n : ~(e > d)
      BY <1>3, <2>1
    <3> QED
      BY <1>9, <1>10, <2>1, <3>1
  <2>2. CASE d # n
    <3>1. d \in 1..Len(u) /\ t[d] = u[d]
      BY <1>12, <2>2
    <3>2. t[d].k # "pipe"
      BY <1>2, <3>1 DEF NoPipe
    <3> QED
      BY <1>6, <3>1, <3>2 DEF Placed
  <2> QED
    BY <2>1, <2>2
<1>22. Dest(t) = n
  <2>1. n \in 0..Len(t) /\ t[n].k \in {"pipe", "word"}
    BY <1>3, <1>9, <1>10
  <2>2. \A e \in 1..Len(t) : e > n => t[e].k = "call"
    BY <1>3, <1>10
  <2> QED
    BY <1>10, <2>1, <2>2, DestOnly
<1>23. OutOK(t, g, y)
  BY <1>9, <1>10, <1>16, <1>19, <1>22 DEF OutOK
<1>24. InOK(t, g)
  <2>1. ~NoPipe(t)
    BY <1>3, <1>9, <1>10 DEF NoPipe
  <2>2. StageIn(a, g)
    BY <1>8, <1>9, <1>17 DEF StageIn, x
  <2>3. \A e \in 1..n : t[e].k = "pipe" => t[e] = a
    BY <1>2, <1>10, <1>12 DEF NoPipe
  <2> QED
    BY <1>10, <2>1, <2>2, <2>3 DEF InOK
<1>25. Told(handover', term', view')
  <2>1. Told(handover, term, view)
    BY DInvMade
  <2>2. handover'.got = handover'.want
    BY <1>2, <1>4
  <2> QED
    BY <1>4, <2>1, <2>2 DEF Told
<1>26. Separate(t)
  <2>1. Separate(stack)
    BY DInvParts
  <2>2. \A e \in 1..n : t[e].k = stack[e].k
    BY <1>2, <1>9, <1>10 DEF c
  <2> QED
    BY <1>10, <2>1, <2>2 DEF Separate, NoPipe
<1> QED
  BY <1>4, <1>5, <1>16, <1>20, <1>21, <1>23, <1>24, <1>25, <1>26, DInvMade DEF Streams

(* A stage that cannot open its streams: the file it is to read exists and *)
(* no freopen() fails.                                                     *)
LEMMA StageOpens ==
    ASSUME Delivering, IInv, DInv
    PROVE  ~StageOpenFails
<1> SUFFICES ASSUME StageOpenFails PROVE FALSE
  OBVIOUS
<1>1. Kind(stack) = "pipe"
  BY DEF StageOpenFails
<1>2. DropInput(fs).dir[PipeTmp(TopOf(stack).i)] # 0
  BY <1>1, StageData
<1>3. "fault" \notin Syntax
  BY DEF Delivering
<1> QED
  BY <1>2, <1>3 DEF StageOpenFails

-----------------------------------------------------------------------------
(* Output that arrives *)

(* Nothing was sent, or to the terminal. *)
LEMMA NothingSent ==
    ASSUME NEW s \in Seq(Construct), Placed(s), NEW t, NEW yes, Marks(s, t, yes),
           ~yes \/ Dest(s) = 0, NEW f, Full(s, f)
    PROVE  Full(t, f)
<1> SUFFICES ASSUME NEW e \in 1..Len(s) PROVE Holds(t[e], e, f)
  BY DEF Full, Marks
<1>1. Holds(s[e], e, f) /\ NameOf(t[e]) = NameOf(s[e])
  BY MarkedPlaces DEF Full
<1>2. s[e].sent \in BOOLEAN /\ ~(yes /\ e = Dest(s))
  <2>1. s[e] \in Construct /\ e # 0
    OBVIOUS
  <2> QED
    BY <2>1 DEF Construct
<1>3. t[e].k = s[e].k /\ t[e].nm = s[e].nm /\ t[e].sent = (s[e].sent \/ (yes /\ e = Dest(s)))
  BY DEF Marks, Like
<1>4. t[e].sent = s[e].sent
  BY <1>2, <1>3
<1> QED
  BY <1>1, <1>3, <1>4 DEF Holds

(* Something was written to the file of the construct it is for. *)
LEMMA SomethingSent ==
    ASSUME NEW s \in Seq(Construct), Len(s) <= MaxDepth, Placed(s), NEW t, Marks(s, t, TRUE),
           NEW f, NEW g, NEW d, d = Dest(s), d # 0, Full(s, f),
           Others(f, g, NameOf(s[d])), g.dir[NameOf(s[d])] # 0,
           Read(g, NameOf(s[d])) = Read(f, NameOf(s[d])) \cup {d}
    PROVE  Full(t, g)
<1> DEFINE x == NameOf(s[d])
<1>1. d \in 1..Len(s) /\ s[d].k \in {"pipe", "word"}
  BY DestWhat
<1>2. Len(t) = Len(s) /\ \A e \in 1..Len(s) : /\ t[e].k = s[e].k /\ t[e].nm = s[e].nm
                                              /\ t[e].sent = (s[e].sent \/ e = d)
  BY DEF Marks, Like
<1>3. \A e \in 1..Len(s) : NameOf(t[e]) = NameOf(s[e])
  BY MarkedPlaces
<1> SUFFICES ASSUME NEW e \in 1..Len(s) PROVE Holds(t[e], e, g)
  BY <1>2 DEF Full
<1>4. Holds(s[e], e, f)
  BY DEF Full
<1>5. CASE e = d
  <2>1. t[e].sent = TRUE
    BY <1>2, <1>5
  <2>2. Read(f, x) = IF s[d].sent THEN {d} ELSE {}
    BY <1>1, <1>4, <1>5 DEF Holds
  <2>3. Read(g, x) = {d}
    BY <2>2
  <2> QED
    BY <1>1, <1>2, <1>3, <1>5, <2>1, <2>3 DEF Holds
<1>6. CASE e # d
  <2>1. NameOf(s[e]) # x
    BY <1>1, <1>6, NamesApart
  <2>2. Holds(s[e], e, g)
    <3> HIDE DEF x
    <3>1. Others(f, g, x)
      BY DEF x
    <3> QED
      BY <1>4, <2>1, <3>1, FullSame
  <2>3. s[e].sent \in BOOLEAN
    <3>1. s[e] \in Construct
      OBVIOUS
    <3> QED
      BY <3>1 DEF Construct
  <2>4. t[e].sent = s[e].sent /\ t[e].k = s[e].k /\ t[e].nm = s[e].nm
    BY <1>2, <1>6, <2>3
  <2> QED
    BY <1>3, <2>2, <2>4 DEF Holds
<1> QED
  BY <1>5, <1>6

(* wsh_capture_file is the file of the construct that output is for, where *)
(* no pipeline is in progress.                                             *)
LEMMA CaptureIsDest ==
    ASSUME NEW s \in Seq(Construct), Len(s) <= MaxDepth, Placed(s), NoPipe(s),
           NEW c, Captured(s, Len(s), c)
    PROVE  /\ c = NULL => Dest(s) = 0
           /\ c # NULL => /\ Dest(s) \in 1..Len(s) /\ s[Dest(s)].k = "word"
                          /\ c = NameOf(s[Dest(s)]) /\ c = WordTmp(Dest(s)) /\ c \in Names
<1>1. \A e \in 1..Len(s) : s[e].k # "word" => s[e].k = "call"
  BY NameOfWhat DEF NoPipe
<1>2. CASE c = NULL /\ \A e \in 1..Len(s) : s[e].k # "word"
  <2>1. \A e \in 1..Len(s) : e > 0 => s[e].k = "call"
    BY <1>1, <1>2
  <2>2. 0 \in 0..Len(s)
    OBVIOUS
  <2>3. Dest(s) = 0
    BY <2>1, <2>2, DestOnly
  <2> QED
    BY <1>2, <2>3
<1>3. ASSUME NEW e \in 1..Len(s), s[e].k = "word", s[e].nm = c,
             \A j \in (e + 1)..Len(s) : s[j].k # "word"
      PROVE  c # NULL /\ Dest(s) = e /\ c = NameOf(s[e]) /\ c = WordTmp(e) /\ c \in Names
  <2>1. \A j \in 1..Len(s) : j > e => j \in (e + 1)..Len(s)
    OBVIOUS
  <2>2. \A j \in 1..Len(s) : j > e => s[j].k = "call"
    BY <1>1, <1>3, <2>1
  <2>3. e \in 0..Len(s) /\ e \in Int /\ s[e].k \in {"pipe", "word"}
    BY <1>3
  <2>4. Dest(s) = e
    BY <2>2, <2>3, DestOnly
  <2>5. NameOf(s[e]) = WordTmp(e) /\ NameOf(s[e]) \in Names
    BY <1>3, NameOfWhat
  <2>6. NameOf(s[e]) = c
    BY <1>3 DEF NameOf
  <2> QED
    BY <2>3, <2>4, <2>5, <2>6, NullIsNoName
<1> QED
  BY <1>2, <1>3 DEF Captured

(* What a construct that ends leaves wsh_capture_file at. *)
LEMMA BelowCapture ==
    ASSUME IInv, stack # <<>>
    PROVE  /\ TopOf(stack).k = "word" => Captured(Callers, Len(Callers), TopOf(stack).pc)
           /\ TopOf(stack).k = "pipe" => Captured(Callers, Len(Callers), capture)
<1> DEFINE c == TopOf(stack)
           b == IF c.k = "word" THEN c.pc ELSE capture
           q == IF c.k \in {"pipe", "word"} THEN c.pr ELSE redirected
           u == SubSeq(stack, 1, Len(stack) - 1)
<1>1. StackOK(stack) /\ Globals(stack, redirected, capture)
  BY IInvParts
<1>2. /\ IF c.k \in {"pipe", "word"} THEN q = c.pr ELSE q = redirected
      /\ IF c.k = "word" THEN b = c.pc ELSE b = capture
  OBVIOUS
<1> HIDE DEF b, q
<1>3. Globals(u, q, b)
  BY <1>1, <1>2, PopConstruct
<1>4. Captured(u, Len(u), b) /\ u = Callers
  BY <1>3 DEF Globals, Callers
<1> QED
  BY <1>4 DEF b

(* A command substitution ends. *)
LEMMA WordEndDelivers ==
    ASSUME Delivering, IInv, DInv, WordEnd
    PROVE  DInv'
<1> DEFINE n == Len(stack)
           u == Callers
           c == TopOf(stack)
           x == c.nm
           y == c.pc
           f1 == ReopenOuter(fs, y, TRUE)
           g == Unlink(f1, x)
           d == Dest(u)
<1>1. stack # <<>> /\ c \in Construct /\ c.k = "word" /\ x \in Names
  BY TopConstruct DEF WordEnd
<1>2. /\ handover' = [want |-> Wants(stack), got |-> Read(f1, x)]
      /\ fs' = g /\ stack' = u
      /\ UNCHANGED <<stdout_file, term, view>>
  <2>1. Opens = {TRUE}
    BY DEF Opens, Delivering
  <2> QED
    BY <2>1 DEF WordEnd
<1>3. /\ Popped(stack, u) /\ Placed(u) /\ Separate(u) /\ Full(u, fs) /\ Holds(c, n, fs) /\ Good(fs)
      /\ Captured(u, Len(u), y) /\ InOK(stack, fs)
  BY <1>1, Below, BelowCapture, DInvParts
<1>4. NameOf(c) = x /\ Read(fs, x) = Wants(stack)
  BY <1>1, <1>3 DEF Holds, NameOf, Wants
<1> HIDE DEF u, c
<1>5. /\ u \in Seq(Construct) /\ Len(u) <= MaxDepth /\ NoPipe(u) /\ Apart(u, x)
      /\ NoPipe(stack)
  <2>1. /\ u \in Seq(Construct) /\ Len(u) = n - 1 /\ Len(u) < MaxDepth /\ NoPipe(u) /\ Apart(u, x)
        /\ \A e \in 1..Len(u) : u[e] = stack[e]
        /\ c = stack[n] /\ n \in 1..n
    BY <1>1, <1>3, <1>4 DEF Popped, c
  <2>2. NoPipe(stack)
    <3> SUFFICES ASSUME NEW e \in 1..n PROVE stack[e].k # "pipe"
      BY DEF NoPipe
    <3>1. e = n \/ e \in 1..Len(u)
      BY <2>1
    <3> QED
      BY <1>1, <2>1, <3>1 DEF NoPipe
  <2> QED
    BY <2>1, <2>2, BoundsAssumption
<1>6. /\ y = NULL => d = 0
      /\ y # NULL => /\ d \in 1..Len(u) /\ u[d].k = "word"
                     /\ y = NameOf(u[d]) /\ y \in Names
  BY <1>3, <1>5, CaptureIsDest
<1>7. Good(f1) /\ SameFiles(fs, f1) /\ f1.in = fs.in /\ (y # NULL => f1.out = f1.dir[y])
  <2>1. CASE y = NULL
    BY <1>3, <2>1 DEF ReopenOuter, SameFiles
  <2>2. CASE y # NULL
    <3>1. f1 = ReopenOut(fs, y, FALSE) /\ y \in Names
      BY <1>6, <2>2 DEF ReopenOuter
    <3>2. Holds(u[d], d, fs) /\ u[d].k = "word" /\ y = NameOf(u[d])
      BY <1>3, <1>6, <2>2 DEF Full
    <3>3. fs.dir[y] # 0
      BY <3>2 DEF Holds
    <3> HIDE DEF y, f1
    <3>4. /\ Good(f1) /\ Others(fs, f1, y) /\ f1.out = f1.dir[y] /\ f1.in = fs.in
          /\ f1.dir[y] = fs.dir[y] /\ Read(f1, y) = Read(fs, y)
      <4>1. FALSE \in BOOLEAN
        OBVIOUS
      <4> QED
        BY <1>3, <3>1, <3>3, <4>1, ReopenOutData
    <3> QED
      BY <3>4 DEF Others, SameFiles
  <2> QED
    BY <2>1, <2>2
<1> HIDE DEF f1, x, y
<1>8. Good(g) /\ Others(f1, g, x) /\ g.out = f1.out /\ g.in = f1.in
  BY <1>1, <1>7, UnlinkData
<1> HIDE DEF g
<1>9. Others(fs, g, x)
  BY <1>7, <1>8 DEF Others, SameFiles
<1>10. Full(u, g)
  BY <1>3, <1>5, <1>9, FullOthers
<1>11. OutOK(u, g, stdout_file)
  <2> SUFFICES ASSUME d # 0
               PROVE  g.out = g.dir[NameOf(u[d])] /\ u[d].k # "pipe"
    BY DEF OutOK
  <2>1. y # NULL /\ y = NameOf(u[d]) /\ u[d].k = "word" /\ d \in 1..Len(u) /\ y \in Names
    BY <1>6
  <2>2. y # x
    BY <1>5, <2>1 DEF Apart
  <2> QED
    BY <1>7, <1>8, <2>1, <2>2 DEF Others
<1>12. InOK(u, g)
  BY <1>3, <1>5, <1>7, <1>8 DEF InOK, NoPipe
<1>13. Told(handover', term', view')
  <2>1. Told(handover, term, view)
    BY DInvMade
  <2>2. Read(f1, x) = Wants(stack)
    BY <1>1, <1>4, <1>7 DEF SameFiles
  <2>3. handover'.got = handover'.want
    BY <1>2, <2>2
  <2> QED
    BY <1>2, <2>1, <2>3 DEF Told
<1> QED
  BY <1>2, <1>3, <1>8, <1>10, <1>11, <1>12, <1>13, DInvMade DEF Streams

(* A pipeline ends: its output is appended to the capture file or copied   *)
(* to the terminal.                                                        *)
LEMMA PipelineEndDelivers ==
    ASSUME Delivering, IInv, DInv, PipelineEnd
    PROVE  DInv'
<1> DEFINE n == Len(stack)
           u == Callers
           c == TopOf(stack)
           y == capture
           d == Dest(u)
           x == PipeTmp(c.i)
           f1 == DropInput(fs)
           output == Read(f1, x)
           f2 == Unlink(f1, x)
           tags == IF output = {} THEN {} ELSE {d}
           h == Create(f2, y, FALSE)
           f3 == IF y # NULL /\ output # {} THEN Write(h, h.dir[y], tags) ELSE f2
           g == Gc([f3 EXCEPT !.in = 0])
           yes == output # {}
           t == stack'
<1>1. Kind(stack) = "pipe"
  BY DEF PipelineEnd
<1>2. /\ stack # <<>> /\ c \in Construct /\ c.k = "pipe" /\ c.i \in 0..(MaxStages - 1)
      /\ Good(f1) /\ output = Wants(stack)
      /\ Full(u, f1) /\ NoPipe(u) /\ \A j \in Int : Apart(u, PipeTmp(j))
  BY <1>1, StageData
<1>3. /\ fs' = g
      /\ term' = IF y = NULL THEN term \cup tags ELSE term
      /\ handover' = [want |-> Wants(stack), got |-> output]
      /\ t = Counted(Sent(u, yes))
      /\ view' = view
  BY DEF PipelineEnd, RestoreGlobals
<1>4. /\ Popped(stack, u) /\ Placed(u) /\ Separate(u) /\ Ready(u) /\ Captured(u, Len(u), y)
      /\ Placed(stack) /\ Separate(stack)
  BY <1>2, Below, BelowCapture, DInvParts
<1> HIDE DEF u
<1>5. u \in Seq(Construct) /\ Len(u) <= MaxDepth /\ c = stack[n] /\ n \in 1..n
  BY <1>2, <1>4, BoundsAssumption DEF Popped
<1>7. x \in Names /\ Apart(u, x)
  BY <1>2, NamesHas, BoundsAssumption
<1> HIDE DEF c, f1
<1>8. /\ y = NULL => d = 0
      /\ y # NULL => /\ d \in 1..Len(u) /\ u[d].k = "word"
                     /\ y = NameOf(u[d]) /\ y \in Names
  BY <1>2, <1>4, <1>5, CaptureIsDest
<1> HIDE DEF x
<1>9. Good(f2) /\ Full(u, f2)
  <2>1. Good(f2) /\ Others(f1, f2, x)
    BY <1>2, <1>7, UnlinkData
  <2> HIDE DEF f2
  <2> QED
    BY <1>2, <1>4, <1>5, <1>7, <2>1, FullOthers
<1> HIDE DEF f2, output
<1>10. d \in Tags /\ d \in 0..Len(u)
  <2>1. d \in 0..Len(u) /\ Len(u) \in Nat /\ MaxDepth \in Nat
    BY <1>5, DestWhat, BoundsAssumption
  <2> HIDE DEF d
  <2> QED
    BY <1>5, <2>1 DEF Tags, UserTag
<1>11. Marks(u, t, yes)
  <2>1. yes \in BOOLEAN
    BY Zenon
  <2> HIDE DEF yes
  <2> QED
    BY <1>3, <1>4, <1>5, <2>1, MarksWhat
<1> HIDE DEF t
<1>12. Good(f3) /\ Full(t, f3)
  <2>1. CASE y # NULL /\ output # {}
    <3>1. Holds(u[d], d, f2) /\ u[d].k = "word" /\ y = NameOf(u[d]) /\ y \in Names /\ d # 0
      BY <1>8, <1>9, <2>1 DEF Full
    <3>2. f2.dir[y] # 0
      BY <3>1 DEF Holds
    <3> HIDE DEF y, d
    <3>3. /\ Good(h) /\ Others(f2, h, y) /\ h.dir[y] = f2.dir[y] /\ Read(h, y) = Read(f2, y)
      <4>1. FALSE \in BOOLEAN
        OBVIOUS
      <4> QED
        BY <1>9, <3>1, <3>2, <4>1, CreateData
    <3>4. f3 = Write(h, h.dir[y], {d}) /\ {d} \in SUBSET Tags
      BY <1>10, <2>1
    <3> HIDE DEF h, f3
    <3>5. /\ Good(f3) /\ Others(h, f3, y) /\ f3.dir[y] = h.dir[y]
          /\ Read(f3, y) = Read(h, y) \cup {d}
      <4> DEFINE w == {d}
                 k == Write(h, h.dir[y], w)
      <4>1. w \in SUBSET Tags /\ h.dir[y] # 0 /\ f3 = k
        BY <3>2, <3>3, <3>4
      <4> HIDE DEF w
      <4>2. Good(k) /\ Others(h, k, y) /\ k.dir[y] = h.dir[y] /\ Read(k, y) = Read(h, y) \cup w
        <5>1. Good(h) /\ y \in Names /\ h.dir[y] # 0 /\ w \in SUBSET Tags
          BY <3>1, <3>3, <4>1
        <5> QED
          BY <5>1, WriteData, ZenonT(40)
      <4> QED
        BY <4>1, <4>2 DEF w
    <3>6. Others(f2, f3, y) /\ f3.dir[y] # 0 /\ Read(f3, y) = Read(f2, y) \cup {d}
      BY <3>2, <3>3, <3>5 DEF Others
    <3>7. Marks(u, t, TRUE)
      <4>1. yes = TRUE
        BY <2>1
      <4> QED
        BY <1>11, <4>1
    <3>8. d = Dest(u)
      BY DEF d
    <3>9. /\ Others(f2, f3, NameOf(u[d])) /\ f3.dir[NameOf(u[d])] # 0
          /\ Read(f3, NameOf(u[d])) = Read(f2, NameOf(u[d])) \cup {d}
      BY <3>1, <3>6
    <3>10. Full(t, f3)
      BY <1>4, <1>5, <1>9, <3>1, <3>7, <3>8, <3>9, SomethingSent
    <3> QED
      BY <3>5, <3>10
  <2>2. CASE ~(y # NULL /\ output # {})
    <3>1. f3 = f2 /\ (~yes \/ d = 0)
      BY <1>8, <2>2
    <3> HIDE DEF f3, yes
    <3>2. Full(t, f2)
      BY <1>4, <1>5, <1>9, <1>11, <3>1, NothingSent
    <3> QED
      BY <1>9, <3>1, <3>2
  <2> QED
    BY <2>1, <2>2
<1> HIDE DEF f3, yes
<1>13. Good(g) /\ SameFiles(f3, g) /\ g.in = 0
  <2> DEFINE i == 0
  <2>1. i \in Inodes \cup {0}
    OBVIOUS
  <2> QED
    BY <1>12, <2>1, ReopenInData
<1> HIDE DEF g
<1>14. Settled => OutOK(u, g, stdout_file')
  <2> SUFFICES ASSUME Settled PROVE d = 0
    BY DEF OutOK
  <2>1. ~NoPipe(stack)
    BY <1>2, <1>5 DEF NoPipe
  <2>2. \A e \in 1..n : stack[e].k # "word"
    BY <1>4, <2>1 DEF Separate
  <2>3. \A e \in 1..Len(u) : u[e].k # "word"
    BY <1>4, <2>2 DEF Popped
  <2> QED
    BY <1>8, <2>3
<1>15. /\ Placed(t) /\ Separate(t) /\ OutOK(t, g, stdout_file')
       /\ (InOK(u, g) => InOK(t, g))
  BY <1>4, <1>5, <1>11, <1>14, MarkedPlaces
<1>16. Full(t, g)
  <2>1. Others(f3, g, UserFile) /\ t \in Seq(Construct) /\ Len(t) = Len(u)
    BY <1>11, <1>13 DEF Others, SameFiles, Marks
  <2>2. Apart(t, UserFile)
    BY <1>5, <1>15, <2>1, NameOfWhat DEF Apart
  <2> QED
    BY <1>5, <1>12, <1>15, <2>1, <2>2, FullOthers
<1>17. InOK(u, g)
  BY <1>2, <1>13 DEF InOK, NoPipe
<1>18. Told(handover', term', view')
  <2>1. Told(handover, term, view)
    BY DInvMade
  <2>2. handover'.got = handover'.want
    BY <1>2, <1>3
  <2>3. term' \subseteq {0}
    BY <1>3, <1>8, <2>1 DEF Told
  <2> QED
    BY <1>3, <2>1, <2>2, <2>3 DEF Told
<1> QED
  BY <1>3, <1>13, <1>15, <1>16, <1>17, <1>18, DInvMade DEF Streams, t

-----------------------------------------------------------------------------
(* A simple command *)

(* A command of a later stage finds stdin on the file of the one before. *)
LEMMA CommandInput ==
    ASSUME Delivering, IInv, DInv
    PROVE  ReadsStage
<1> DEFINE d == Dest(stack)
<1>1. /\ stack \in Seq(Construct) /\ Len(stack) <= MaxDepth /\ InOK(stack, fs)
  BY DInvParts, IInvParts
<1>2. d # 0 => d \in 1..Len(stack)
  BY <1>1, DestWhat
<1> HIDE DEF d
<1> SUFFICES ASSUME d # 0, stack[d].k # "word", stack[d].i # 0
             PROVE  fs.in # 0 /\ fs.in = fs.dir[PipeTmp(stack[d].i - 1)]
  BY DEF ReadsStage, d
<1>3. stack[d].k = "pipe"
  BY <1>1, DestWhat DEF d
<1>4. StageIn(stack[d], fs)
  BY <1>1, <1>2, <1>3 DEF InOK
<1> QED
  BY <1>4 DEF StageIn

(* The input of a stage does not depend on the other files. *)
LEMMA InputKept ==
    ASSUME Delivering, IInv, DInv, NEW g, g.in = fs.in,
           \A i \in 0..(MaxStages - 1) : g.dir[PipeTmp(i)] = fs.dir[PipeTmp(i)]
    PROVE  InOK(stack, g)
<1>1. /\ stack \in Seq(Construct) /\ Len(stack) <= MaxDepth /\ Placed(stack)
      /\ InOK(stack, fs)
  BY DInvParts, IInvParts
<1>2. ASSUME NEW e \in 1..Len(stack), stack[e].k = "pipe" PROVE StageIn(stack[e], g)
  <2>1. StageIn(stack[e], fs)
    BY <1>1, <1>2 DEF InOK
  <2>2. stack[e].i \in 0..(MaxStages - 1)
    BY <1>1, <1>2, NameOfWhat
  <2>3. stack[e].i # 0 => stack[e].i - 1 \in 0..(MaxStages - 1)
    BY <2>2, BoundsAssumption
  <2> QED
    BY <2>1, <2>3 DEF StageIn
<1> QED
  BY <1>1, <1>2 DEF InOK

(* A simple command writes to the construct that its output is for, to the *)
(* file it is redirected to or, when no construct waits, to the terminal.  *)
LEMMA SimpleDelivers ==
    ASSUME Delivering, IInv, DInv, RunSimpleCommand
    PROVE  DInv'
<1>1. PICK kind \in {"applet", "builtin", "guest"} \cap Syntax,
           redir \in {"none"} \cup ({"out", "in"} \cap Syntax),
           says \in BOOLEAN, opens \in Opens :
           /\ kind = "guest" => Within("guest")
           /\ SimpleCommand(kind, redir, says, opens)
  BY DEF RunSimpleCommand
<1>2. opens = TRUE /\ redir \in {"none", "out"} /\ MayRun
  BY DEF Delivering, Opens, RunSimpleCommand
<1> DEFINE n == Len(stack)
           d == Dest(stack)
           cap == CaptureTmp(Depth + 1)
           f1 == IF redirected THEN fs ELSE ReopenOut(fs, cap, TRUE)
           so1 == IF redirected THEN stdout_file ELSE cap
           f2 == IF redir = "out" THEN ReopenOut(f1, UserFile, TRUE) ELSE f1
           so2 == IF kind # "builtin" /\ redir = "out" THEN UserFile ELSE so1
           inode(p) == IF p \in Names THEN f2.dir[p] ELSE 0
           target == IF kind = "guest" THEN inode(so2) ELSE f2.out
           tag == IF redir = "out" THEN UserTag ELSE d
           w == IF says THEN {tag} ELSE {}
           f3 == Write(f2, target, w)
           gone(p) == IF p \in {cap, UserFile} THEN Dangling ELSE p
           yes == says /\ redir # "out"
           t == stack'
           z == IF redirected THEN NameOf(stack[d]) ELSE cap
           x == IF redir = "out" THEN UserFile ELSE z
<1>3. /\ t = Sent(Counted(stack), yes)
      /\ view'.out = (kind = "guest" => inode(so2) = f2.out)
      /\ view'.stage = ReadsStage
      /\ fs' = IF redirected THEN f3 ELSE Unlink(f3, cap)
      /\ term' = IF redirected THEN term ELSE term \cup Read(f3, cap)
      /\ handover' = IF ~redirected /\ redir # "out"
                     THEN [want |-> IF says THEN {0} ELSE {}, got |-> Read(f3, cap)]
                     ELSE handover
      /\ stdout_file' = gone(so2)
  <2> DEFINE need == ~redirected /\ opens
             g1 == IF redirected THEN fs
                   ELSE IF opens THEN ReopenOut(fs, cap, TRUE) ELSE CloseOut(fs)
             p1 == IF need THEN cap ELSE stdout_file
             g2 == CASE redir = "out" -> ReopenOut(g1, UserFile, TRUE)
                     [] redir = "in" -> ReopenIn(g1, UserFile)
                     [] OTHER -> g1
             p2 == IF kind # "builtin" /\ redir = "out" THEN UserFile ELSE p1
             node(p) == IF p \in Names THEN g2.dir[p] ELSE 0
             to == IF kind = "guest" THEN node(p2) ELSE g2.out
             g3 == Write(g2, to, IF says THEN {IF redir = "out" THEN UserTag ELSE Dest(stack)} ELSE {})
  <2>1. /\ stack' = Sent(Counted(stack), says /\ redir # "out")
        /\ view' = [out |-> kind = "guest" => node(p2) = g2.out,
                    stage |-> redir = "in" \/ ReadsStage]
        /\ fs' = IF need THEN Unlink(g3, cap) ELSE g3
        /\ term' = IF need THEN term \cup Read(g3, cap) ELSE term
        /\ handover' = IF ~redirected /\ redir # "out"
                       THEN [want |-> IF says THEN {0} ELSE {},
                             got |-> IF need THEN Read(g3, cap) ELSE {}]
                       ELSE handover
        /\ stdout_file' = gone(p2)
    BY <1>1, Zenon DEF SimpleCommand
  <2>2. (need <=> ~redirected) /\ g1 = f1 /\ redir # "in"
    BY <1>2
  <2> HIDE DEF need, g1, f1, cap
  <2>3. p1 = so1
    BY <2>2
  <2>4. g2 = f2
    BY <1>2, <2>2
  <2> HIDE DEF p1, so1, g2, f2
  <2>5. p2 = so2
    BY <2>3
  <2> HIDE DEF p2, so2
  <2>6. g3 = f3 /\ node(p2) = inode(so2)
    BY <2>3, <2>4, <2>5
  <2> HIDE DEF g3, f3
  <2>7. /\ fs' = IF redirected THEN f3 ELSE Unlink(f3, cap)
        /\ term' = IF redirected THEN term ELSE term \cup Read(f3, cap)
        /\ handover' = IF ~redirected /\ redir # "out"
                       THEN [want |-> IF says THEN {0} ELSE {}, got |-> Read(f3, cap)]
                       ELSE handover
        /\ stdout_file' = gone(so2)
    BY <2>1, <2>2, <2>3, <2>5, <2>6
  <2>8. /\ view'.out = (kind = "guest" => inode(so2) = f2.out)
        /\ view'.stage = (redir = "in" \/ ReadsStage)
    BY <2>1, <2>3, <2>4, <2>6
  <2>9. view'.stage = ReadsStage
    <3>1. ReadsStage \in BOOLEAN
      BY Zenon DEF ReadsStage
    <3> QED
      BY <2>2, <2>8, <3>1
  <2> QED
    BY <2>1, <2>7, <2>8, <2>9
<1>4. /\ stack \in Seq(Construct) /\ Len(stack) <= MaxDepth /\ Placed(stack) /\ Separate(stack)
      /\ Good(fs) /\ Full(stack, fs) /\ OutOK(stack, fs, stdout_file) /\ n \in Nat
  BY DInvParts, IInvParts
<1>5. /\ redirected <=> d # 0
      /\ Ready(stack) /\ (stack # <<>> => Settled \/ TopOf(stack).cmds = 0)
  BY <1>2, Waiting
<1>6. d \in 0..n /\ (d # 0 => d \in 1..n /\ stack[d].k \in {"pipe", "word"})
  BY <1>4, DestWhat
<1>7. /\ cap \in Names /\ UserFile \in Names /\ cap # UserFile
      /\ Apart(stack, cap) /\ Apart(stack, UserFile)
      /\ \A i \in 0..(MaxStages - 1) : PipeTmp(i) \in Names \ {cap, UserFile}
  <2>1. Depth = n /\ n + 1 \in 1..(MaxDepth + 1) /\ n + 1 \in Int
    BY <1>4, BoundsAssumption DEF Depth
  <2>2. Apart(stack, cap) /\ Apart(stack, UserFile)
    BY <1>4, <2>1, NameOfWhat DEF Apart
  <2>3. \A i \in 0..(MaxStages - 1) : i \in Int
    BY BoundsAssumption
  <2> QED
    BY <2>1, <2>2, <2>3, NamesHas, NamesDiffer
<1> HIDE DEF cap
<1>8. /\ Good(f1) /\ f1.in = fs.in /\ Others(fs, f1, cap)
      /\ z \in Names /\ z # UserFile /\ f1.out = f1.dir[z] /\ f1.dir[z] # 0
      /\ kind = "guest" => so1 = z
      /\ ~redirected => Read(f1, cap) = {}
      /\ \A i \in 0..(MaxStages - 1) : f1.dir[PipeTmp(i)] = fs.dir[PipeTmp(i)]
  <2>1. CASE redirected
    <3>1. d \in 1..n /\ stack[d].k \in {"pipe", "word"} /\ stack # <<>> /\ f1 = fs /\ so1 = stdout_file
      BY <1>4, <1>5, <1>6, <2>1
    <3>2. z = NameOf(stack[d])
      BY <2>1
    <3> HIDE DEF z, d
    <3>3. z \in Names /\ z # UserFile
      BY <1>4, <3>1, <3>2, NameOfWhat
    <3>4. fs.out = fs.dir[z] /\ (stack[d].k = "pipe" => stdout_file = z)
      BY <1>4, <1>5, <1>6, <2>1, <3>1, <3>2 DEF OutOK, d
    <3>5. fs.dir[z] # 0
      BY <1>4, <3>1, <3>2 DEF Full, Holds
    <3>6. kind = "guest" => stack[d].k = "pipe"
      BY <1>1, <3>1, NotNested
    <3>7. Others(fs, f1, cap)
      BY <3>1 DEF Others
    <3> QED
      BY <1>4, <2>1, <3>1, <3>3, <3>4, <3>5, <3>6, <3>7
  <2>2. CASE ~redirected
    <3>1. f1 = ReopenOut(fs, cap, TRUE) /\ so1 = cap /\ z = cap
      BY <2>2
    <3> HIDE DEF f1, so1, z
    <3>2. /\ Good(f1) /\ Others(fs, f1, cap) /\ f1.out = f1.dir[cap] /\ f1.in = fs.in
          /\ f1.dir[cap] \in Inodes /\ Read(f1, cap) = {}
      <4>1. TRUE \in BOOLEAN
        OBVIOUS
      <4> QED
        BY <1>4, <1>7, <3>1, <4>1, ReopenOutData
    <3>3. 0 \notin Inodes
      BY DEF Inodes
    <3> QED
      BY <1>7, <3>1, <3>2, <3>3 DEF Others
  <2> QED
    BY <2>1, <2>2
<1> HIDE DEF f1, so1, z
<1>9. /\ Good(f2) /\ f2.in = fs.in /\ Others(f1, f2, UserFile)
      /\ x \in Names /\ f2.out = f2.dir[x] /\ f2.dir[x] # 0
      /\ kind = "guest" => so2 = x
      /\ redir # "out" => f2 = f1
  <2>1. CASE redir = "out"
    <3>1. f2 = ReopenOut(f1, UserFile, TRUE) /\ x = UserFile /\ (kind = "guest" => so2 = UserFile)
      BY <2>1
    <3> HIDE DEF f2, x, so2
    <3>2. /\ Good(f2) /\ Others(f1, f2, UserFile) /\ f2.out = f2.dir[UserFile] /\ f2.in = f1.in
          /\ f2.dir[UserFile] \in Inodes
      <4>1. TRUE \in BOOLEAN
        OBVIOUS
      <4> QED
        BY <1>7, <1>8, <3>1, <4>1, ReopenOutData
    <3>3. 0 \notin Inodes
      BY DEF Inodes
    <3> QED
      BY <1>7, <1>8, <2>1, <3>1, <3>2, <3>3
  <2>2. CASE redir # "out"
    <3>1. f2 = f1 /\ x = z /\ so2 = so1
      BY <2>2
    <3> HIDE DEF f2, x, so2
    <3> QED
      BY <1>8, <3>1 DEF Others
  <2> QED
    BY <2>1, <2>2
<1>10. x = UserFile \/ (redir # "out" /\ x = z)
  OBVIOUS
<1>11. w \in SUBSET Tags
  <2>1. StackOK(stack)
    BY IInvParts
  <2> QED
    BY <2>1, TagsHas
<1> HIDE DEF f2, so2, x, w
<1>12. target = f2.dir[x]
  BY <1>9
<1> HIDE DEF target
<1>13. /\ Good(f3) /\ Others(f2, f3, x) /\ f3.in = f2.in /\ f3.out = f2.out /\ f3.dir[x] = f2.dir[x]
       /\ Read(f3, x) = Read(f2, x) \cup w
  <2> DEFINE k == Write(f2, f2.dir[x], w)
  <2>1. f3 = k
    BY <1>12
  <2>2. /\ Good(k) /\ Others(f2, k, x) /\ k.in = f2.in /\ k.out = f2.out /\ k.dir[x] = f2.dir[x]
        /\ Read(k, x) = Read(f2, x) \cup w
    BY <1>9, <1>11, WriteData, ZenonT(40)
  <2> QED
    BY <2>1, <2>2
<1> HIDE DEF f3
<1>14. \A i \in 0..(MaxStages - 1) : f2.dir[PipeTmp(i)] = fs.dir[PipeTmp(i)]
  BY <1>7, <1>8, <1>9 DEF Others
<1>15. \A i \in 0..(MaxStages - 1) : f3.dir[PipeTmp(i)] = fs.dir[PipeTmp(i)]
  BY <1>7, <1>13, <1>14 DEF Others
<1>16. Marks(stack, t, yes)
  <2>1. yes \in BOOLEAN
    BY Zenon
  <2> HIDE DEF yes
  <2> QED
    BY <1>3, <1>4, <1>5, <2>1, MarksWhat
<1>18. view'.out /\ view'.stage
  <2>1. ReadsStage
    BY CommandInput
  <2>2. kind = "guest" => inode(so2) = f2.out
    BY <1>9
  <2> QED
    BY <1>3, <2>1, <2>2
<1> HIDE DEF t, d
<1>19. CASE redirected
  <2>1. f1 = fs /\ fs' = f3 /\ z = NameOf(stack[d]) /\ term' = term /\ handover' = handover
    BY <1>3, <1>19 DEF f1, z
  <2>2. Full(t, f3)
    <3>1. CASE yes
      <4>1. f2 = fs /\ x = z /\ w = {d}
        BY <1>9, <2>1, <3>1 DEF x, w
      <4>2. d = Dest(stack) /\ d # 0
        BY <1>5, <1>19 DEF d
      <4>3. Marks(stack, t, TRUE)
        <5>1. yes = TRUE
          BY <3>1
        <5> QED
          BY <1>16, <5>1
      <4>4. /\ Others(fs, f3, NameOf(stack[d])) /\ f3.dir[NameOf(stack[d])] # 0
            /\ Read(f3, NameOf(stack[d])) = Read(fs, NameOf(stack[d])) \cup {d}
        BY <1>9, <1>13, <2>1, <4>1
      <4> QED
        BY <1>4, <4>2, <4>3, <4>4, SomethingSent
    <3>2. CASE ~yes
      <4>1. Others(fs, f3, UserFile)
        <5>1. CASE x = UserFile
          BY <1>9, <1>13, <2>1, <5>1 DEF Others
        <5>2. CASE x # UserFile
          <6>1. redir # "out"
            BY <1>10, <5>2
          <6>2. f2 = fs /\ w = {}
            BY <1>9, <2>1, <3>2, <6>1 DEF w
          <6> QED
            BY <1>9, <1>13, <6>2 DEF Others
        <5> QED
          BY <5>1, <5>2
      <4>2. Full(stack, f3)
        BY <1>4, <1>7, <4>1, FullOthers
      <4> QED
        BY <1>4, <1>16, <3>2, <4>2, NothingSent
    <3> QED
      BY <3>1, <3>2
  <2>3. InOK(stack, f3)
    <3>1. f3.in = fs.in
      BY <1>9, <1>13
    <3> QED
      BY <1>15, <3>1, InputKept
  <2>4. Settled => OutOK(stack, f3, stdout_file')
    <3> SUFFICES ASSUME Settled, stack # <<>>, d # 0
                 PROVE  /\ f3.out = f3.dir[NameOf(stack[d])]
                        /\ stack[d].k = "pipe" => stdout_file' = NameOf(stack[d])
      BY DEF OutOK, d
    <3>1. redir = "none" /\ "out" \notin Syntax
      BY <1>2 DEF Settled
    <3>2. f2 = fs /\ x = z /\ so2 = stdout_file
      BY <1>9, <1>19, <2>1, <3>1 DEF x, so2, so1
    <3>3. stack[d].k = "pipe" => stdout_file = z
      BY <1>4, <2>1 DEF OutOK, d
    <3>4. z \notin {cap, UserFile}
      BY <1>6, <1>7, <1>8, <2>1 DEF Apart, d
    <3>5. stack[d].k = "pipe" => stdout_file' = z
      BY <1>3, <3>2, <3>3, <3>4
    <3> QED
      BY <1>9, <1>13, <2>1, <3>2, <3>5
  <2>5. Placed(t) /\ Separate(t) /\ InOK(t, f3) /\ OutOK(t, f3, stdout_file')
    BY <1>4, <1>16, <2>3, <2>4, MarkedPlaces
  <2>6. Told(handover', term', view')
    BY <1>18, <2>1, DInvMade DEF Told
  <2> QED
    BY <1>13, <2>1, <2>2, <2>5, <2>6, DInvMade DEF Streams, t
<1>20. CASE ~redirected
  <2> DEFINE g == Unlink(f3, cap)
  <2>1. fs' = g /\ d = 0 /\ z = cap /\ term' = term \cup Read(f3, cap)
    BY <1>3, <1>5, <1>20 DEF z
  <2>2. Good(g) /\ Others(f3, g, cap) /\ g.in = f3.in
    BY <1>7, <1>13, UnlinkData
  <2> HIDE DEF g
  <2>3. Full(stack, g)
    <3>1. Full(stack, f1)
      BY <1>4, <1>7, <1>8, FullOthers
    <3>2. Full(stack, f2)
      BY <1>4, <1>7, <1>9, <3>1, FullOthers
    <3>3. Apart(stack, x)
      BY <1>7, <1>10, <2>1
    <3>4. Full(stack, f3)
      BY <1>4, <1>13, <3>2, <3>3, FullOthers
    <3> QED
      BY <1>4, <1>7, <2>2, <3>4, FullOthers
  <2>4. Full(t, g)
    BY <1>4, <1>16, <2>1, <2>3, NothingSent DEF d
  <2>5. InOK(stack, g)
    <3>1. g.in = fs.in
      BY <1>9, <1>13, <2>2
    <3>2. \A i \in 0..(MaxStages - 1) : g.dir[PipeTmp(i)] = fs.dir[PipeTmp(i)]
      BY <1>7, <1>15, <2>2 DEF Others
    <3> QED
      BY <3>1, <3>2, InputKept
  <2>6. OutOK(stack, g, stdout_file')
    BY <2>1 DEF OutOK, d
  <2>7. Placed(t) /\ Separate(t) /\ InOK(t, g) /\ OutOK(t, g, stdout_file')
    BY <1>4, <1>16, <2>5, <2>6, MarkedPlaces
  <2>8. Read(f3, cap) = IF redir = "out" THEN {} ELSE IF says THEN {0} ELSE {}
    <3>1. CASE redir = "out"
      <4>1. x = UserFile
        BY <3>1 DEF x
      <4> QED
        BY <1>7, <1>8, <1>9, <1>13, <1>20, <3>1, <4>1 DEF Others
    <3>2. CASE redir # "out"
      <4>1. x = cap /\ f2 = f1 /\ w = IF says THEN {0} ELSE {}
        BY <1>9, <2>1, <3>2 DEF x, w
      <4> QED
        BY <1>8, <1>13, <1>20, <3>2, <4>1
    <3> QED
      BY <3>1, <3>2
  <2>9. Told(handover', term', view')
    <3>1. Told(handover, term, view)
      BY DInvMade
    <3>2. term' \subseteq {0}
      BY <2>1, <2>8, <3>1 DEF Told
    <3>3. handover'.got = handover'.want
      BY <1>3, <2>8, <3>1 DEF Told
    <3> QED
      BY <1>18, <3>2, <3>3 DEF Told
  <2> QED
    BY <2>1, <2>2, <2>4, <2>7, <2>9, DInvMade DEF Streams, t
<1> QED
  BY <1>19, <1>20

-----------------------------------------------------------------------------
(* Theorems *)

(* Every step. *)
LEMMA DeliveryStep ==
    ASSUME Delivering
    PROVE  IInv /\ DInv /\ [Next]_vars => DInv'
<1> SUFFICES ASSUME IInv, DInv, [Next]_vars PROVE DInv'
  OBVIOUS
<1>1. CASE UNCHANGED vars
  <2>1. /\ stack' = stack /\ fs' = fs /\ stdout_file' = stdout_file
        /\ handover' = handover /\ term' = term /\ view' = view
    BY <1>1 DEF vars
  <2> QED
    BY <2>1, DInvMade
<1>2. ~PipelineStartFails /\ ~WordStartFails
  BY DEF Delivering, PipelineStartFails, WordStartFails
<1> QED
  BY <1>1, <1>2, SimpleDelivers, CallDelivers, ReturnDelivers, PipelineStartDelivers,
     NextStageDelivers, StageOpens, PipelineEndDelivers, WordStartDelivers, WordEndDelivers
     DEF Next

(* The invariant of the files and the streams. *)
LEMMA DeliveryInvariant ==
    ASSUME Delivering
    PROVE  Spec => []DInv
<1>1. IInv /\ DInv /\ [Next]_vars => DInv'
  BY DeliveryStep
<1> QED
  BY <1>1, DeliveryInit, StdioInvariant, PTL DEF Spec

(* Every reader gets what was written for it and nothing else, through any *)
(* depth of substitutions and function calls and any number of stages:     *)
(* run_pipeline hands each stage the file of the one before and            *)
(* run_word_command gives stdout back to the substitution around it.       *)
THEOREM OutputAlwaysDelivered ==
    ASSUME Delivering
    PROVE  Spec => []OutputDelivered
<1>1. DInv => OutputDelivered
  BY DEF DInv
<1> QED
  BY <1>1, DeliveryInvariant, PTL

(* Nothing that a pipeline stage or a command substitution waits for is    *)
(* copied to the terminal.                                                 *)
THEOREM TerminalGetsTheRest ==
    ASSUME Delivering
    PROVE  Spec => []TerminalOnly
<1>1. DInv => TerminalOnly
  BY DEF DInv
<1> QED
  BY <1>1, DeliveryInvariant, PTL

(* Every command in a later stage finds stdin open on the file that the    *)
(* stage before wrote.                                                     *)
THEOREM StagesReadInput ==
    ASSUME Delivering
    PROVE  Spec => []StageInput
<1>1. DInv => StageInput
  BY DEF DInv
<1> QED
  BY <1>1, DeliveryInvariant, PTL

(* wsh_stdout_file, which tells a component guest its output, names the    *)
(* file that stdout is open on.                                            *)
THEOREM GuestsWriteStdout ==
    ASSUME Delivering
    PROVE  Spec => []GuestOutput
<1>1. DInv => GuestOutput
  BY DEF DInv
<1> QED
  BY <1>1, DeliveryInvariant, PTL
=============================================================================
