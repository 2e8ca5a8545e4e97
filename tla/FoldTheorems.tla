---------------------------- MODULE FoldTheorems ----------------------------
(***************************************************************************)
(* What the folds of the community modules compute: FoldLeft, FlattenSeq,  *)
(* and the sum of MapThenSumSet. They are recursive functions; that these  *)
(* exist and what they return is shown by the least number for which it    *)
(* would fail.                                                             *)
(***************************************************************************)
EXTENDS Integers, SequencesExt, FiniteSetTheorems, SequenceTheorems,
        WellFoundedInduction, TLAPS

\* A set of numbers that is not empty has a least element.
LEMMA LeastOf ==
  ASSUME NEW S \in SUBSET Nat, S # {}
  PROVE  \E m \in S : \A n \in S : m <= n
<1>1. PICK m \in S : \A n \in S : ~(<<n, m>> \in OpToRel(<, Nat))
  BY NatLessThanWellFounded, WFMin
<1>2. \A n \in S : ~(n < m) BY <1>1 DEF OpToRel
<1> QED BY <1>2

\* What holds of 0 and is passed on by every step holds up to n.
LEMMA UpTo ==
  ASSUME NEW n \in Nat, NEW T, 0 \in T,
         \A i \in 1..n : i - 1 \in T => i \in T
  PROVE  \A i \in 0..n : i \in T
<1> SUFFICES ASSUME NEW i \in 0..n, i \notin T PROVE FALSE
  OBVIOUS
<1> DEFINE S == {j \in 0..n : j \notin T}
<1>1. PICK m \in S : \A k \in S : m <= k
  <2> S \in SUBSET Nat /\ S # {} OBVIOUS
  <2> QED BY LeastOf
<1>2. m \in 1..n /\ m - 1 \in T BY <1>1
<1> QED BY <1>1, <1>2

\* A value for every number up to n, each from the one before.
ByStep(f, n, base, g) ==
    f[0] = base /\ \A i \in 1..n : f[i] = g[<<i, f[i - 1]>>]

\* Values that each follow from the one before can be listed.
LEMMA StepByStep ==
  ASSUME NEW n \in Nat, NEW X, NEW base \in X,
         NEW g \in [(1..n) \X X -> X]
  PROVE  \E f \in [0..n -> X] : ByStep(f, n, base, g)
<1> DEFINE Good(k, f) == f[0] = base /\ \A i \in 1..k : f[i] = g[<<i, f[i - 1]>>]
           T == {k \in 0..n : \E f \in [0..k -> X] : Good(k, f)}
<1>1. 0 \in T
  <2> DEFINE h == [k \in 0..0 |-> base]
  <2>1. h \in [0..0 -> X] /\ Good(0, h)
    OBVIOUS
  <2> HIDE DEF h
  <2> QED BY <2>1
<1>2. ASSUME NEW i \in 1..n, i - 1 \in T PROVE i \in T
  <2>1. PICK f \in [0..(i - 1) -> X] : Good(i - 1, f)
    BY <1>2
  <2> DEFINE h == [k \in 0..i |-> IF k = i THEN g[<<i, f[i - 1]>>] ELSE f[k]]
  <2>2. h \in [0..i -> X]
    <3>1. g[<<i, f[i - 1]>>] \in X OBVIOUS
    <3>2. \A k \in 0..i : k # i => f[k] \in X OBVIOUS
    <3> QED BY <3>1, <3>2
  <2>3. Good(i, h)
    <3>1. h[0] = base BY <2>1
    <3>2. ASSUME NEW k \in 1..i PROVE h[k] = g[<<k, h[k - 1]>>]
      <4>1. h[k - 1] = f[k - 1] OBVIOUS
      <4>2. CASE k = i
        <5>1. h[i] = g[<<i, f[i - 1]>>] OBVIOUS
        <5> HIDE DEF h
        <5> QED BY <4>1, <4>2, <5>1
      <4>3. CASE k # i BY <4>1, <4>3, <2>1
      <4> QED BY <4>2, <4>3
    <3> QED BY <3>1, <3>2
  <2> HIDE DEF h
  <2>4. i \in 0..n OBVIOUS
  <2> QED BY <2>2, <2>3, <2>4
<1>3. n \in T
  <2> HIDE DEF T
  <2> QED BY <1>1, <1>2, UpTo
<1> QED BY <1>3 DEF ByStep

\* The largest of the first n numbers is n if it is among them.
LEMMA MaxOfFirst ==
  ASSUME NEW n \in Nat, NEW s \in SUBSET (1..n), n \in s
  PROVE  Max(s) = n
<1>1. n \in s /\ \A k \in s : n >= k OBVIOUS
<1>2. ASSUME NEW m \in s, \A k \in s : m >= k PROVE m = n BY <1>2
<1> QED BY <1>1, <1>2 DEF Max

\* A set of the first n numbers ends with its largest member.
LEMMA MaxIsMax ==
  ASSUME NEW n \in Nat, NEW s \in SUBSET (1..n), s # {}
  PROVE  Max(s) \in s /\ s \in SUBSET (1..Max(s))
<1> DEFINE S == {n - k : k \in s}
<1>1. PICK m \in S : \A k \in S : m <= k
  <2>1. S \in SUBSET Nat OBVIOUS
  <2>2. S # {}
    <3>1. PICK k \in s : TRUE OBVIOUS
    <3>2. n - k \in S BY <3>1
    <3> QED BY <3>2
  <2> HIDE DEF S
  <2> QED BY <2>1, <2>2, LeastOf
<1>2. PICK q \in s : m = n - q BY <1>1
<1>3. \A k \in s : n - q <= n - k BY <1>1, <1>2
<1>4. \A k \in s : q >= k BY <1>3
<1>5. Max(s) \in s /\ \A k \in s : Max(s) >= k BY <1>4 DEF Max
<1> QED BY <1>5

\* The largest member of a set is a member.
LEMMA MaxIn ==
  ASSUME NEW n \in Nat, NEW s \in SUBSET (1..n), s # {}
  PROVE  Max(s) \in s
  BY MaxIsMax

\* f gives every set of the first n numbers what g makes of its largest member
\* and of what f gives the set without it.
BySets(f, n, base, g) ==
    \A s \in SUBSET (1..n) :
        f[s] = IF s = {} THEN base ELSE g[<<Max(s), f[s \ {Max(s)}]>>]

\* Such a function exists.
LEMMA SetBySet ==
  ASSUME NEW n \in Nat, NEW X, NEW base \in X,
         NEW g \in [(1..n) \X X -> X]
  PROVE  \E f \in [SUBSET (1..n) -> X] : BySets(f, n, base, g)
<1> DEFINE Good(k, f) ==
               \A s \in SUBSET (1..k) :
                 f[s] = IF s = {} THEN base ELSE g[<<Max(s), f[s \ {Max(s)}]>>]
           T == {k \in 0..n : \E f \in [SUBSET (1..k) -> X] : Good(k, f)}
<1>1. 0 \in T
  <2> DEFINE h == [s \in SUBSET (1..0) |-> base]
  <2>1. h \in [SUBSET (1..0) -> X] /\ Good(0, h)
    OBVIOUS
  <2> HIDE DEF h
  <2>2. \E f \in [SUBSET (1..0) -> X] : Good(0, f)
    <3> HIDE DEF Good
    <3> QED BY <2>1
  <2>3. 0 \in 0..n OBVIOUS
  <2> HIDE DEF Good
  <2> QED BY <2>2, <2>3
<1>2. ASSUME NEW i \in 1..n, i - 1 \in T PROVE i \in T
  <2>1. PICK f \in [SUBSET (1..(i - 1)) -> X] : Good(i - 1, f)
    BY <1>2
  <2> DEFINE h == [s \in SUBSET (1..i) |->
                      IF i \in s THEN g[<<i, f[s \ {i}]>>] ELSE f[s]]
  <2>2. ASSUME NEW s \in SUBSET (1..i), i \in s
        PROVE  Max(s) = i /\ s \ {i} \in SUBSET (1..(i - 1))
    BY <2>2, MaxOfFirst
  <2>3. ASSUME NEW s \in SUBSET (1..i), i \notin s
        PROVE  s \in SUBSET (1..(i - 1))
    BY <2>3
  <2>4. h \in [SUBSET (1..i) -> X]
    BY <2>2, <2>3
  <2>5. ASSUME NEW s \in SUBSET (1..i), s # {}
        PROVE  Max(s) \in s
    <3>1. i \in Nat OBVIOUS
    <3> QED BY <2>5, <3>1, MaxIn
  <2>6. Good(i, h)
    <3>1. ASSUME NEW s \in SUBSET (1..i), i \in s
          PROVE  h[s] = g[<<Max(s), h[s \ {Max(s)}]>>]
      <4>1. h[s] = g[<<i, f[s \ {i}]>>] BY <3>1
      <4>2. h[s \ {i}] = f[s \ {i}] OBVIOUS
      <4> HIDE DEF h
      <4> QED BY <4>1, <4>2, <2>2, <3>1
    <3>2. ASSUME NEW s \in SUBSET (1..i), i \notin s, s # {}
          PROVE  h[s] = g[<<Max(s), h[s \ {Max(s)}]>>]
      <4>1. h[s] = f[s] BY <3>2
      <4>2. h[s \ {Max(s)}] = f[s \ {Max(s)}] BY <3>2
      <4> HIDE DEF h
      <4> QED BY <4>1, <4>2, <2>1, <2>3, <3>2
    <3>3. h[{}] = base BY <2>1
    <3> HIDE DEF h
    <3> QED BY <3>1, <3>2, <3>3
  <2> HIDE DEF h
  <2>7. i \in 0..n OBVIOUS
  <2> QED BY <2>4, <2>6, <2>7
<1>3. n \in T
  <2> HIDE DEF T
  <2> QED BY <1>1, <1>2, UpTo
<1> QED BY <1>3 DEF BySets

\* As above, for a g that is only well-behaved on X[i] at the i-th step.
LEMMA SetBySetWithin ==
  ASSUME NEW n \in Nat, NEW A, NEW X \in [0..n -> SUBSET A], NEW base \in X[0],
         \A i \in 1..n : X[i - 1] \subseteq X[i],
         NEW g \in [(1..n) \X A -> A],
         \A i \in 1..n : \A x \in X[i - 1] : g[<<i, x>>] \in X[i]
  PROVE  \E f \in [SUBSET (1..n) -> A] :
             /\ BySets(f, n, base, g)
             /\ \A k \in 0..n : \A s \in SUBSET (1..k) : f[s] \in X[k]
<1>1. base \in A OBVIOUS
<1>2. PICK f \in [SUBSET (1..n) -> A] : BySets(f, n, base, g)
  BY <1>1, SetBySet
<1> DEFINE T == {k \in 0..n : \A s \in SUBSET (1..k) : f[s] \in X[k]}
<1>3. 0 \in T
  <2>1. 1..0 = {} /\ {} \in SUBSET (1..n) OBVIOUS
  <2>2. f[{}] = base BY <1>2, <2>1 DEF BySets
  <2>3. \A s \in SUBSET (1..0) : s = {} OBVIOUS
  <2>4. 0 \in 0..n OBVIOUS
  <2> QED BY <2>2, <2>3, <2>4
<1>4. ASSUME NEW i \in 1..n, i - 1 \in T PROVE i \in T
  <2> SUFFICES ASSUME NEW s \in SUBSET (1..i) PROVE f[s] \in X[i]
    OBVIOUS
  <2>1. CASE i \in s
    <3>1. Max(s) = i BY <2>1, MaxOfFirst
    <3>2. s \ {i} \in SUBSET (1..(i - 1)) OBVIOUS
    <3>3. f[s \ {i}] \in X[i - 1] BY <1>4, <3>2
    <3>4. s \in SUBSET (1..n) /\ s # {} BY <2>1
    <3>5. f[s] = g[<<i, f[s \ {i}]>>] BY <1>2, <3>1, <3>4 DEF BySets
    <3> QED BY <3>3, <3>5
  <2>2. CASE i \notin s
    <3>1. s \in SUBSET (1..(i - 1)) BY <2>2
    <3>2. f[s] \in X[i - 1] BY <1>4, <3>1
    <3> QED BY <3>2
  <2> QED BY <2>1, <2>2
<1>5. \A i \in 0..n : i \in T
  <2> HIDE DEF T
  <2> QED BY <1>3, <1>4, UpTo
<1> QED BY <1>2, <1>5

------------------------------------------------------------------------------
(***************************************************************************)
(* FlattenSeq.                                                             *)
(***************************************************************************)
Joined(f, seqs) ==
    f[0] = <<>> /\ \A i \in 1..Len(seqs) : f[i] = f[i - 1] \o seqs[i]

\* FlattenSeq appends the sequences one by one.
LEMMA FlattenSteps ==
  ASSUME NEW X, NEW seqs \in Seq(Seq(X))
  PROVE  \E f \in [0..Len(seqs) -> Seq(X)] :
             Joined(f, seqs) /\ FlattenSeq(seqs) = f[Len(seqs)]
<1> DEFINE n == Len(seqs)
           S == Seq(X)
           g == [p \in (1..n) \X S |-> p[2] \o seqs[p[1]]]
<1>1. n \in Nat /\ DOMAIN seqs = 1..n /\ <<>> \in S
  BY LenProperties, EmptySeq
<1>2. g \in [(1..n) \X S -> S]
  <2>1. \A i \in 1..n : seqs[i] \in S BY ElementOfSeq
  <2>2. \A s, t \in S : s \o t \in S BY ConcatProperties
  <2> HIDE DEF S, n
  <2> QED BY <2>1, <2>2
<1>3. \A i \in 1..n, s \in S : g[<<i, s>>] = s \o seqs[i]
  OBVIOUS
<1> HIDE DEF g
<1>4. PICK f \in [0..n -> S] : ByStep(f, n, <<>>, g)
  <2> HIDE DEF n, S
  <2> QED BY <1>1, <1>2, StepByStep
<1>5. Joined(f, seqs)
  <2>1. \A i \in 1..n : f[i - 1] \in S
    <3> HIDE DEF n, S
    <3> QED BY <1>1
  <2> QED BY <1>3, <1>4, <2>1 DEF Joined, ByStep
<1>6. CASE n = 0
  <2>1. seqs = <<>> BY <1>6, EmptySeq
  <2> QED BY <1>1, <1>5, <1>6, <2>1 DEF FlattenSeq, Joined
<1>7. CASE n # 0
  <2> DEFINE Iter(h) == [i \in 1..n |->
                           IF i = 1 THEN seqs[i] ELSE h[i - 1] \o seqs[i]]
             k == [i \in 1..n |-> f[i]]
             it == CHOOSE h : h = Iter(h)
  <2>1. k = Iter(k)
    <3> SUFFICES ASSUME NEW i \in 1..n
                 PROVE  f[i] = IF i = 1 THEN seqs[i] ELSE k[i - 1] \o seqs[i]
      OBVIOUS
    <3>1. CASE i = 1
      <4>1. seqs[1] \in S BY <3>1, ElementOfSeq
      <4>2. <<>> \o seqs[1] = seqs[1] BY <4>1, ConcatEmptySeq
      <4>3. f[i] = f[i - 1] \o seqs[i] /\ f[0] = <<>>
        BY <1>5 DEF Joined
      <4>4. i - 1 = 0 BY <3>1
      <4> QED BY <3>1, <4>2, <4>3, <4>4
    <3>2. CASE i # 1
      <4>1. k[i - 1] = f[i - 1] BY <1>1, <3>2
      <4> HIDE DEF k
      <4> QED BY <1>5, <3>2, <4>1 DEF Joined
    <3> QED BY <3>1, <3>2
  <2>2. it = Iter(it)
    <3> HIDE DEF k
    <3> QED BY <2>1
  <2>3. FlattenSeq(seqs) = it[n]
    BY <1>7 DEF FlattenSeq
  <2> HIDE DEF it
  <2> DEFINE T == {i \in 0..n : i = 0 \/ it[i] = f[i]}
  <2>4. 0 \in T BY <1>1
  <2>5. ASSUME NEW i \in 1..n, i - 1 \in T PROVE i \in T
    <3>1. it[i] = IF i = 1 THEN seqs[i] ELSE it[i - 1] \o seqs[i] BY <2>2
    <3>2. f[i] = IF i = 1 THEN seqs[i] ELSE f[i - 1] \o seqs[i]
      <4>1. k[i] = IF i = 1 THEN seqs[i] ELSE k[i - 1] \o seqs[i] BY <2>1
      <4>2. i # 1 => k[i - 1] = f[i - 1] BY <1>1
      <4> QED BY <4>1, <4>2
    <3> QED BY <1>1, <2>5, <3>1, <3>2
  <2>6. \A i \in 0..n : i \in T
    <3> HIDE DEF T, n
    <3> QED BY <1>1, <2>4, <2>5, UpTo
  <2>7. it[n] = f[n] BY <1>1, <1>7, <2>6
  <2> QED BY <1>5, <2>3, <2>7
<1> QED BY <1>6, <1>7

\* Whatever lists the prefixes ends with FlattenSeq.
LEMMA FlattenBy ==
  ASSUME NEW X, NEW seqs \in Seq(Seq(X)), NEW f, Joined(f, seqs)
  PROVE  FlattenSeq(seqs) = f[Len(seqs)]
<1> DEFINE n == Len(seqs)
<1>1. n \in Nat BY LenProperties
<1>2. PICK h \in [0..n -> Seq(X)] : Joined(h, seqs) /\ FlattenSeq(seqs) = h[n]
  BY FlattenSteps
<1> DEFINE T == {i \in 0..n : h[i] = f[i]}
<1>3. 0 \in T BY <1>1, <1>2 DEF Joined
<1>4. ASSUME NEW i \in 1..n, i - 1 \in T PROVE i \in T
  <2>1. h[i] = h[i - 1] \o seqs[i] BY <1>2 DEF Joined
  <2>2. f[i] = f[i - 1] \o seqs[i] BY DEF Joined
  <2>3. h[i - 1] = f[i - 1] BY <1>4
  <2>4. i \in 0..n BY <1>1
  <2> QED BY <2>1, <2>2, <2>3, <2>4
<1>5. \A i \in 0..n : i \in T
  <2> HIDE DEF T, n
  <2> QED BY <1>1, <1>3, <1>4, UpTo
<1> QED BY <1>1, <1>2, <1>5

\* Sequences over X make up a sequence over X.
LEMMA FlattenType ==
  ASSUME NEW X, NEW seqs \in Seq(Seq(X))
  PROVE  FlattenSeq(seqs) \in Seq(X)
<1>1. PICK f \in [0..Len(seqs) -> Seq(X)] : FlattenSeq(seqs) = f[Len(seqs)]
  BY FlattenSteps
<1>2. Len(seqs) \in 0..Len(seqs) BY LenProperties
<1> QED BY <1>1, <1>2

\* The sequences of single elements make up the sequence of these elements.
LEMMA FlattenSingles ==
  ASSUME NEW X, NEW s \in Seq(X)
  PROVE  FlattenSeq([i \in 1..Len(s) |-> <<s[i]>>]) = s
<1> DEFINE n == Len(s)
           seqs == [i \in 1..n |-> <<s[i]>>]
           f == [i \in 0..n |-> SubSeq(s, 1, i)]
<1>1. n \in Nat BY LenProperties
<1>2. \A i \in 1..n : <<s[i]>> \in Seq(X) BY ElementOfSeq
<1>3. seqs \in Seq(Seq(X)) /\ Len(seqs) = n
  <2> HIDE DEF n
  <2> QED BY <1>1, <1>2, IsASeq
<1>4. Joined(f, seqs)
  <2>1. f[0] = <<>> BY <1>1, SubSeqEmpty
  <2>2. ASSUME NEW i \in 1..n PROVE f[i] = f[i - 1] \o seqs[i]
    <3>1. SubSeq(s, 1, i) = SubSeq(s, 1, i - 1) \o <<s[i]>>
      <4>1. 1 \in 1..Len(s) /\ i \in 1..Len(s) BY <1>1
      <4> QED BY <4>1, SubSeqRecursiveSecond
    <3>2. f[i] = SubSeq(s, 1, i) /\ f[i - 1] = SubSeq(s, 1, i - 1) BY <1>1
    <3>3. seqs[i] = <<s[i]>> OBVIOUS
    <3> HIDE DEF f, seqs
    <3> QED BY <3>1, <3>2, <3>3
  <2> HIDE DEF f, seqs
  <2> QED BY <1>3, <2>1, <2>2 DEF Joined
<1>5. f[n] = s BY <1>1, SubSeqFull
<1>6. FlattenSeq(seqs) = f[n]
  <2> HIDE DEF f, seqs, n
  <2> QED BY <1>3, <1>4, FlattenBy
<1> QED BY <1>5, <1>6

\* Empty sequences make up the empty sequence.
LEMMA FlattenEmpties ==
  ASSUME NEW n \in Nat
  PROVE  FlattenSeq([i \in 1..n |-> <<>>]) = <<>>
<1> DEFINE seqs == [i \in 1..n |-> <<>>]
           f == [i \in 0..n |-> <<>>]
<1>1. seqs \in Seq(Seq({})) /\ Len(seqs) = n
  <2>1. <<>> \in Seq({}) BY EmptySeq
  <2> QED BY <2>1, IsASeq
<1>2. Joined(f, seqs)
  <2>1. <<>> \o <<>> = <<>> BY EmptySeq, ConcatEmptySeq
  <2>2. \A i \in 1..n : f[i] = <<>> /\ f[i - 1] = <<>> /\ seqs[i] = <<>>
    OBVIOUS
  <2>3. f[0] = <<>> OBVIOUS
  <2> HIDE DEF f, seqs
  <2> QED BY <1>1, <2>1, <2>2, <2>3 DEF Joined
<1>3. f[n] = <<>> OBVIOUS
<1> HIDE DEF f, seqs
<1>4. FlattenSeq(seqs) = f[n] BY <1>1, <1>2, FlattenBy
<1> QED BY <1>3, <1>4 DEF seqs

\* FlattenSeq of two lists is that of each, one after the other.
LEMMA FlattenConcat ==
  ASSUME NEW X, NEW a \in Seq(Seq(X)), NEW b \in Seq(Seq(X))
  PROVE  FlattenSeq(a \o b) = FlattenSeq(a) \o FlattenSeq(b)
<1> DEFINE k == Len(a)
           l == Len(b)
<1>1. k \in Nat /\ l \in Nat BY LenProperties
<1>2. /\ a \o b \in Seq(Seq(X))
      /\ Len(a \o b) = k + l
      /\ \A i \in 1..(k + l) : (a \o b)[i] = IF i <= k THEN a[i] ELSE b[i - k]
  BY ConcatProperties
<1>3. PICK A \in [0..k -> Seq(X)] : Joined(A, a) /\ FlattenSeq(a) = A[k]
  BY FlattenSteps
<1>4. PICK B \in [0..l -> Seq(X)] : Joined(B, b) /\ FlattenSeq(b) = B[l]
  BY FlattenSteps
<1> HIDE DEF k, l
<1> DEFINE f == [i \in 0..(k + l) |-> IF i <= k THEN A[i] ELSE A[k] \o B[i - k]]
<1>5. \A i \in 0..k : f[i] = A[i] BY <1>1
<1>6. \A j \in 0..l : f[k + j] = A[k] \o B[j]
  <2> SUFFICES ASSUME NEW j \in 0..l PROVE f[k + j] = A[k] \o B[j]
    OBVIOUS
  <2>1. CASE j = 0
    <3>1. A[k] \in Seq(X) BY <1>1
    <3>2. A[k] \o <<>> = A[k] BY <3>1, ConcatEmptySeq
    <3>3. k + j = k /\ k \in 0..k BY <1>1, <2>1
    <3>4. f[k + j] = A[k] BY <1>5, <3>3
    <3> HIDE DEF f
    <3> QED BY <1>4, <2>1, <3>2, <3>4 DEF Joined
  <2>2. CASE j # 0
    <3>1. k + j \in 0..(k + l) /\ ~(k + j <= k) /\ (k + j) - k = j BY <1>1, <2>2
    <3> QED BY <3>1
  <2> QED BY <2>1, <2>2
<1> HIDE DEF f
<1>7. \A i \in 1..(k + l) : f[i] = f[i - 1] \o (a \o b)[i]
  <2>1. ASSUME NEW i \in 1..k PROVE f[i] = f[i - 1] \o (a \o b)[i]
    <3>1. f[i] = A[i] /\ f[i - 1] = A[i - 1] BY <1>1, <1>5
    <3>2. A[i] = A[i - 1] \o a[i] BY <1>3 DEF Joined, k
    <3>3. (a \o b)[i] = a[i] BY <1>1, <1>2
    <3> QED BY <3>1, <3>2, <3>3
  <2>2. ASSUME NEW j \in 1..l PROVE f[k + j] = f[(k + j) - 1] \o (a \o b)[k + j]
    <3>1. (k + j) - 1 = k + (j - 1) /\ j \in 0..l /\ j - 1 \in 0..l BY <1>1
    <3>2. f[k + j] = A[k] \o B[j] /\ f[(k + j) - 1] = A[k] \o B[j - 1]
      BY <1>6, <3>1
    <3>3. B[j] = B[j - 1] \o b[j] BY <1>4 DEF Joined, l
    <3>4. A[k] \in Seq(X) BY <1>1
    <3>5. B[j - 1] \in Seq(X) BY <3>1
    <3>6. b[j] \in Seq(X) BY ElementOfSeq DEF l
    <3>7. (A[k] \o B[j - 1]) \o b[j] = A[k] \o (B[j - 1] \o b[j])
      <4>1. \A s, t, u \in Seq(X) : (s \o t) \o u = s \o (t \o u)
        BY ConcatAssociative
      <4> QED BY <3>4, <3>5, <3>6, <4>1, Zenon
    <3>8. (a \o b)[k + j] = b[j]
      <4>1. k + j \in 1..(k + l) /\ ~(k + j <= k) /\ (k + j) - k = j BY <1>1
      <4> QED BY <1>2, <4>1
    <3> QED BY <3>2, <3>3, <3>7, <3>8
  <2>3. ASSUME NEW i \in 1..(k + l), i \notin 1..k
        PROVE  \E j \in 1..l : i = k + j
    <3>1. i - k \in 1..l /\ i = k + (i - k) BY <1>1, <2>3
    <3> QED BY <3>1
  <2> QED BY <2>1, <2>2, <2>3
<1>8. Joined(f, a \o b)
  <2>1. f[0] = <<>> BY <1>1, <1>3, <1>5 DEF Joined
  <2> QED BY <1>2, <1>7, <2>1 DEF Joined
<1>9. FlattenSeq(a \o b) = f[k + l] BY <1>2, <1>8, FlattenBy
<1>10. f[k + l] = A[k] \o B[l] BY <1>1, <1>6
<1> QED BY <1>3, <1>4, <1>9, <1>10 DEF k, l

\* One sequence makes up itself.
LEMMA FlattenOne ==
  ASSUME NEW X, NEW s \in Seq(X)
  PROVE  FlattenSeq(<<s>>) = s
<1> DEFINE f == [i \in 0..1 |-> IF i = 0 THEN <<>> ELSE s]
<1>1. <<s>> \in Seq(Seq(X)) /\ Len(<<s>>) = 1 OBVIOUS
<1>2. <<>> \o s = s BY ConcatEmptySeq
<1>3. f[0] = <<>> /\ f[1] = s OBVIOUS
<1> HIDE DEF f
<1>4. Joined(f, <<s>>)
  <2>1. \A i \in 1..1 : i = 1 /\ i - 1 = 0 OBVIOUS
  <2>2. <<s>>[1] = s OBVIOUS
  <2> QED BY <1>1, <1>2, <1>3, <2>1, <2>2 DEF Joined
<1>5. FlattenSeq(<<s>>) = f[1] BY <1>1, <1>4, FlattenBy
<1> QED BY <1>3, <1>5

------------------------------------------------------------------------------
(***************************************************************************)
(* A stretch of a sequence.                                                *)
(***************************************************************************)
LEMMA Stretch ==
  ASSUME NEW X, NEW s \in Seq(X), NEW a \in 0..Len(s), NEW b \in a..Len(s)
  PROVE  /\ SubSeq(s, a + 1, b) \in Seq(X)
         /\ Len(SubSeq(s, a + 1, b)) = b - a
         /\ \A j \in 1..(b - a) : SubSeq(s, a + 1, b)[j] = s[a + j]
<1>1. Len(s) \in Nat BY LenProperties
<1>2. a + 1 \in Int /\ b \in Int /\ b - (a + 1) + 1 = b - a
      /\ (a + 1 <= b \/ b - a = 0) /\ \A j \in Int : (a + 1) + j - 1 = a + j
  BY <1>1
<1>3. \A i \in (a + 1)..b : s[i] \in X BY <1>1, ElementOfSeq
<1>4. /\ SubSeq(s, a + 1, b) \in Seq(X)
      /\ Len(SubSeq(s, a + 1, b)) = IF a + 1 <= b THEN b - (a + 1) + 1 ELSE 0
      /\ \A i \in 1..(b - (a + 1) + 1) : SubSeq(s, a + 1, b)[i] = s[(a + 1) + i - 1]
  BY <1>2, <1>3, SubSeqProperties
<1> QED BY <1>2, <1>4

\* A stretch of a sequence cut in two.
LEMMA Split ==
  ASSUME NEW X, NEW s \in Seq(X), NEW a \in 0..Len(s), NEW b \in a..Len(s)
  PROVE  SubSeq(s, a + 1, Len(s)) = SubSeq(s, a + 1, b) \o SubSeq(s, b + 1, Len(s))
<1>1. Len(s) \in Nat BY LenProperties
<1>2. a + 1 \in 1..(Len(s) + 1) /\ b \in ((a + 1) - 1)..Len(s) /\ Len(s) \in b..Len(s)
  BY <1>1
<1> QED BY <1>2, ConcatAdjacentSubSeq

\* FlattenSeq of a stretch cut in two.
LEMMA FlattenSplit ==
  ASSUME NEW X, NEW s \in Seq(Seq(X)), NEW a \in 0..Len(s), NEW b \in a..Len(s)
  PROVE  FlattenSeq(SubSeq(s, a + 1, Len(s)))
            = FlattenSeq(SubSeq(s, a + 1, b)) \o FlattenSeq(SubSeq(s, b + 1, Len(s)))
<1> DEFINE u == SubSeq(s, a + 1, b)
           v == SubSeq(s, b + 1, Len(s))
<1>1. Len(s) \in Nat BY LenProperties
<1>2. b \in 0..Len(s) /\ Len(s) \in b..Len(s) BY <1>1
<1>3. u \in Seq(Seq(X)) BY Stretch
<1>4. v \in Seq(Seq(X)) BY <1>2, Stretch
<1>5. SubSeq(s, a + 1, Len(s)) = u \o v BY Split
<1> HIDE DEF u, v
<1>6. FlattenSeq(u \o v) = FlattenSeq(u) \o FlattenSeq(v) BY <1>3, <1>4, FlattenConcat
<1> QED BY <1>5, <1>6 DEF u, v

\* x begins with the first L elements of t and goes on with w.
Begins(x, t, L, w) == x = SubSeq(t, 1, L) \o w

\* Without its first a elements x goes on from there.
Drops(x, a, t, L, w) == SubSeq(x, a + 1, Len(x)) = SubSeq(t, a + 1, L) \o w

\* The two pieces into which such a sequence is cut among these elements.
LEMMA CutConcat ==
  ASSUME NEW X, NEW t \in Seq(X), NEW L \in 0..Len(t), NEW w \in Seq(X), NEW a \in 0..L,
         NEW x, Begins(x, t, L, w)
  PROVE  /\ x \in Seq(X)
         /\ Len(x) = L + Len(w)
         /\ SubSeq(x, 1, a) = SubSeq(t, 1, a)
         /\ Drops(x, a, t, L, w)
<1> DEFINE u == SubSeq(t, 1, L)
<1>1. Len(t) \in Nat /\ Len(w) \in Nat BY LenProperties
<1>2. u \in Seq(X) /\ Len(u) = L /\ \A i \in 1..L : u[i] = t[i]
  <2>1. 0 \in 0..Len(t) /\ L \in 0..Len(t) /\ 0 + 1 = 1 /\ L - 0 = L
        /\ \A i \in Int : 0 + i = i
    BY <1>1
  <2>2. /\ SubSeq(t, 0 + 1, L) \in Seq(X) /\ Len(SubSeq(t, 0 + 1, L)) = L - 0
        /\ \A i \in 1..(L - 0) : SubSeq(t, 0 + 1, L)[i] = t[0 + i]
    BY <2>1, Stretch
  <2> QED BY <2>1, <2>2
<1>3. x = u \o w BY DEF Begins
<1> HIDE DEF u
<1>4. /\ x \in Seq(X) /\ Len(x) = L + Len(w)
      /\ \A i \in 1..(L + Len(w)) : x[i] = IF i <= L THEN u[i] ELSE w[i - L]
  BY <1>2, <1>3, ConcatProperties
<1>5. SubSeq(x, 1, a) = SubSeq(t, 1, a)
  <2>1. 0 \in 0..Len(t) /\ a \in 0..Len(t) /\ 0 \in 0..Len(x) /\ a \in 0..Len(x)
        /\ 0 + 1 = 1 /\ a - 0 = a /\ \A i \in Int : 0 + i = i
    BY <1>1, <1>4
  <2>2. /\ SubSeq(t, 0 + 1, a) \in Seq(X) /\ Len(SubSeq(t, 0 + 1, a)) = a - 0
        /\ \A i \in 1..(a - 0) : SubSeq(t, 0 + 1, a)[i] = t[0 + i]
    BY <2>1, Stretch
  <2>3. /\ SubSeq(x, 0 + 1, a) \in Seq(X) /\ Len(SubSeq(x, 0 + 1, a)) = a - 0
        /\ \A i \in 1..(a - 0) : SubSeq(x, 0 + 1, a)[i] = x[0 + i]
    BY <1>4, <2>1, Stretch
  <2> DEFINE p == SubSeq(t, 1, a)
             q == SubSeq(x, 1, a)
  <2>4. p \in Seq(X) /\ Len(p) = a /\ \A i \in 1..a : p[i] = t[i]
    BY <2>1, <2>2
  <2>5. q \in Seq(X) /\ Len(q) = a /\ \A i \in 1..a : q[i] = x[i]
    BY <2>1, <2>3
  <2> HIDE DEF p, q
  <2>6. \A i \in 1..a : q[i] = p[i] BY <1>1, <1>2, <1>4, <2>4, <2>5
  <2>7. q = p BY <2>4, <2>5, <2>6, SeqEqual
  <2> QED BY <2>7 DEF p, q
<1>6. SubSeq(x, a + 1, Len(x)) = SubSeq(t, a + 1, L) \o w
  <2> DEFINE n == Len(x)
             p == SubSeq(x, a + 1, n)
             q == SubSeq(t, a + 1, L)
  <2>1. n = L + Len(w) /\ a \in 0..Len(x) /\ n \in a..Len(x) /\ a \in 0..Len(t)
        /\ L \in a..Len(t)
    BY <1>1, <1>4
  <2>2. p \in Seq(X) /\ Len(p) = n - a /\ \A i \in 1..(n - a) : p[i] = x[a + i]
    <3> HIDE DEF n
    <3> QED BY <1>4, <2>1, Stretch
  <2>3. q \in Seq(X) /\ Len(q) = L - a /\ \A i \in 1..(L - a) : q[i] = t[a + i]
    BY <2>1, Stretch
  <2> HIDE DEF p, q, n
  <2>4. /\ q \o w \in Seq(X) /\ Len(q \o w) = (L - a) + Len(w)
        /\ \A i \in 1..((L - a) + Len(w)) :
               (q \o w)[i] = IF i <= L - a THEN q[i] ELSE w[i - (L - a)]
    <3>1. /\ q \o w \in Seq(X) /\ Len(q \o w) = Len(q) + Len(w)
          /\ \A i \in 1..(Len(q) + Len(w)) :
                 (q \o w)[i] = IF i <= Len(q) THEN q[i] ELSE w[i - Len(q)]
      BY <2>3, ConcatProperties
    <3>2. Len(q) = L - a BY <2>3
    <3> QED BY <3>1, <3>2
  <2>5. n - a = (L - a) + Len(w) BY <1>1, <2>1
  <2>6. ASSUME NEW i \in 1..(n - a) PROVE p[i] = (q \o w)[i]
    <3>1. p[i] = x[a + i] /\ a + i \in 1..n BY <1>1, <2>1, <2>2
    <3>2. CASE i <= L - a
      <4>1. i \in 1..(L - a) /\ a + i \in 1..L /\ a + i <= L BY <1>1, <2>1, <3>2
      <4>2. x[a + i] = t[a + i] BY <1>2, <1>4, <2>1, <3>1, <4>1
      <4> QED BY <2>3, <2>4, <2>5, <3>1, <3>2, <4>1, <4>2
    <3>3. CASE ~(i <= L - a)
      <4>1. ~(a + i <= L) /\ (a + i) - L = i - (L - a) BY <1>1, <2>1, <3>3
      <4>2. x[a + i] = w[i - (L - a)] BY <1>4, <2>1, <3>1, <4>1
      <4> QED BY <2>4, <2>5, <3>1, <3>3, <4>2
    <3> QED BY <3>2, <3>3
  <2> DEFINE y == q \o w
  <2>7. y \in Seq(X) /\ Len(y) = n - a /\ \A i \in 1..(n - a) : p[i] = y[i]
    BY <2>4, <2>5, <2>6
  <2> HIDE DEF y
  <2>8. p = y BY <2>2, <2>7, SeqEqual
  <2> QED BY <2>8 DEF p, q, y, n
<1> QED BY <1>4, <1>5, <1>6 DEF Drops

------------------------------------------------------------------------------
(***************************************************************************)
(* Folds over a finite set, which take out one member after the other.     *)
(***************************************************************************)
One(s) == CHOOSE x \in s : TRUE

\* A subset is finite and not larger; without members it is empty.
LEMMA SubsetSize ==
  ASSUME NEW S, IsFiniteSet(S), NEW s \in SUBSET S
  PROVE  /\ IsFiniteSet(s) /\ Cardinality(s) \in Nat /\ Cardinality(s) <= Cardinality(S)
         /\ Cardinality(s) <= 0 => s = {}
<1>1. IsFiniteSet(s) /\ Cardinality(s) <= Cardinality(S) BY FS_Subset
<1>2. Cardinality(s) \in Nat BY <1>1, FS_CardinalityType
<1>3. Cardinality(s) = 0 => s = {} BY <1>1, FS_EmptySet
<1> QED BY <1>1, <1>2, <1>3

\* Taking out a member leaves one less.
LEMMA OneLess ==
  ASSUME NEW S, IsFiniteSet(S), NEW s \in SUBSET S, s # {}
  PROVE  /\ One(s) \in s
         /\ s \ {One(s)} \in SUBSET S
         /\ Cardinality(s \ {One(s)}) = Cardinality(s) - 1
<1>1. One(s) \in s BY DEF One
<1>2. IsFiniteSet(s) BY SubsetSize
<1>3. Cardinality(s \ {One(s)}) = Cardinality(s) - 1 BY <1>1, <1>2, FS_RemoveElement
<1> QED BY <1>1, <1>3

\* What holds of the empty set and survives a member holds of every subset.
LEMMA BySubset ==
  ASSUME NEW S, IsFiniteSet(S), NEW T, {} \in T,
         \A s \in SUBSET S : s # {} /\ s \ {One(s)} \in T => s \in T
  PROVE  \A s \in SUBSET S : s \in T
<1> DEFINE n == Cardinality(S)
           Small(k) == \A s \in SUBSET S : Cardinality(s) <= k => s \in T
           K == {k \in 0..n : Small(k)}
<1>1. n \in Nat BY FS_CardinalityType
<1>2. 0 \in K
  <2>1. ASSUME NEW s \in SUBSET S, Cardinality(s) <= 0 PROVE s \in T
    <3>1. s = {} BY <2>1, SubsetSize
    <3> QED BY <3>1
  <2> QED BY <1>1, <2>1
<1>3. ASSUME NEW k \in 1..n, k - 1 \in K PROVE k \in K
  <2>1. ASSUME NEW s \in SUBSET S, Cardinality(s) <= k PROVE s \in T
    <3>1. CASE s = {} BY <3>1
    <3>2. CASE s # {}
      <4>1. s \ {One(s)} \in SUBSET S /\ Cardinality(s \ {One(s)}) <= k - 1
        BY <1>1, <2>1, <3>2, SubsetSize, OneLess
      <4>2. s \ {One(s)} \in T BY <1>3, <4>1
      <4> QED BY <3>2, <4>2
    <3> QED BY <3>1, <3>2
  <2> QED BY <1>1, <2>1
<1>4. \A k \in 0..n : k \in K
  <2> HIDE DEF K, n
  <2> QED BY <1>1, <1>2, <1>3, UpTo
<1>5. Small(n) BY <1>1, <1>4
<1> QED BY <1>5, SubsetSize

\* f gives every subset what g makes of one of its members and of what f gives
\* the set without it.
ByMembers(f, S, base, g) ==
    \A s \in SUBSET S :
        f[s] = IF s = {} THEN base ELSE g[<<One(s), f[s \ {One(s)}]>>]

\* Such a function exists for a finite set.
LEMMA MemberByMember ==
  ASSUME NEW S, IsFiniteSet(S), NEW X, NEW base \in X, NEW g \in [S \X X -> X]
  PROVE  \E f \in [SUBSET S -> X] : ByMembers(f, S, base, g)
<1> DEFINE n == Cardinality(S)
           Upto(k) == {s \in SUBSET S : Cardinality(s) <= k}
           Good(k, f) ==
               \A s \in Upto(k) :
                 f[s] = IF s = {} THEN base ELSE g[<<One(s), f[s \ {One(s)}]>>]
           T == {k \in 0..n : \E f \in [Upto(k) -> X] : Good(k, f)}
<1>1. n \in Nat BY FS_CardinalityType
<1>2. 0 \in T
  <2> DEFINE h == [s \in Upto(0) |-> base]
  <2>1. \A s \in Upto(0) : s = {} BY SubsetSize
  <2>2. h \in [Upto(0) -> X] OBVIOUS
  <2>3. Good(0, h) BY <2>1
  <2> HIDE DEF h, Good, Upto
  <2> QED BY <1>1, <2>2, <2>3
<1>3. ASSUME NEW k \in 1..n, k - 1 \in T PROVE k \in T
  <2>1. PICK f \in [Upto(k - 1) -> X] : Good(k - 1, f) BY <1>3
  <2> DEFINE rest(s) == s \ {One(s)}
             h == [s \in Upto(k) |-> IF s = {} THEN base ELSE g[<<One(s), f[rest(s)]>>]]
  <2>2. \A s \in Upto(k) : s # {} => One(s) \in S /\ rest(s) \in Upto(k - 1)
    BY <1>1, SubsetSize, OneLess
  <2>3. h \in [Upto(k) -> X]
    <3> SUFFICES ASSUME NEW s \in Upto(k)
                 PROVE  (IF s = {} THEN base ELSE g[<<One(s), f[rest(s)]>>]) \in X
      OBVIOUS
    <3>1. CASE s = {} BY <3>1
    <3>2. CASE s # {}
      <4>1. f[rest(s)] \in X /\ One(s) \in S BY <2>2, <3>2
      <4> QED BY <3>2, <4>1
    <3> QED BY <3>1, <3>2
  <2>4. \A s \in Upto(k - 1) : s \in Upto(k) /\ h[s] = f[s]
    <3> SUFFICES ASSUME NEW s \in Upto(k - 1) PROVE s \in Upto(k) /\ h[s] = f[s]
      OBVIOUS
    <3>1. s \in Upto(k) BY <1>1, SubsetSize
    <3>2. h[s] = IF s = {} THEN base ELSE g[<<One(s), f[rest(s)]>>] BY <3>1
    <3> HIDE DEF h
    <3> QED BY <2>1, <3>1, <3>2
  <2>5. Good(k, h)
    <3> SUFFICES ASSUME NEW s \in Upto(k)
                 PROVE  h[s] = IF s = {} THEN base ELSE g[<<One(s), h[rest(s)]>>]
      OBVIOUS
    <3>1. h[s] = IF s = {} THEN base ELSE g[<<One(s), f[rest(s)]>>] OBVIOUS
    <3>2. s # {} => h[rest(s)] = f[rest(s)] BY <2>2, <2>4
    <3> HIDE DEF h
    <3> QED BY <3>1, <3>2
  <2> HIDE DEF h
  <2>6. k \in 0..n BY <1>1
  <2> QED BY <2>3, <2>5, <2>6
<1>4. \A k \in 0..n : k \in T
  <2> HIDE DEF T, n
  <2> QED BY <1>1, <1>2, <1>3, UpTo
<1>5. PICK f \in [Upto(n) -> X] : Good(n, f)
  <2>1. n \in 0..n BY <1>1
  <2> HIDE DEF n, Good, Upto
  <2> QED BY <1>4, <2>1
<1>6. Upto(n) = SUBSET S BY SubsetSize
<1> HIDE DEF n
<1>7. f \in [SUBSET S -> X] /\ ByMembers(f, S, base, g)
  BY <1>5, <1>6 DEF ByMembers
<1> QED BY <1>7

------------------------------------------------------------------------------
(***************************************************************************)
(* The places of the members of a finite set in an order of its members.   *)
(***************************************************************************)
Places(S, R) == [i \in S |-> Cardinality({j \in S : <<j, i>> \in R})]

\* Every place is taken by exactly one member.
LEMMA PlacesAreABijection ==
  ASSUME NEW S, IsFiniteSet(S), NEW R,
         \A i, j \in S : i # j => <<i, j>> \in R \/ <<j, i>> \in R,
         \A i \in S : <<i, i>> \notin R,
         \A i, j, k \in S : <<i, j>> \in R /\ <<j, k>> \in R => <<i, k>> \in R
  PROVE  /\ Cardinality(S) \in Nat
         /\ \A i, j \in S : <<i, j>> \in R => Places(S, R)[i] < Places(S, R)[j]
         /\ Places(S, R) \in [S -> 0..(Cardinality(S) - 1)]
         /\ \A m \in 0..(Cardinality(S) - 1) : \E i \in S : Places(S, R)[i] = m
<1> DEFINE r == Places(S, R)
           c == Cardinality(S)
           B(i) == {j \in S : <<j, i>> \in R}
<1>1. c \in Nat BY FS_CardinalityType
<1>2. \A i \in S : B(i) \in SUBSET S /\ i \notin B(i) OBVIOUS
<1>3. \A i \in S : IsFiniteSet(B(i)) /\ Cardinality(B(i)) \in Nat
  BY <1>2, FS_Subset, FS_CardinalityType
<1>0. \A i \in S : r[i] = Cardinality(B(i)) BY DEF Places
<1> HIDE DEF r, B
<1>4. ASSUME NEW i \in S, NEW j \in S, <<i, j>> \in R PROVE r[i] < r[j]
  <2>1. B(i) \in SUBSET B(j) /\ i \in B(j) BY <1>4 DEF B
  <2>2. B(i) # B(j) BY <1>2, <2>1
  <2>3. Cardinality(B(i)) <= Cardinality(B(j)) /\ Cardinality(B(i)) # Cardinality(B(j))
    BY <1>3, <2>1, <2>2, FS_Subset
  <2> QED BY <1>0, <1>3, <2>3
<1>5. ASSUME NEW i \in S PROVE r[i] \in 0..(c - 1)
  <2>1. Cardinality(B(i)) <= c /\ Cardinality(B(i)) # c
    BY <1>2, FS_Subset
  <2> QED BY <1>0, <1>1, <1>3, <2>1
<1>6. r \in [S -> 0..(c - 1)]
  <2>1. r = [i \in S |-> r[i]] BY DEF r, Places
  <2> HIDE DEF c
  <2> QED BY <1>5, <2>1
<1>7. ASSUME NEW i \in S, NEW j \in S, r[i] = r[j] PROVE i = j
  <2>1. r[i] \in Nat /\ r[j] \in Nat BY <1>1, <1>5
  <2>2. ~(r[i] < r[j]) /\ ~(r[j] < r[i]) BY <1>7, <2>1
  <2> QED BY <1>4, <2>2
<1>8. r \in Injection(S, 0..(c - 1))
  <2> HIDE DEF c
  <2> QED BY <1>6, <1>7 DEF Injection, IsInjective
<1>9. IsFiniteSet(0..(c - 1)) /\ Cardinality(0..(c - 1)) = c
  <2>1. 0 \in Int /\ c - 1 \in Int /\ (0 > c - 1 <=> c = 0) /\ (c - 1) - 0 + 1 = c
    BY <1>1
  <2> HIDE DEF c
  <2> QED BY <2>1, FS_Interval
<1>10. r \in Surjection(S, 0..(c - 1))
  <2> QED BY <1>1, <1>8, <1>9, FS_Injection
<1> HIDE DEF c
<1>11. \A m \in 0..(c - 1) : \E i \in S : r[i] = m
  BY <1>10 DEF Surjection
<1> QED BY <1>1, <1>4, <1>6, <1>11 DEF r, c

------------------------------------------------------------------------------
(***************************************************************************)
(* Sums over a finite set, taken member by member.                         *)
(***************************************************************************)

\* f gives every subset the sum of the values of its members.
Adds(f, S, value) ==
    /\ f \in [SUBSET S -> Nat] /\ f[{}] = 0
    /\ \A s \in SUBSET S : s # {} => f[s] = value[One(s)] + f[s \ {One(s)}]

\* Quotient and remainder.
LEMMA DivMod ==
  ASSUME NEW a \in Nat, NEW b \in Nat \ {0}, NEW q, q = a \div b, NEW r, r = a % b
  PROVE  a = b * q + r /\ r \in 0..(b - 1) /\ q \in Nat
<1>1. q \in Int /\ r \in 0..(b - 1) OBVIOUS
<1>2. r = a - b * q OBVIOUS
<1>3. b * q \in Int BY <1>1
<1>4. a = b * q + r BY <1>1, <1>2, <1>3
<1>5. q \in Nat
  <2> SUFFICES ASSUME q < 0 PROVE FALSE BY <1>1
  <2>1. b * q <= -b BY <1>1
  <2> QED BY <1>1, <1>2, <1>3, <2>1
<1> QED BY <1>1, <1>4, <1>5

\* One more member of a finite set.
LEMMA WithOne ==
  ASSUME NEW S, IsFiniteSet(S), NEW M, NEW s \in SUBSET S, s # {}
  PROVE  /\ Cardinality(M \cap s) \in Nat /\ Cardinality(M \cap (s \ {One(s)})) \in Nat
         /\ Cardinality(M \cap s) = Cardinality(M \cap (s \ {One(s)}))
                                    + (IF One(s) \in M THEN 1 ELSE 0)
<1> DEFINE x == One(s)
           A == M \cap (s \ {x})
<1>1. x \in s BY OneLess
<1>2. IsFiniteSet(s) BY SubsetSize
<1>3. IsFiniteSet(A) /\ IsFiniteSet(M \cap s)
  <2>1. A \subseteq s /\ M \cap s \subseteq s OBVIOUS
  <2> HIDE DEF A
  <2> QED BY <1>2, <2>1, FS_Subset
<1>4. Cardinality(A) \in Nat /\ Cardinality(M \cap s) \in Nat
  BY <1>3, FS_CardinalityType
<1>5. CASE x \in M
  <2>1. M \cap s = A \cup {x} /\ x \notin A BY <1>1, <1>5
  <2> HIDE DEF A, x
  <2>2. Cardinality(A \cup {x}) = Cardinality(A) + 1 BY <1>3, <2>1, FS_AddElement
  <2> QED BY <1>4, <1>5, <2>1, <2>2 DEF A, x
<1>6. CASE x \notin M
  <2>1. M \cap s = A BY <1>6
  <2> HIDE DEF A, x
  <2>2. Cardinality(M \cap s) = Cardinality(A) + 0 BY <1>4, <2>1
  <2> QED BY <1>4, <1>6, <2>1, <2>2 DEF A, x
<1> QED BY <1>5, <1>6

\* Counting things by what they have in common adds up to counting them.
LEMMA CountsAdd ==
  ASSUME NEW S, IsFiniteSet(S), NEW D, IsFiniteSet(D), NEW key \in [D -> S]
  PROVE  Adds([s \in SUBSET S |-> Cardinality({i \in D : key[i] \in s})], S,
              [k \in S |-> Cardinality({i \in D : key[i] = k})])
<1> DEFINE of(s) == {i \in D : key[i] \in s}
           with(k) == {i \in D : key[i] = k}
           f == [s \in SUBSET S |-> Cardinality(of(s))]
           value == [k \in S |-> Cardinality(with(k))]
<1>1. \A s : IsFiniteSet(of(s)) /\ Cardinality(of(s)) \in Nat
  <2> TAKE s
  <2>1. of(s) \subseteq D OBVIOUS
  <2> HIDE DEF of
  <2> QED BY <2>1, FS_Subset, FS_CardinalityType
<1>2. \A k : IsFiniteSet(with(k)) /\ Cardinality(with(k)) \in Nat
  <2> TAKE k
  <2>1. with(k) \subseteq D OBVIOUS
  <2> HIDE DEF with
  <2> QED BY <2>1, FS_Subset, FS_CardinalityType
<1>3. f \in [SUBSET S -> Nat]
  <2> HIDE DEF of
  <2> QED BY <1>1
<1>4. f[{}] = 0
  <2>1. of({}) = {} OBVIOUS
  <2> HIDE DEF of
  <2> QED BY <2>1, FS_EmptySet
<1>5. ASSUME NEW s \in SUBSET S, s # {}
      PROVE  f[s] = value[One(s)] + f[s \ {One(s)}]
  <2> DEFINE x == One(s)
  <2>1. x \in s /\ x \in S BY <1>5, OneLess
  <2>2. of(s) = with(x) \cup of(s \ {x}) /\ with(x) \cap of(s \ {x}) = {} BY <2>1
  <2> HIDE DEF of, with, x
  <2>3. Cardinality(with(x) \cup of(s \ {x}))
            = Cardinality(with(x)) + Cardinality(of(s \ {x})) - 0
    <3>1. IsFiniteSet(with(x)) /\ IsFiniteSet(of(s \ {x})) BY <1>1, <1>2
    <3>2. Cardinality(with(x) \cup of(s \ {x}))
            = Cardinality(with(x)) + Cardinality(of(s \ {x}))
              - Cardinality(with(x) \cap of(s \ {x}))
      BY <3>1, FS_Union
    <3>3. Cardinality(with(x) \cap of(s \ {x})) = 0
      <4>1. Cardinality({}) = 0 BY FS_EmptySet
      <4> QED BY <2>2, <4>1, Zenon
    <3> QED BY <3>2, <3>3, Zenon
  <2>4. Cardinality(of(s)) = Cardinality(with(x)) + Cardinality(of(s \ {x}))
    BY <1>1, <1>2, <2>2, <2>3
  <2>5. f[s] = Cardinality(of(s)) /\ f[s \ {x}] = Cardinality(of(s \ {x}))
        /\ value[x] = Cardinality(with(x))
    BY <2>1
  <2> QED BY <2>4, <2>5 DEF x
<1> HIDE DEF f, value
<1>6. Adds(f, S, value) BY <1>3, <1>4, <1>5 DEF Adds
<1> QED BY <1>6 DEF f, value, of, with

\* The share of each member of S in the limit, rounded down, and what is lost.
InShares(S, total, limit, size, whole, lost) ==
    \A k \in S : limit * size[k] = total * whole[k] + lost[k]

\* Largest-remainder allocation: only a share that was rounded down is rounded
\* up, as less than one sample was lost of each.
LEMMA OnlyLostIsMadeUp ==
  ASSUME NEW S, IsFiniteSet(S), NEW total \in Nat \ {0}, NEW limit \in Nat,
         NEW size \in [S -> Nat], NEW whole \in [S -> Nat],
         NEW lost \in [S -> 0..(total - 1)],
         InShares(S, total, limit, size, whole, lost),
         NEW all, Adds(all, S, size), all[S] = total,
         NEW sum, Adds(sum, S, whole),
         NEW more \in SUBSET S, Cardinality(more) = limit - sum[S],
         \A k \in more, l \in S \ more : lost[k] >= lost[l],
         NEW k \in more
  PROVE  lost[k] # 0
<1> SUFFICES ASSUME lost[k] = 0 PROVE FALSE
  OBVIOUS
<1> DEFINE M == more \ {k}
           T == {s \in SUBSET S : limit * all[s]
                                  <= total * sum[s] + (total - 1) * Cardinality(M \cap s)}
<1>1. \A l \in S : lost[l] \in Nat /\ lost[l] <= total - 1 OBVIOUS
<1>2. \A l \in S \ M : lost[l] = 0 BY <1>1
<1>3. {} \in T
  <2>1. all[{}] = 0 /\ sum[{}] = 0 BY DEF Adds
  <2>2. M \cap {} = {} OBVIOUS
  <2>3. Cardinality(M \cap {}) = 0 BY <2>2, FS_EmptySet, Zenon
  <2>4. limit * 0 = 0 /\ total * 0 = 0 /\ (total - 1) * 0 = 0 OBVIOUS
  <2>5. limit * 0 <= total * 0 + (total - 1) * 0 BY <2>4
  <2> HIDE DEF M
  <2>6. limit * all[{}] <= total * sum[{}] + (total - 1) * Cardinality(M \cap {})
    BY <2>1, <2>3, <2>5
  <2> QED BY <2>6
<1>4. ASSUME NEW s \in SUBSET S, s # {}, s \ {One(s)} \in T PROVE s \in T
  <2> DEFINE x == One(s)
             u == s \ {x}
             a == all[u]
             b == sum[u]
             c == Cardinality(M \cap u)
             d == IF x \in M THEN 1 ELSE 0
  <2>1. x \in S /\ u \in SUBSET S BY <1>4, OneLess
  <2>2. all[s] = size[x] + a /\ sum[s] = whole[x] + b BY <1>4 DEF Adds
  <2>3. Cardinality(M \cap s) = c + d /\ c \in Nat
    <3> HIDE DEF M, T, x, u, a, b, c, d
    <3>1. /\ Cardinality(M \cap (s \ {One(s)})) \in Nat
          /\ Cardinality(M \cap s) = Cardinality(M \cap (s \ {One(s)}))
                                     + (IF One(s) \in M THEN 1 ELSE 0)
      BY <1>4, WithOne
    <3> QED BY <3>1 DEF c, d, x, u
  <2>4. limit * a <= total * b + (total - 1) * c BY <1>4
  <2>5. a \in Nat /\ b \in Nat /\ size[x] \in Nat /\ whole[x] \in Nat
    BY <2>1 DEF Adds
  <2>6. limit * size[x] = total * whole[x] + lost[x] BY <2>1 DEF InShares
  <2>7. lost[x] \in Nat /\ lost[x] <= (total - 1) * d
    BY <1>1, <1>2, <2>1
  <2>8. d \in Nat OBVIOUS
  <2> HIDE DEF a, b, c, d, M, x, u
  <2>9. limit * (size[x] + a) = limit * size[x] + limit * a
    BY <2>5
  <2>10. total * (whole[x] + b) = total * whole[x] + total * b
    BY <2>5
  <2>11. (total - 1) * (c + d) = (total - 1) * c + (total - 1) * d
    BY <2>3, <2>8
  <2>12. limit * (size[x] + a) <= total * (whole[x] + b) + (total - 1) * (c + d)
    <3>1. /\ limit * size[x] \in Int /\ limit * a \in Int /\ total * whole[x] \in Int
          /\ total * b \in Int /\ (total - 1) * c \in Int /\ (total - 1) * d \in Int
      BY <2>3, <2>5, <2>8
    <3> QED BY <2>4, <2>6, <2>7, <2>9, <2>10, <2>11, <3>1
  <2> QED BY <2>2, <2>3, <2>12
<1>5. \A s \in SUBSET S : s \in T
  <2> HIDE DEF T
  <2> QED BY <1>3, <1>4, BySubset
<1>6. limit * total <= total * sum[S] + (total - 1) * Cardinality(M)
  <2>1. S \in T BY <1>5
  <2>2. M \cap S = M OBVIOUS
  <2>3. limit * all[S] <= total * sum[S] + (total - 1) * Cardinality(M \cap S) BY <2>1
  <2> QED BY <2>2, <2>3
<1> DEFINE r == Cardinality(more)
<1>7. r \in Nat \ {0} /\ Cardinality(M) = r - 1
  <2>1. IsFiniteSet(more) BY FS_Subset
  <2>2. Cardinality(M) = r - 1 BY <2>1, FS_RemoveElement
  <2>3. r \in Nat BY <2>1, FS_CardinalityType
  <2>4. r # 0 BY <2>1, FS_EmptySet
  <2> QED BY <2>2, <2>3, <2>4
<1>8. sum[S] \in Nat BY DEF Adds
<1>9. limit = r + sum[S] BY <1>7, <1>8
<1> HIDE DEF r, M
<1> DEFINE w == sum[S]
<1>10. w \in Nat /\ limit = r + w /\ limit * total <= total * w + (total - 1) * (r - 1)
  BY <1>6, <1>7, <1>8, <1>9
<1> HIDE DEF w
<1>11. limit * total = r * total + total * w BY <1>7, <1>10
<1>12. (total - 1) * (r - 1) = r * total - total - r + 1 BY <1>7
<1>13. r * total \in Int /\ total * w \in Int BY <1>7, <1>10
<1> QED BY <1>7, <1>10, <1>11, <1>12, <1>13

\* With what is left over, the quotas add up to the limit.
LEMMA QuotasAddUp ==
  ASSUME NEW S, IsFiniteSet(S), NEW whole \in [S -> Nat], NEW more \in SUBSET S,
         NEW sum, Adds(sum, S, whole),
         NEW quota, \A k \in S : quota[k] = whole[k] + (IF k \in more THEN 1 ELSE 0),
         NEW all, Adds(all, S, quota)
  PROVE  all[S] = sum[S] + Cardinality(more)
<1> DEFINE T == {s \in SUBSET S : all[s] = sum[s] + Cardinality(more \cap s)}
<1>1. {} \in T
  <2>1. all[{}] = 0 /\ sum[{}] = 0 BY DEF Adds
  <2>2. more \cap {} = {} OBVIOUS
  <2>3. Cardinality(more \cap {}) = 0 BY <2>2, FS_EmptySet, Zenon
  <2> QED BY <2>1, <2>3
<1>2. ASSUME NEW s \in SUBSET S, s # {}, s \ {One(s)} \in T PROVE s \in T
  <2> DEFINE x == One(s)
             u == s \ {x}
             d == IF x \in more THEN 1 ELSE 0
  <2>1. x \in S /\ u \in SUBSET S BY <1>2, OneLess
  <2>2. all[s] = quota[x] + all[u] /\ sum[s] = whole[x] + sum[u] BY <1>2 DEF Adds
  <2>3. Cardinality(more \cap s) = Cardinality(more \cap u) + d
        /\ Cardinality(more \cap u) \in Nat
    <3>1. /\ Cardinality(more \cap (s \ {One(s)})) \in Nat
          /\ Cardinality(more \cap s) = Cardinality(more \cap (s \ {One(s)}))
                                        + (IF One(s) \in more THEN 1 ELSE 0)
      <4> HIDE DEF T, x, u, d
      <4> QED BY <1>2, WithOne
    <3> QED BY <3>1
  <2>4. all[u] = sum[u] + Cardinality(more \cap u) BY <1>2
  <2>5. sum[u] \in Nat /\ whole[x] \in Nat /\ d \in Nat BY <2>1 DEF Adds
  <2>6. quota[x] = whole[x] + d BY <2>1
  <2> HIDE DEF d, u, x
  <2>7. all[s] = sum[s] + Cardinality(more \cap s)
    BY <2>2, <2>3, <2>4, <2>5, <2>6
  <2> QED BY <2>7
<1>3. \A s \in SUBSET S : s \in T
  <2> HIDE DEF T
  <2> QED BY <1>1, <1>2, BySubset
<1>4. all[S] = sum[S] + Cardinality(more \cap S) BY <1>3
<1>5. more \cap S = more OBVIOUS
<1> QED BY <1>4, <1>5, Zenon

------------------------------------------------------------------------------
(***************************************************************************)
(* Least and largest, one member less, and what stays where it was.        *)
(***************************************************************************)

\* The least member of a set of numbers is Min.
LEMMA MinIsMin ==
  ASSUME NEW S \in SUBSET Nat, S # {}
  PROVE  Min(S) \in S /\ \A k \in S : Min(S) <= k
<1>1. \E x \in S : \A y \in S : x <= y BY LeastOf
<1> QED BY <1>1 DEF Min

\* The largest of some numbers is Max.
LEMMA LargestIsMax ==
  ASSUME NEW S, NEW c \in S, \A x \in S : x \in Nat /\ x <= c
  PROVE  Max(S) = c
<1>1. \A y \in S : c >= y OBVIOUS
<1>2. Max(S) \in S /\ \A y \in S : Max(S) >= y BY <1>1 DEF Max
<1> QED BY <1>2

\* What is left of a sequence without its i-th member.
LEMMA RemoveAtIs ==
  ASSUME NEW X, NEW s \in Seq(X), NEW i \in 1..Len(s)
  PROVE  /\ RemoveAt(s, i) \in Seq(X)
         /\ Len(RemoveAt(s, i)) = Len(s) - 1
         /\ \A j \in 1..(Len(s) - 1) :
                RemoveAt(s, i)[j] = IF j < i THEN s[j] ELSE s[j + 1]
<1> DEFINE n == Len(s)
           u == SubSeq(s, 1, i - 1)
           v == SubSeq(s, i + 1, n)
<1>0. n \in Nat /\ i \in 1..n BY LenProperties
<1>1. u \in Seq(X) /\ Len(u) = i - 1 /\ \A j \in 1..(i - 1) : u[j] = s[j]
  <2>1. 0 \in 0..Len(s) /\ i - 1 \in 0..Len(s) BY <1>0
  <2>2. /\ SubSeq(s, 0 + 1, i - 1) \in Seq(X) /\ Len(SubSeq(s, 0 + 1, i - 1)) = (i - 1) - 0
        /\ \A j \in 1..((i - 1) - 0) : SubSeq(s, 0 + 1, i - 1)[j] = s[0 + j]
    BY <2>1, Stretch
  <2> QED BY <1>0, <2>2
<1>2. v \in Seq(X) /\ Len(v) = n - i /\ \A j \in 1..(n - i) : v[j] = s[i + j]
  <2>1. i \in 0..Len(s) /\ n \in i..Len(s) BY <1>0
  <2> QED BY <2>1, Stretch
<1> HIDE DEF u, v
<1>3. /\ u \o v \in Seq(X) /\ Len(u \o v) = Len(u) + Len(v)
      /\ \A j \in 1..(Len(u) + Len(v)) :
             (u \o v)[j] = IF j <= Len(u) THEN u[j] ELSE v[j - Len(u)]
  BY <1>1, <1>2, ConcatProperties
<1>4. RemoveAt(s, i) = u \o v BY DEF RemoveAt, u, v
<1>5. ASSUME NEW j \in 1..(n - 1) PROVE (u \o v)[j] = IF j < i THEN s[j] ELSE s[j + 1]
  <2>1. j \in 1..(Len(u) + Len(v)) BY <1>0, <1>1, <1>2
  <2>2. CASE j < i
    <3>1. j <= Len(u) /\ j \in 1..(i - 1) BY <1>0, <1>1, <2>2
    <3> QED BY <1>1, <1>3, <2>1, <2>2, <3>1
  <2>3. CASE ~(j < i)
    <3>1. ~(j <= Len(u)) /\ j - Len(u) \in 1..(n - i) /\ i + (j - Len(u)) = j + 1
      BY <1>0, <1>1, <2>3
    <3> QED BY <1>2, <1>3, <2>1, <2>3, <3>1
  <2> QED BY <2>2, <2>3
<1>6. Len(u \o v) = n - 1 BY <1>0, <1>1, <1>2, <1>3
<1> QED BY <1>3, <1>4, <1>5, <1>6

\* Two texts that agree up to b have the same stretches there.
LEMMA SameStretch ==
  ASSUME NEW X, NEW s \in Seq(X), NEW t \in Seq(X), NEW c \in Nat, c <= Len(s), c <= Len(t),
         \A p \in 1..c : s[p] = t[p], NEW a \in 0..c, NEW b \in a..c
  PROVE  SubSeq(s, a + 1, b) = SubSeq(t, a + 1, b)
<1>0. Len(s) \in Nat /\ Len(t) \in Nat BY LenProperties
<1>1. a \in 0..Len(s) /\ b \in a..Len(s) /\ a \in 0..Len(t) /\ b \in a..Len(t) /\ b - a \in Nat
  BY <1>0
<1> DEFINE x == SubSeq(s, a + 1, b)
           y == SubSeq(t, a + 1, b)
<1>2. x \in Seq(X) /\ Len(x) = b - a /\ \A j \in 1..(b - a) : x[j] = s[a + j]
  BY <1>1, Stretch
<1>3. y \in Seq(X) /\ Len(y) = b - a /\ \A j \in 1..(b - a) : y[j] = t[a + j]
  BY <1>1, Stretch
<1>4. \A j \in 1..(b - a) : a + j \in 1..c BY <1>0
<1>5. \A j \in 1..(b - a) : x[j] = y[j] BY <1>2, <1>3, <1>4
<1> HIDE DEF x, y
<1>6. x = y BY <1>2, <1>3, <1>5, SeqEqual
<1> QED BY <1>6 DEF x, y

\* SumFunction adds the values one by one.
LEMMA SumFunctionAdds ==
  ASSUME NEW S, IsFiniteSet(S), NEW value, DOMAIN value = S,
         \A k \in S : value[k] \in Nat, NEW f, Adds(f, S, value)
  PROVE  SumFunction(value) = f[S]
<1> DEFINE Iter(h) == [s \in SUBSET S |->
                        IF s = {} THEN 0 ELSE value[One(s)] + h[s \ {One(s)}]]
<1>1. f \in [SUBSET S -> Nat] /\ f[{}] = 0
      /\ \A s \in SUBSET S : s # {} => f[s] = value[One(s)] + f[s \ {One(s)}]
  BY DEF Adds
<1>2. f = Iter(f)
  <2>1. f = [s \in SUBSET S |-> f[s]] BY <1>1
  <2> QED BY <1>1, <2>1
<1> DEFINE it == CHOOSE h : h = Iter(h)
<1>3. it = Iter(it) BY <1>2
<1>4. SumFunction(value) = it[S]
  BY DEF SumFunction, SumFunctionOnSet, FoldFunctionOnSet, MapThenFoldSet, One
<1> HIDE DEF it
<1> DEFINE T == {s \in SUBSET S : it[s] = f[s]}
<1>5. {} \in T BY <1>1, <1>3
<1>6. ASSUME NEW s \in SUBSET S, s # {}, s \ {One(s)} \in T PROVE s \in T
  <2>1. it[s] = value[One(s)] + it[s \ {One(s)}] BY <1>3, <1>6
  <2>2. it[s \ {One(s)}] = f[s \ {One(s)}] BY <1>6
  <2> QED BY <1>1, <1>6, <2>1, <2>2
<1>7. \A s \in SUBSET S : s \in T
  <2> HIDE DEF T
  <2> QED BY <1>5, <1>6, BySubset
<1> QED BY <1>4, <1>7

------------------------------------------------------------------------------
(***************************************************************************)
(* Pairing two lists greedily. E relates the positions 1..n of one to the  *)
(* positions 1..k of the other; R[j] are the positions of the first that   *)
(* are taken after j of the second had their turn.                         *)
(***************************************************************************)
IsMatching(m) == \A e, f \in m : e # f => e[1] # f[1] /\ e[2] # f[2]

\* Every j takes the first position it is related to that is not taken yet.
Greedy(R, E, n, k) ==
    /\ R[0] = {}
    /\ \A j \in 1..k :
        \/ /\ R[j] = R[j - 1]
           /\ \A b \in 1..n : <<b, j>> \in E => b \in R[j - 1]
        \/ \E a \in (1..n) \ R[j - 1] :
              /\ <<a, j>> \in E
              /\ R[j] = R[j - 1] \cup {a}
              /\ \A b \in (1..n) \ R[j - 1] : <<b, j>> \in E => a <= b

\* What comes later in the second list does not go back in the first.
NotCrossed(E) == \A e, f \in E : f[2] < e[2] => f[1] <= e[1]

\* A set of the first numbers, up to i and one further.
LEMMA CountUpTo ==
  ASSUME NEW n \in Nat, NEW S \in SUBSET (1..n)
  PROVE  /\ \A i \in 0..n : IsFiniteSet(S \cap (1..i)) /\ Cardinality(S \cap (1..i)) \in Nat
         /\ \A i \in 1..n : i \in S =>
               Cardinality(S \cap (1..i)) = Cardinality(S \cap (1..(i - 1))) + 1
<1>1. ASSUME NEW i \in 0..n
      PROVE  IsFiniteSet(S \cap (1..i)) /\ Cardinality(S \cap (1..i)) \in Nat
  <2>1. IsFiniteSet(1..i) BY FS_Interval
  <2>2. S \cap (1..i) \subseteq 1..i OBVIOUS
  <2> QED BY <2>1, <2>2, FS_Subset, FS_CardinalityType
<1>2. ASSUME NEW i \in 1..n, i \in S
      PROVE  Cardinality(S \cap (1..i)) = Cardinality(S \cap (1..(i - 1))) + 1
  <2>1. S \cap (1..i) = (S \cap (1..(i - 1))) \cup {i} BY <1>2
  <2>2. i \notin S \cap (1..(i - 1)) OBVIOUS
  <2>3. IsFiniteSet(S \cap (1..(i - 1))) BY <1>1
  <2> QED BY <2>1, <2>2, <2>3, FS_AddElement
<1> QED BY <1>1, <1>2

\* No pairing takes more than the greedy one.
LEMMA GreedyIsBest ==
  ASSUME NEW n \in Nat, NEW k \in Nat, NEW E \in SUBSET ((1..n) \X (1..k)),
         NEW R \in [0..k -> SUBSET (1..n)], Greedy(R, E, n, k), NotCrossed(E),
         NEW m \in SUBSET E, IsMatching(m)
  PROVE  IsFiniteSet(m) /\ Cardinality(m) <= Cardinality(R[k])
<1> DEFINE In(x, i, j) == x \in SUBSET E /\ IsMatching(x)
                          /\ \A e \in x : e[1] \in 1..i /\ e[2] \in 1..j
           T == {j \in 0..k : \A i \in 0..n : \A x : In(x, i, j) =>
                    Cardinality(x) <= Cardinality(R[j] \cap (1..i))}
<1>1. \A x \in SUBSET E : IsFiniteSet(x) /\ Cardinality(x) \in Nat
  <2>0. IsFiniteSet(1..n) /\ IsFiniteSet(1..k) BY FS_Interval
  <2>1. IsFiniteSet((1..n) \X (1..k)) BY <2>0, FS_Product
  <2> QED BY <2>1, FS_Subset, FS_CardinalityType
<1>2. ASSUME NEW j \in 0..k, NEW i \in 0..n
      PROVE  IsFiniteSet(R[j] \cap (1..i)) /\ Cardinality(R[j] \cap (1..i)) \in Nat
  BY CountUpTo
<1>3. 0 \in T
  <2> SUFFICES ASSUME NEW i \in 0..n, NEW x, In(x, i, 0)
               PROVE  Cardinality(x) <= Cardinality(R[0] \cap (1..i))
    OBVIOUS
  <2>1. x = {} OBVIOUS
  <2>2. Cardinality(x) = 0 BY <2>1, FS_EmptySet
  <2>3. Cardinality(R[0] \cap (1..i)) \in Nat
    <3>1. 0 \in 0..k OBVIOUS
    <3> QED BY <1>2, <3>1
  <2> QED BY <2>2, <2>3
<1>4. ASSUME NEW j \in 1..k, j - 1 \in T PROVE j \in T
  <2> SUFFICES ASSUME NEW i \in 0..n, NEW x, In(x, i, j)
               PROVE  Cardinality(x) <= Cardinality(R[j] \cap (1..i))
    OBVIOUS
  <2>0. j \in 0..k /\ j - 1 \in 0..k OBVIOUS
  <2>1. R[j - 1] \subseteq R[j]
    <3>1. R[j] = R[j - 1] \/ \E a \in (1..n) \ R[j - 1] : R[j] = R[j - 1] \cup {a}
      BY Zenon DEF Greedy
    <3> QED BY <3>1, Zenon
  <2>2. Cardinality(R[j - 1] \cap (1..i)) <= Cardinality(R[j] \cap (1..i))
    <3>1. R[j - 1] \cap (1..i) \subseteq R[j] \cap (1..i) BY <2>1
    <3> QED BY <1>2, <2>0, <3>1, FS_Subset
  <2>3. CASE \A e \in x : e[2] # j
    <3>1. In(x, i, j - 1)
      <4>1. \A e \in x : e[2] \in 1..(j - 1) BY <2>3
      <4> QED BY <4>1
    <3>2. Cardinality(x) <= Cardinality(R[j - 1] \cap (1..i)) BY <1>4, <3>1
    <3>3. Cardinality(x) \in Nat BY <1>1
    <3>4. /\ Cardinality(R[j - 1] \cap (1..i)) \in Nat
          /\ Cardinality(R[j] \cap (1..i)) \in Nat
      BY <1>2, <2>0
    <3> HIDE DEF In
    <3> QED BY <2>2, <3>2, <3>3, <3>4
  <2>4. CASE \E e \in x : e[2] = j
    <3>1. PICK e \in x : e[2] = j BY <2>4
    <3> DEFINE a == e[1]
               y == x \ {e}
    <3>2. a \in 1..i /\ a \in 1..n /\ <<a, j>> = e /\ e \in E
      <4>1. e \in (1..n) \X (1..k) BY DEF In
      <4> QED BY <3>1, <4>1
    <3>3. y \in SUBSET E /\ IsMatching(y) BY DEF IsMatching
    <3>4. \A f \in y : f[1] \in 1..i /\ f[1] # a /\ f[2] \in 1..(j - 1)
      <4> SUFFICES ASSUME NEW f \in y PROVE f[1] \in 1..i /\ f[1] # a /\ f[2] \in 1..(j - 1)
        OBVIOUS
      <4>1. f[1] # e[1] /\ f[2] # e[2] BY DEF IsMatching
      <4>2. f[1] \in 1..i /\ f[2] \in 1..j OBVIOUS
      <4> QED BY <3>1, <4>1, <4>2
    <3>5. Cardinality(x) = Cardinality(y) + 1 /\ Cardinality(y) \in Nat
      <4>1. IsFiniteSet(x) /\ IsFiniteSet(y) BY <1>1, <3>3
      <4>2. x = y \cup {e} /\ e \notin y OBVIOUS
      <4> HIDE DEF y
      <4>3. Cardinality(y \cup {e}) = Cardinality(y) + 1 BY <4>1, <4>2, FS_AddElement
      <4>4. Cardinality(y) \in Nat BY <4>1, FS_CardinalityType
      <4> QED BY <4>2, <4>3, <4>4
    <3>6. CASE \E a0 \in (1..n) \ R[j - 1] : a0 <= i /\ R[j] = R[j - 1] \cup {a0}
      <4>1. PICK a0 \in (1..n) \ R[j - 1] : a0 <= i /\ R[j] = R[j - 1] \cup {a0}
        BY <3>6
      <4>2. Cardinality(y) <= Cardinality(R[j - 1] \cap (1..i))
        <5>1. In(y, i, j - 1) BY <3>3, <3>4
        <5> HIDE DEF In, y
        <5> QED BY <1>4, <5>1
      <4>3. Cardinality(R[j] \cap (1..i)) = Cardinality(R[j - 1] \cap (1..i)) + 1
        <5> DEFINE B == R[j - 1] \cap (1..i)
        <5>1. R[j] \cap (1..i) = B \cup {a0} /\ a0 \notin B BY <4>1
        <5>2. IsFiniteSet(B) BY <1>2, <2>0
        <5> HIDE DEF B
        <5>3. Cardinality(B \cup {a0}) = Cardinality(B) + 1 BY <5>1, <5>2, FS_AddElement
        <5> QED BY <5>1, <5>3 DEF B
      <4>4. Cardinality(R[j - 1] \cap (1..i)) \in Nat BY <1>2, <2>0
      <4> HIDE DEF y
      <4> QED BY <3>5, <4>2, <4>3, <4>4
    <3>7. CASE ~\E a0 \in (1..n) \ R[j - 1] : a0 <= i /\ R[j] = R[j - 1] \cup {a0}
      <4>1. a \in R[j - 1]
        <5>1. CASE \A b \in 1..n : <<b, j>> \in E => b \in R[j - 1]
          BY <3>2, <5>1
        <5>2. CASE \E a0 \in (1..n) \ R[j - 1] :
                       /\ <<a0, j>> \in E
                       /\ R[j] = R[j - 1] \cup {a0}
                       /\ \A b \in (1..n) \ R[j - 1] : <<b, j>> \in E => a0 <= b
          <6> SUFFICES ASSUME a \notin R[j - 1] PROVE FALSE
            OBVIOUS
          <6>1. PICK a0 \in (1..n) \ R[j - 1] :
                       /\ R[j] = R[j - 1] \cup {a0}
                       /\ \A b \in (1..n) \ R[j - 1] : <<b, j>> \in E => a0 <= b
            BY <5>2
          <6>2. a0 <= a BY <3>2, <6>1
          <6>3. a0 <= i
            <7> HIDE DEF a
            <7> QED BY <3>2, <6>2
          <6> QED BY <3>7, <6>1, <6>3
        <5> QED BY <5>1, <5>2 DEF Greedy
      <4>2. In(y, a - 1, j - 1)
        <5> SUFFICES ASSUME NEW f \in y PROVE f[1] \in 1..(a - 1)
          BY <3>3, <3>4
        <5>1. f[2] \in 1..(j - 1) /\ f[1] # a /\ f[1] \in 1..i /\ f \in E BY <3>3, <3>4
        <5>2. f[2] < e[2] BY <3>1, <5>1
        <5>3. f[1] <= a BY <3>2, <5>1, <5>2 DEF NotCrossed
        <5> HIDE DEF a
        <5> QED BY <3>2, <5>1, <5>3
      <4>3. a - 1 \in 0..n BY <3>2
      <4>4. Cardinality(y) <= Cardinality(R[j - 1] \cap (1..(a - 1)))
        <5> HIDE DEF In, y, a
        <5> QED BY <1>4, <4>2, <4>3
      <4>5. Cardinality(R[j - 1] \cap (1..a)) = Cardinality(R[j - 1] \cap (1..(a - 1))) + 1
        <5>1. R[j - 1] \in SUBSET (1..n) BY <2>0
        <5> HIDE DEF a
        <5> QED BY <3>2, <4>1, <5>1, CountUpTo
      <4>6. Cardinality(R[j - 1] \cap (1..a)) <= Cardinality(R[j - 1] \cap (1..i))
        <5>1. R[j - 1] \cap (1..a) \subseteq R[j - 1] \cap (1..i) BY <3>2
        <5> QED BY <1>2, <2>0, <5>1, FS_Subset
      <4>7. /\ Cardinality(R[j - 1] \cap (1..(a - 1))) \in Nat
            /\ Cardinality(R[j - 1] \cap (1..a)) \in Nat
            /\ Cardinality(R[j - 1] \cap (1..i)) \in Nat
            /\ Cardinality(R[j] \cap (1..i)) \in Nat
        <5> HIDE DEF a
        <5>1. a \in 0..n BY <3>2
        <5> QED BY <1>2, <2>0, <4>3, <5>1
      <4> HIDE DEF y, a
      <4> QED BY <2>2, <3>5, <4>4, <4>5, <4>6, <4>7
    <3> QED BY <3>6, <3>7
  <2> QED BY <2>3, <2>4
<1>5. k \in T
  <2> HIDE DEF T
  <2> QED BY <1>3, <1>4, UpTo
<1>6. In(m, n, k) OBVIOUS
<1>7. R[k] \cap (1..n) = R[k] OBVIOUS
<1>8. Cardinality(m) <= Cardinality(R[k] \cap (1..n))
  <2> HIDE DEF In
  <2> QED BY <1>5, <1>6
<1> QED BY <1>1, <1>7, <1>8

\* The greedy pairing is a pairing: everything it took has a partner.
LEMMA GreedyIsAMatching ==
  ASSUME NEW n \in Nat, NEW k \in Nat, NEW E \in SUBSET ((1..n) \X (1..k)),
         NEW R \in [0..k -> SUBSET (1..n)], Greedy(R, E, n, k)
  PROVE  \E m : m \in SUBSET E /\ IsMatching(m) /\ Cardinality(m) = Cardinality(R[k])
<1> DEFINE Good(m, j) ==
               /\ IsMatching(m) /\ IsFiniteSet(m)
               /\ Cardinality(m) = Cardinality(R[j])
               /\ \A e \in m : e[1] \in R[j] /\ e[2] \in 1..j
           T == {j \in 0..k : \E m \in SUBSET E : Good(m, j)}
<1>1. 0 \in T
  <2>1. Good({}, 0) BY FS_EmptySet DEF Greedy, IsMatching
  <2> HIDE DEF Good
  <2> QED BY <2>1
<1>2. ASSUME NEW j \in 1..k, j - 1 \in T PROVE j \in T
  <2>1. PICK m \in SUBSET E : Good(m, j - 1) BY <1>2
  <2>2. CASE R[j] = R[j - 1]
    <3>1. Good(m, j)
      <4>1. 1..(j - 1) \subseteq 1..j OBVIOUS
      <4> QED BY <2>1, <2>2, <4>1
    <3> HIDE DEF Good
    <3> QED BY <3>1
  <2>3. CASE \E a \in (1..n) \ R[j - 1] : <<a, j>> \in E /\ R[j] = R[j - 1] \cup {a}
    <3>1. PICK a \in (1..n) \ R[j - 1] : <<a, j>> \in E /\ R[j] = R[j - 1] \cup {a}
      BY <2>3
    <3> DEFINE e == <<a, j>>
               x == m \cup {e}
    <3>2. \A f \in m : f[1] # a /\ f[2] # j BY <2>1, <3>1
    <3>3. IsMatching(x)
      <4> SUFFICES ASSUME NEW f \in x, NEW g \in x, f # g
                   PROVE  f[1] # g[1] /\ f[2] # g[2]
        BY DEF IsMatching
      <4>1. e[1] = a /\ e[2] = j OBVIOUS
      <4>2. CASE f \in m /\ g \in m BY <2>1, <4>2 DEF IsMatching
      <4>3. CASE f = e /\ g \in m BY <3>2, <4>1, <4>3
      <4>4. CASE f \in m /\ g = e BY <3>2, <4>1, <4>4
      <4> QED BY <4>2, <4>3, <4>4
    <3>4. IsFiniteSet(x) /\ Cardinality(x) = Cardinality(m) + 1
      <4>1. e \notin m BY <3>2
      <4>2. IsFiniteSet(m) BY <2>1
      <4> HIDE DEF e
      <4> QED BY <4>1, <4>2, FS_AddElement
    <3>5. Cardinality(R[j]) = Cardinality(R[j - 1]) + 1
      <4>1. j - 1 \in 0..k OBVIOUS
      <4>2. R[j - 1] \in SUBSET (1..n) BY <4>1
      <4>3. IsFiniteSet(R[j - 1])
        <5>1. IsFiniteSet(1..n) BY FS_Interval
        <5> QED BY <4>2, <5>1, FS_Subset
      <4> QED BY <3>1, <4>3, FS_AddElement
    <3>6. \A f \in x : f[1] \in R[j] /\ f[2] \in 1..j BY <2>1, <3>1
    <3>7. Good(x, j) BY <2>1, <3>3, <3>4, <3>5, <3>6
    <3>8. x \in SUBSET E BY <3>1
    <3> HIDE DEF Good, x
    <3> QED BY <3>7, <3>8
  <2> QED BY <2>2, <2>3 DEF Greedy
<1>3. k \in T
  <2> HIDE DEF T
  <2> QED BY <1>1, <1>2, UpTo
<1> QED BY <1>3
=============================================================================
