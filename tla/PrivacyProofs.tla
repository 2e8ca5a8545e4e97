--------------------------- MODULE PrivacyProofs ---------------------------
(***************************************************************************)
(* Proofs about Sanitizer and PrivacyEvaluation, for every batch, every    *)
(* answer of the analyzer and every template. Merging leaves spans that do *)
(* not overlap and cover what the findings cover (first part), a free      *)
(* number always exists (second), replacing the spans from the last to the *)
(* first masks exactly what they cover (third), and the actions keep the   *)
(* invariant (fourth). Spans that follow each other are paired with the    *)
(* labels as well as any pairing could (fifth), the rows of the table add  *)
(* up (sixth), the labels of a built document stand where the values went  *)
(* (seventh), and so the table and the list of misses say what the judge   *)
(* would have seen (last). The loops of the code are folds, and what they  *)
(* establish is shown along the steps of the fold with FoldTheorems.       *)
(***************************************************************************)
EXTENDS PrivacyEvaluation, FoldTheorems

\* One step of the merge gives a list of spans again.
LEMMA SpanIn == ASSUME NEW merged \in Seq(Span), NEW span \in Span
  PROVE  Extend(merged, span) \in Seq(Span)
<1>1. CASE merged = <<>> \/ span.start >= Last(merged).end
  BY <1>1, AppendProperties DEF Extend
<1>2. CASE ~(merged = <<>> \/ span.start >= Last(merged).end)
  <2>1. Len(merged) \in Nat \ {0} BY <1>2, EmptySeq
  <2>2. Last(merged) \in Span BY <2>1, ElementOfSeq DEF Last
  <2>3. Front(merged) \in Seq(Span) BY <2>1, SubSeqProperties, ElementOfSeq DEF Front
  <2>4. Union2(Last(merged), span) \in Span BY <2>2 DEF Union2, Span
  <2> QED BY <1>2, <2>3, <2>4, AppendProperties DEF Extend
<1> QED BY <1>1, <1>2

\* Merge runs through the spans in order, each extending what came before.
LEMMA MergeStep ==
  ASSUME NEW ordered \in Seq(Span)
  PROVE  \E f \in [0..Len(ordered) -> Seq(Span)] :
             /\ f[0] = <<>>
             /\ \A i \in 1..Len(ordered) : f[i] = Extend(f[i - 1], ordered[i])
             /\ Merge(ordered) = f[Len(ordered)]
<1> DEFINE n == Len(ordered)
           X == Seq(Span)
           g == [p \in (1..n) \X X |-> Extend(p[2], ordered[p[1]])]
           Iter(f) == [s \in SUBSET DOMAIN ordered |->
                        IF s = {} THEN <<>>
                        ELSE Extend(f[s \ {Max(s)}], ordered[Max(s)])]
<1>0. n \in Nat /\ DOMAIN ordered = 1..n /\ <<>> \in X
  BY LenProperties, EmptySeq
<1>1. g \in [(1..n) \X X -> X]
  BY SpanIn, ElementOfSeq
<1>2. \A i \in 1..n, m \in X : g[<<i, m>>] = Extend(m, ordered[i])
  OBVIOUS
<1> HIDE DEF g, X, n
<1>3. PICK f \in [SUBSET (1..n) -> X] : BySets(f, n, <<>>, g)
  BY <1>0, <1>1, SetBySet
<1>4. ASSUME NEW s \in SUBSET (1..n), s # {}
      PROVE  g[<<Max(s), f[s \ {Max(s)}]>>] = Extend(f[s \ {Max(s)}], ordered[Max(s)])
  BY <1>0, <1>2, <1>4, MaxIn
<1>5. f = Iter(f)
  BY <1>0, <1>3, <1>4 DEF BySets
<1> DEFINE it == CHOOSE h : h = Iter(h)
<1>6. it = Iter(it)
  BY <1>5
<1>7. Merge(ordered) = it[DOMAIN ordered]
  BY DEF Merge, FoldLeft, MapThenFoldSet
<1> HIDE DEF it
<1>8. it[{}] = <<>>
  BY <1>6
<1>9. ASSUME NEW s \in SUBSET (1..n), s # {}
      PROVE  it[s] = Extend(it[s \ {Max(s)}], ordered[Max(s)])
  BY <1>0, <1>6, <1>9
<1> DEFINE h == [i \in 0..n |-> it[1..i]]
<1>10. h[0] = <<>>
  <2>1. 1..0 = {} /\ 0 \in 0..n BY <1>0
  <2>2. h[0] = it[1..0] BY <2>1
  <2> HIDE DEF h
  <2> QED BY <1>8, <2>1, <2>2
<1>11. ASSUME NEW i \in 1..n PROVE h[i] = Extend(h[i - 1], ordered[i])
  <2>1. 1..i \in SUBSET (1..n) /\ i \in 1..i BY <1>0
  <2>2. Max(1..i) = i BY <1>0, MaxOfFirst
  <2>3. (1..i) \ {i} = 1..(i - 1) BY <1>0
  <2>4. h[i] = it[1..i] /\ h[i - 1] = it[1..(i - 1)] BY <1>0
  <2>5. it[1..i] = Extend(it[(1..i) \ {i}], ordered[i]) BY <1>9, <2>1, <2>2
  <2> HIDE DEF h
  <2> QED BY <2>3, <2>4, <2>5
<1>12. Merge(ordered) = h[n]
  BY <1>0, <1>7
<1> HIDE DEF h
<1>13. \A i \in 0..n : h[i] \in X
  <2> DEFINE T == {i \in 0..n : h[i] \in X}
  <2>1. 0 \in T BY <1>0, <1>10
  <2>2. ASSUME NEW i \in 1..n, i - 1 \in T PROVE i \in T
    <3>1. Extend(h[i - 1], ordered[i]) \in X
      BY <2>2, SpanIn, ElementOfSeq DEF X, n
    <3> QED BY <1>0, <1>11, <3>1
  <2> HIDE DEF T
  <2>3. \A i \in 0..n : i \in T BY <1>0, <2>1, <2>2, UpTo
  <2> QED BY <2>3 DEF T
<1>14. h \in [0..n -> X] BY <1>13 DEF h
<1> QED BY <1>10, <1>11, <1>12, <1>14 DEF X, n

------------------------------------------------------------------------------
Below(spans, positions, i) == {j \in positions : Earlier(spans, j, i)}

Rank(spans, positions) == [i \in positions |-> Cardinality(Below(spans, positions, i))]

\* Sorting by (start, end, position) orders the findings totally.
LEMMA EarlierIsAnOrder ==
  ASSUME NEW spans \in Seq(Span)
  PROVE  /\ \A i, j \in DOMAIN spans :
              i # j => Earlier(spans, i, j) \/ Earlier(spans, j, i)
         /\ \A i \in DOMAIN spans : ~Earlier(spans, i, i)
         /\ \A i, j, k \in DOMAIN spans :
              Earlier(spans, i, j) /\ Earlier(spans, j, k) => Earlier(spans, i, k)
<1>1. \A i \in DOMAIN spans :
          i \in Nat /\ spans[i].start \in Int /\ spans[i].end \in Int
  <2>1. DOMAIN spans = 1..Len(spans) /\ Len(spans) \in Nat BY LenProperties
  <2>2. \A i \in DOMAIN spans : spans[i] \in Span BY <2>1, ElementOfSeq
  <2> QED BY <2>1, <2>2 DEF Span
<1> QED BY <1>1 DEF Earlier

\* Every place in the sorted list is taken by exactly one finding.
LEMMA RankIsABijection ==
  ASSUME NEW spans \in Seq(Span), NEW positions \in SUBSET DOMAIN spans
  PROVE  /\ IsFiniteSet(positions) /\ Cardinality(positions) \in Nat
         /\ \A i, j \in positions : Earlier(spans, i, j) =>
                 Rank(spans, positions)[i] < Rank(spans, positions)[j]
         /\ Rank(spans, positions) \in [positions -> 0..(Cardinality(positions) - 1)]
         /\ \A m \in 0..(Cardinality(positions) - 1) :
                 \E i \in positions : Rank(spans, positions)[i] = m
<1> DEFINE R == {p \in positions \X positions : Earlier(spans, p[1], p[2])}
<1>1. IsFiniteSet(positions)
  <2>1. IsFiniteSet(1..Len(spans)) BY LenProperties, FS_Interval
  <2> QED BY <2>1, LenProperties, FS_Subset
<1>2. \A i, j \in positions : <<i, j>> \in R <=> Earlier(spans, i, j)
  OBVIOUS
<1> HIDE DEF R
<1>3. /\ \A i, j \in positions : i # j => <<i, j>> \in R \/ <<j, i>> \in R
      /\ \A i \in positions : <<i, i>> \notin R
      /\ \A i, j, k \in positions : <<i, j>> \in R /\ <<j, k>> \in R => <<i, k>> \in R
  BY <1>2, EarlierIsAnOrder
<1>4. \A i \in positions : {j \in positions : <<j, i>> \in R} = Below(spans, positions, i)
  BY <1>2 DEF Below
<1>5. Places(positions, R) = Rank(spans, positions)
  BY <1>4 DEF Places, Rank
<1>6. /\ Cardinality(positions) \in Nat
      /\ \A i, j \in positions :
             <<i, j>> \in R => Places(positions, R)[i] < Places(positions, R)[j]
      /\ Places(positions, R) \in [positions -> 0..(Cardinality(positions) - 1)]
      /\ \A m \in 0..(Cardinality(positions) - 1) :
             \E i \in positions : Places(positions, R)[i] = m
  BY <1>1, <1>3, PlacesAreABijection
<1> QED BY <1>1, <1>2, <1>5, <1>6

\* What a scan hands to _merge_overlapping_spans: the findings in the text,
\* each of them, by their starts.
LEMMA OrderedIsSorted ==
  ASSUME NEW spans \in Seq(Span), NEW positions \in SUBSET DOMAIN spans,
         NEW ordered, ordered = Ordered(spans, positions)
  PROVE  /\ ordered \in Seq(Span)
         /\ \A n \in DOMAIN ordered : \E i \in positions : ordered[n] = spans[i]
         /\ \A i \in positions : \E n \in DOMAIN ordered : ordered[n] = spans[i]
         /\ \A m, n \in DOMAIN ordered : m < n => ordered[m].start <= ordered[n].start
<1> DEFINE r == Rank(spans, positions)
           c == Cardinality(positions)
           at(n) == CHOOSE i \in positions :
                        Cardinality({j \in positions : Earlier(spans, j, i)}) = n - 1
<1>1. /\ c \in Nat
      /\ \A i, j \in positions : Earlier(spans, i, j) => r[i] < r[j]
      /\ r \in [positions -> 0..(c - 1)]
      /\ \A m \in 0..(c - 1) : \E i \in positions : r[i] = m
  BY RankIsABijection
<1>2. ordered = [n \in 1..c |-> spans[at(n)]]
  BY DEF Ordered
<1>0. \A i \in positions :
          r[i] = Cardinality({j \in positions : Earlier(spans, j, i)})
  BY DEF Rank, Below
<1> HIDE DEF r, c
<1>3. \A n \in 1..c : at(n) \in positions /\ r[at(n)] = n - 1
  <2> SUFFICES ASSUME NEW n \in 1..c PROVE at(n) \in positions /\ r[at(n)] = n - 1
    OBVIOUS
  <2>1. n - 1 \in 0..(c - 1) BY <1>1
  <2> QED BY <1>0, <1>1, <2>1
<1> HIDE DEF at
<1>4. DOMAIN ordered = 1..c /\ \A n \in 1..c : ordered[n] = spans[at(n)]
  BY <1>2
<1>5. \A i \in positions : spans[i] \in Span
  BY LenProperties, ElementOfSeq
<1>6. ordered \in Seq(Span)
  <2>1. \A n \in 1..c : spans[at(n)] \in Span BY <1>3, <1>5
  <2> QED BY <1>1, <1>2, <2>1, IsASeq
<1>7. ASSUME NEW i \in positions PROVE \E n \in DOMAIN ordered : ordered[n] = spans[i]
  <2>1. r[i] + 1 \in 1..c /\ r[i] \in Nat BY <1>1
  <2>2. r[at(r[i] + 1)] = r[i] /\ at(r[i] + 1) \in positions BY <1>3, <2>1
  <2>3. at(r[i] + 1) = i
    <3>1. ~Earlier(spans, at(r[i] + 1), i) /\ ~Earlier(spans, i, at(r[i] + 1))
      BY <1>1, <2>1, <2>2
    <3> QED BY <2>2, <3>1, EarlierIsAnOrder
  <2> QED BY <1>4, <2>1, <2>3
<1>8. ASSUME NEW m \in 1..c, NEW n \in 1..c, m < n
      PROVE  ordered[m].start <= ordered[n].start
  <2>1. at(m) \in positions /\ at(n) \in positions BY <1>3
  <2>2. r[at(m)] = m - 1 /\ r[at(n)] = n - 1 BY <1>3
  <2>3. ~Earlier(spans, at(n), at(m))
    <3>1. ~(r[at(n)] < r[at(m)]) BY <1>1, <1>8, <2>2
    <3> QED BY <1>1, <2>1, <3>1
  <2>4. at(m) # at(n) BY <1>1, <1>8, <2>2
  <2>5. Earlier(spans, at(m), at(n)) BY <2>1, <2>3, <2>4, EarlierIsAnOrder
  <2>6. spans[at(m)].start \in Int /\ spans[at(n)].start \in Int
    BY <1>5, <2>1 DEF Span
  <2> QED BY <1>4, <2>5, <2>6 DEF Earlier
<1> QED BY <1>3, <1>4, <1>6, <1>7, <1>8

------------------------------------------------------------------------------
(***************************************************************************)
(* _merge_overlapping_spans.                                               *)
(***************************************************************************)

\* A span of a text with that many tokens, and the tokens it covers.
Lies(span, size) ==
    span \in Span /\ 0 <= span.start /\ span.start < span.end /\ span.end <= size

Hits(span, p) == span.start < p /\ p <= span.end

\* Spans of a text that come one after the other and do not overlap.
Neat(spans, size) ==
    /\ spans \in Seq(Span)
    /\ \A n \in 1..Len(spans) : Lies(spans[n], size)
    /\ \A m, n \in 1..Len(spans) : m < n => spans[m].end <= spans[n].start

Covers(spans, p) == \E n \in 1..Len(spans) : Hits(spans[n], p)

\* The union of two overlapping spans covers what both cover, no more.
LEMMA UnionLies ==
  ASSUME NEW size \in Nat, NEW current, NEW candidate,
         Lies(current, size), Lies(candidate, size),
         current.start <= candidate.start, candidate.start < current.end
  PROVE  /\ Lies(Union2(current, candidate), size)
         /\ Union2(current, candidate).start = current.start
         /\ \A p \in Int : Hits(Union2(current, candidate), p)
                               <=> Hits(current, p) \/ Hits(candidate, p)
<1>1. /\ current.start \in Int /\ current.end \in Int /\ current.score \in Nat
      /\ candidate.start \in Int /\ candidate.end \in Int /\ candidate.score \in Nat
      /\ current.type \in EntityTypes /\ candidate.type \in EntityTypes
  BY DEF Lies, Span
<1>2. /\ Union2(current, candidate).start = current.start
      /\ Union2(current, candidate).end
             = IF candidate.end > current.end THEN candidate.end ELSE current.end
      /\ Union2(current, candidate) \in Span
  BY <1>1 DEF Union2, Span
<1> QED BY <1>1, <1>2 DEF Lies, Hits

\* One more finding, in order: the merged spans stay apart and cover it too.
LEMMA ExtendStaysNeat ==
  ASSUME NEW size \in Nat, NEW merged, Neat(merged, size),
         NEW candidate, Lies(candidate, size),
         merged # <<>> => merged[Len(merged)].start <= candidate.start,
         NEW result, result = Extend(merged, candidate)
  PROVE  /\ Neat(result, size)
         /\ result # <<>>
         /\ result[Len(result)].start <= candidate.start
         /\ \A p \in Int : Covers(result, p) <=> Covers(merged, p) \/ Hits(candidate, p)
<1> DEFINE k == Len(merged)
<1>0. merged \in Seq(Span) /\ k \in Nat /\ candidate \in Span
  BY LenProperties DEF Neat, Lies
<1>1. CASE merged = <<>> \/ candidate.start >= Last(merged).end
  <2>1. result = Append(merged, candidate) BY <1>1 DEF Extend
  <2>2. /\ result \in Seq(Span) /\ result # <<>> /\ Len(result) = k + 1
        /\ \A i \in 1..k : result[i] = merged[i]
        /\ result[k + 1] = candidate
    BY <1>0, <2>1, AppendProperties
  <2>3. \A n \in 1..k : merged[n].end <= candidate.start
    <3> SUFFICES ASSUME NEW n \in 1..k PROVE merged[n].end <= candidate.start
      OBVIOUS
    <3>1. merged # <<>> /\ k \in 1..k BY <1>0, EmptySeq
    <3>2. merged[k].end <= candidate.start BY <1>0, <1>1, <3>1 DEF Last, Span, Lies, Neat
    <3>3. CASE n = k BY <3>2, <3>3
    <3>4. CASE n < k
      <4>1. merged[n].end <= merged[k].start BY <3>1, <3>4 DEF Neat
      <4>2. merged[k].start < merged[k].end BY <3>1 DEF Neat, Lies
      <4>3. merged[n].end \in Int /\ merged[k].start \in Int /\ merged[k].end \in Int
            /\ candidate.start \in Int
        BY <3>1 DEF Neat, Lies, Span
      <4> QED BY <3>2, <4>1, <4>2, <4>3
    <3> QED BY <1>0, <3>3, <3>4
  <2>4. Neat(result, size)
    <3> HIDE DEF k
    <3>1. \A n \in 1..(k + 1) : n \in 1..k \/ n = k + 1 BY <1>0
    <3>2. \A n \in 1..(k + 1) : Lies(result[n], size)
      BY <2>2, <3>1 DEF Neat, k
    <3>3. ASSUME NEW m \in 1..(k + 1), NEW n \in 1..(k + 1), m < n
          PROVE  result[m].end <= result[n].start
      <4>1. m \in 1..k BY <1>0, <3>3
      <4>2. CASE n \in 1..k BY <2>2, <3>3, <4>1, <4>2 DEF Neat, k
      <4>3. CASE n = k + 1 BY <2>2, <2>3, <4>1, <4>3
      <4> QED BY <3>1, <4>2, <4>3
    <3> QED BY <2>2, <3>2, <3>3 DEF Neat
  <2>5. result[Len(result)].start <= candidate.start
    BY <2>2 DEF Lies, Span
  <2>6. ASSUME NEW p \in Int
        PROVE  Covers(result, p) <=> Covers(merged, p) \/ Hits(candidate, p)
    <3> HIDE DEF k
    <3>1. \A n \in 1..(k + 1) : n \in 1..k \/ n = k + 1 BY <1>0
    <3>2. k + 1 \in 1..(k + 1) /\ \A n \in 1..k : n \in 1..(k + 1) BY <1>0
    <3> QED BY <2>2, <3>1, <3>2 DEF Covers, k
  <2> QED BY <2>2, <2>4, <2>5, <2>6
<1>2. CASE ~(merged = <<>> \/ candidate.start >= Last(merged).end)
  <2> DEFINE u == Union2(merged[k], candidate)
  <2>1. k \in 1..k BY <1>0, <1>2, EmptySeq
  <2>2. Lies(merged[k], size) /\ merged[k].start <= candidate.start
        /\ candidate.start < merged[k].end
    <3>1. Lies(merged[k], size) BY <2>1 DEF Neat
    <3> QED BY <1>0, <1>2, <3>1 DEF Last, Lies, Span
  <2>3. /\ Lies(u, size) /\ u.start = merged[k].start
        /\ \A p \in Int : Hits(u, p) <=> Hits(merged[k], p) \/ Hits(candidate, p)
    <3> HIDE DEF k
    <3> QED BY <2>2, UnionLies
  <2>4. /\ Front(merged) \in Seq(Span) /\ Len(Front(merged)) = k - 1
        /\ \A i \in 1..(k - 1) : Front(merged)[i] = merged[i]
    <3>1. \A i \in 1..(k - 1) : merged[i] \in Span BY <1>0, ElementOfSeq
    <3> HIDE DEF k
    <3>2. Front(merged) = SubSeq(merged, 1, k - 1) BY DEF Front, k
    <3>3. 1 \in Int /\ k - 1 \in Int /\ (k - 1) - 1 + 1 = k - 1
          /\ (1 <= k - 1 \/ k - 1 = 0) /\ \A i \in Int : 1 + i - 1 = i
      BY <1>0, <2>1
    <3>4. /\ SubSeq(merged, 1, k - 1) \in Seq(Span)
          /\ Len(SubSeq(merged, 1, k - 1)) = IF 1 <= k - 1 THEN (k - 1) - 1 + 1 ELSE 0
          /\ \A i \in 1..((k - 1) - 1 + 1) :
                 SubSeq(merged, 1, k - 1)[i] = merged[1 + i - 1]
      BY <3>1, <3>3, SubSeqProperties
    <3> QED BY <3>2, <3>3, <3>4
  <2> HIDE DEF u
  <2>5. result = Append(Front(merged), u) BY <1>2 DEF Extend, Last, u
  <2>6. /\ result \in Seq(Span) /\ result # <<>> /\ Len(result) = k
        /\ \A i \in 1..(k - 1) : result[i] = merged[i]
        /\ result[k] = u
    <3>1. u \in Span BY <2>3 DEF Lies
    <3>2. (k - 1) + 1 = k BY <1>0
    <3> HIDE DEF k
    <3> QED BY <2>4, <2>5, <3>1, <3>2, AppendProperties
  <2> HIDE DEF k
  <2>7. \A n \in 1..k : n \in 1..(k - 1) \/ n = k BY <1>0
  <2>8. Neat(result, size)
    <3>2. \A n \in 1..k : Lies(result[n], size)
      BY <2>3, <2>6, <2>7 DEF Neat, k
    <3>3. ASSUME NEW m \in 1..k, NEW n \in 1..k, m < n
          PROVE  result[m].end <= result[n].start
      <4>1. m \in 1..(k - 1) BY <1>0, <3>3
      <4>2. merged[m].end <= merged[n].start BY <3>3 DEF Neat, k
      <4>3. result[n].start = merged[n].start BY <2>3, <2>6, <2>7
      <4> QED BY <2>6, <4>1, <4>2, <4>3
    <3> QED BY <2>6, <3>2, <3>3 DEF Neat
  <2>9. result[Len(result)].start <= candidate.start
    BY <2>2, <2>3, <2>6
  <2>10. ASSUME NEW p \in Int
         PROVE  Covers(result, p) <=> Covers(merged, p) \/ Hits(candidate, p)
    <3>1. Covers(result, p) <=> Hits(u, p) \/ \E n \in 1..(k - 1) : Hits(merged[n], p)
      BY <1>0, <2>1, <2>6, <2>7 DEF Covers
    <3>2. Covers(merged, p) <=> Hits(merged[k], p) \/ \E n \in 1..(k - 1) : Hits(merged[n], p)
      BY <1>0, <2>1, <2>7 DEF Covers, k
    <3> QED BY <2>3, <3>1, <3>2
  <2> QED BY <2>6, <2>8, <2>9, <2>10
<1> QED BY <1>1, <1>2

\* _merge_overlapping_spans over a sorted list.
LEMMA MergeIsNeat ==
  ASSUME NEW size \in Nat, NEW ordered \in Seq(Span),
         \A n \in 1..Len(ordered) : Lies(ordered[n], size),
         \A m, n \in 1..Len(ordered) : m < n => ordered[m].start <= ordered[n].start
  PROVE  /\ Neat(Merge(ordered), size)
         /\ \A p \in Int : Covers(Merge(ordered), p) <=> Covers(ordered, p)
<1> DEFINE k == Len(ordered)
           Behind(i, merged) ==
               /\ Neat(merged, size)
               /\ merged # <<>> => i > 0 /\ merged[Len(merged)].start <= ordered[i].start
               /\ \A p \in Int : Covers(merged, p)
                                   <=> \E n \in 1..i : Hits(ordered[n], p)
<1>1. PICK f \in [0..k -> Seq(Span)] :
             /\ f[0] = <<>>
             /\ \A i \in 1..k : f[i] = Extend(f[i - 1], ordered[i])
             /\ Merge(ordered) = f[k]
  BY MergeStep
<1>2. k \in Nat BY LenProperties
<1> DEFINE T == {i \in 0..k : Behind(i, f[i])}
<1>3. 0 \in T
  <2>1. <<>> \in Seq(Span) /\ Len(<<>>) = 0 BY EmptySeq
  <2> QED BY <1>1, <1>2, <2>1 DEF Neat, Covers
<1>4. ASSUME NEW i \in 1..k, i - 1 \in T PROVE i \in T
  <2>1. Behind(i - 1, f[i - 1]) /\ f[i] = Extend(f[i - 1], ordered[i])
    BY <1>1, <1>4
  <2>2. Lies(ordered[i], size) OBVIOUS
  <2>3. f[i - 1] # <<>> => f[i - 1][Len(f[i - 1])].start <= ordered[i].start
    <3> HAVE f[i - 1] # <<>>
    <3>1. i - 1 \in 1..k /\ i - 1 < i BY <1>2, <2>1
    <3>2. ordered[i - 1].start <= ordered[i].start BY <3>1
    <3>3. ordered[i - 1].start \in Int /\ ordered[i].start \in Int
      BY <3>1 DEF Lies, Span
    <3>4. f[i - 1] \in Seq(Span) /\ Len(f[i - 1]) \in 1..Len(f[i - 1])
      BY <2>1, EmptySeq, LenProperties DEF Neat
    <3>5. f[i - 1][Len(f[i - 1])] \in Span BY <3>4, ElementOfSeq
    <3>6. f[i - 1][Len(f[i - 1])].start <= ordered[i - 1].start
      BY <2>1
    <3>7. f[i - 1][Len(f[i - 1])].start \in Int BY <3>5 DEF Span
    <3> HIDE DEF Behind, T, k
    <3> QED BY <3>2, <3>3, <3>6, <3>7
  <2>4. /\ Neat(f[i], size)
        /\ f[i] # <<>>
        /\ f[i][Len(f[i])].start <= ordered[i].start
        /\ \A p \in Int : Covers(f[i], p) <=> Covers(f[i - 1], p) \/ Hits(ordered[i], p)
    <3> HIDE DEF k
    <3> QED BY <2>1, <2>2, <2>3, ExtendStaysNeat
  <2>5. ASSUME NEW p \in Int
        PROVE  Covers(f[i], p) <=> \E n \in 1..i : Hits(ordered[n], p)
    <3>1. \A n \in 1..i : n \in 1..(i - 1) \/ n = i BY <1>2
    <3>2. i \in 1..i /\ \A n \in 1..(i - 1) : n \in 1..i BY <1>2
    <3> QED BY <2>1, <2>4, <3>1, <3>2
  <2>6. i \in 0..k /\ i > 0 BY <1>2
  <2> HIDE DEF k
  <2> QED BY <2>4, <2>5, <2>6
<1>5. \A i \in 0..k : i \in T
  <2> HIDE DEF T, k
  <2> QED BY <1>2, <1>3, <1>4, UpTo
<1>6. Behind(k, f[k]) BY <1>2, <1>5
<1> QED BY <1>1, <1>6 DEF Covers

\* "Merge overlaps so a lower-priority overlap cannot leave part of PII
\* exposed": what is to be masked of a text is exactly what some finding in it
\* covers, in spans that do not overlap.
LEMMA DetectedIsNeat ==
  ASSUME NEW spans \in Seq(Span), NEW text \in Seq(Token),
         NEW merged, merged = Merge(Ordered(spans, InText(spans, text)))
  PROVE  /\ Neat(merged, Len(text))
         /\ \A p \in Int : Covers(merged, p)
                             <=> \E n \in InText(spans, text) : Hits(spans[n], p)
<1> DEFINE ordered == Ordered(spans, InText(spans, text))
           size == Len(text)
<1>1. InText(spans, text) \in SUBSET DOMAIN spans BY DEF InText
<1>2. /\ ordered \in Seq(Span)
      /\ \A n \in DOMAIN ordered :
             \E i \in InText(spans, text) : ordered[n] = spans[i]
      /\ \A i \in InText(spans, text) :
             \E n \in DOMAIN ordered : ordered[n] = spans[i]
      /\ \A m, n \in DOMAIN ordered : m < n => ordered[m].start <= ordered[n].start
  BY <1>1, OrderedIsSorted
<1>3. merged = Merge(ordered) OBVIOUS
<1> HIDE DEF ordered
<1>4. \A i \in InText(spans, text) : Lies(spans[i], size)
  <2>1. \A i \in DOMAIN spans : spans[i] \in Span BY LenProperties, ElementOfSeq
  <2> QED BY <2>1 DEF InText, Lies
<1>5. DOMAIN ordered = 1..Len(ordered) /\ size \in Nat BY <1>2, LenProperties
<1>6. \A n \in 1..Len(ordered) : Lies(ordered[n], size) BY <1>2, <1>4, <1>5
<1>7. Neat(merged, size) /\ \A p \in Int : Covers(merged, p) <=> Covers(ordered, p)
  <2> HIDE DEF size
  <2> QED BY <1>2, <1>3, <1>5, <1>6, MergeIsNeat
<1>8. ASSUME NEW p \in Int
      PROVE  Covers(ordered, p) <=> \E n \in InText(spans, text) : Hits(spans[n], p)
  BY <1>2, <1>5 DEF Covers
<1> QED BY <1>7, <1>8

------------------------------------------------------------------------------
(***************************************************************************)
(* The placeholders.                                                       *)
(***************************************************************************)
BatchIsScanned ==
    /\ texts \in Batches
    /\ found \in Seq(Seq(Span)) /\ detected \in Seq(Seq(Span))
    /\ Len(found) = Len(detected) /\ Len(detected) <= Len(texts)
    /\ \A i \in 1..Len(detected) :
           /\ Neat(detected[i], Len(texts[i]))
           /\ \A p \in Int : Covers(detected[i], p) <=>
                  \E n \in InText(found[i], texts[i]) : Hits(found[i][n], p)

NumbersAreCounted ==
    /\ counters \in [EntityTypes -> Nat]
    /\ IsFiniteSet(DOMAIN original_to_placeholder)
    /\ DOMAIN original_to_placeholder \subseteq Seq(Token)
    /\ original_to_placeholder \in [DOMAIN original_to_placeholder -> Placeholder]

\* The spans before the one that is due.
Past(i, n) == i < next.text \/ (i = next.text /\ n < next.span)

PastIsNamed ==
    /\ next \in [text : Nat \ {0}, span : Nat \ {0}]
    /\ next # [text |-> 1, span |-> 1] => Len(detected) = Len(texts)
    /\ \A i \in 1..Len(detected) : \A n \in 1..Len(detected[i]) :
           Past(i, n) => Original(texts[i], detected[i][n])
                             \in DOMAIN original_to_placeholder

MaskedIsLast ==
    /\ masked \in Seq(Seq(Token)) /\ Len(masked) <= Len(texts)
    /\ masked # <<>> => next.text > Len(texts) /\ Len(detected) = Len(texts)

\* The values of a function with a finite domain.
LEMMA RangeIsFinite ==
  ASSUME NEW f, IsFiniteSet(DOMAIN f)
  PROVE  IsFiniteSet({f[x] : x \in DOMAIN f})
<1> DEFINE R == {f[x] : x \in DOMAIN f}
           g == [x \in DOMAIN f |-> f[x]]
<1>1. g \in Surjection(DOMAIN f, R) BY DEF Surjection
<1> HIDE DEF g, R
<1>2. IsFiniteSet(R) BY <1>1, FS_Surjection
<1> QED BY <1>2 DEF R

\* A batch occupies finitely many tokens.
LEMMA BatchIsFinite ==
  ASSUME texts \in Batches
  PROVE  /\ IsFiniteSet(Occupied) /\ texts \in Seq(Seq(Token))
         /\ \A i \in 1..Len(texts) : texts[i] \in Seq(Token)
         /\ \A i \in 1..Len(texts) : \A p \in 1..Len(texts[i]) : texts[i][p] \in Occupied
<1> DEFINE h == [i \in DOMAIN texts |-> ToSet(texts[i])]
<1>1. texts \in Seq(Seq(Token)) BY SanitizerAssumption
<1>2. DOMAIN texts = 1..Len(texts) /\ Len(texts) \in Nat BY <1>1, LenProperties
<1>3. \A i \in DOMAIN texts : texts[i] \in Seq(Token) BY <1>1, <1>2, ElementOfSeq
<1>4. \A i \in DOMAIN texts : DOMAIN texts[i] = 1..Len(texts[i]) /\ Len(texts[i]) \in Nat
  BY <1>3, LenProperties
<1>5. ASSUME NEW i \in DOMAIN texts PROVE IsFiniteSet(ToSet(texts[i]))
  <2>1. IsFiniteSet(1..Len(texts[i])) BY <1>4, FS_Interval
  <2>2. IsFiniteSet(DOMAIN texts[i]) BY <1>4, <2>1
  <2> QED BY <2>2, RangeIsFinite DEF ToSet
<1>6. IsFiniteSet({h[i] : i \in DOMAIN h})
  <2>1. IsFiniteSet(DOMAIN h) BY <1>2, FS_Interval
  <2> HIDE DEF h
  <2> QED BY <2>1, RangeIsFinite
<1>7. {h[i] : i \in DOMAIN h} = {ToSet(texts[i]) : i \in DOMAIN texts}
  OBVIOUS
<1>8. IsFiniteSet(Occupied)
  <2> DEFINE S == {ToSet(texts[i]) : i \in DOMAIN texts}
  <2>1. IsFiniteSet(S) BY <1>6, <1>7
  <2>2. \A t \in S : IsFiniteSet(t) BY <1>5
  <2> HIDE DEF S
  <2>3. IsFiniteSet(UNION S) BY <2>1, <2>2, FS_UNION
  <2> QED BY <2>3 DEF S, Occupied
<1>9. \A i \in DOMAIN texts : \A p \in DOMAIN texts[i] : texts[i][p] \in Occupied
  BY DEF Occupied, ToSet
<1> QED BY <1>1, <1>2, <1>3, <1>4, <1>8, <1>9

\* There is always a number left that was neither given out nor is in the batch.
LEMMA NextNumberIsFree ==
  ASSUME BatchIsScanned, NumbersAreCounted, NEW type \in EntityTypes
  PROVE  NextNumber(type) \in Nat /\ <<type, NextNumber(type)>> \notin Occupied \cup Issued
<1> DEFINE taken == Occupied \cup Issued
           c == Cardinality(taken)
           from == counters[type] + 1
           to == counters[type] + c + 1
           free(n) == /\ <<type, n>> \notin taken
                      /\ \A m \in from..(n - 1) : <<type, m>> \in taken
<1>1. IsFiniteSet(taken)
  <2>1. IsFiniteSet(Issued) BY RangeIsFinite DEF NumbersAreCounted, Issued, Range
  <2> QED BY <2>1, BatchIsFinite, FS_Union DEF BatchIsScanned
<1>2. c \in Nat /\ counters[type] \in Nat
  BY <1>1, FS_CardinalityType DEF NumbersAreCounted
<1>3. IsFiniteSet(from..to) /\ Cardinality(from..to) = c + 1
  <2>1. from \in Int /\ to \in Int /\ ~(from > to) /\ to - from + 1 = c + 1 BY <1>2
  <2> HIDE DEF from, to
  <2> QED BY <2>1, FS_Interval
<1> DEFINE S == {n \in from..to : <<type, n>> \notin taken}
<1>4. S # {}
  <2> SUFFICES ASSUME \A n \in from..to : <<type, n>> \in taken PROVE FALSE
    OBVIOUS
  <2> DEFINE f == [n \in from..to |-> <<type, n>>]
  <2>1. f \in [from..to -> taken] OBVIOUS
  <2>2. \A x, y \in from..to : f[x] = f[y] => x = y OBVIOUS
  <2>3. c < c + 1 BY <1>2
  <2> HIDE DEF f, c, from, to, taken
  <2>4. \E x, y \in from..to : x # y /\ f[x] = f[y]
    BY <1>1, <1>3, <2>1, <2>3, FS_PigeonHole DEF c
  <2> QED BY <2>2, <2>4
<1>5. PICK n \in S : \A m \in S : n <= m
  <2>1. S \in SUBSET Nat BY <1>2
  <2> HIDE DEF S
  <2> QED BY <1>4, <2>1, LeastOf
<1>6. n \in from..to /\ free(n)
  <2>1. ASSUME NEW m \in from..(n - 1) PROVE <<type, m>> \in taken
    <3>1. m \in from..to /\ ~(n <= m) BY <1>2
    <3> HIDE DEF taken, from, to
    <3> QED BY <1>5, <3>1
  <2> QED BY <1>5, <2>1
<1>7. NextNumber(type) = CHOOSE k \in from..to : free(k)
  BY DEF NextNumber
<1> HIDE DEF free
<1>8. NextNumber(type) \in from..to /\ free(NextNumber(type))
  BY <1>6, <1>7
<1> QED BY <1>2, <1>8 DEF free

------------------------------------------------------------------------------
(***************************************************************************)
(* Masking one text, read from its end.                                    *)
(***************************************************************************)

\* Every token of a text replaced by some tokens.
Spell(F, text) == FlattenSeq([p \in 1..Len(text) |-> F[text[p]]])

Back == [x \in Token |-> IF x \in Issued THEN mapping[x] ELSE <<x>>]

Say == [x \in Token |-> IF x \in Issued THEN <<>> ELSE <<x>>]

\* A text that is put together is spelled part by part.
LEMMA SpellConcat ==
  ASSUME NEW F \in [Token -> Seq(Token)], NEW u \in Seq(Token), NEW v \in Seq(Token)
  PROVE  Spell(F, u \o v) = Spell(F, u) \o Spell(F, v)
<1> DEFINE P(s) == [p \in 1..Len(s) |-> F[s[p]]]
<1>1. \A s \in Seq(Token) : P(s) \in Seq(Seq(Token)) /\ Len(P(s)) = Len(s)
  <2> SUFFICES ASSUME NEW s \in Seq(Token)
               PROVE  P(s) \in Seq(Seq(Token)) /\ Len(P(s)) = Len(s)
    OBVIOUS
  <2>1. Len(s) \in Nat BY LenProperties
  <2>2. \A p \in 1..Len(s) : F[s[p]] \in Seq(Token) BY ElementOfSeq
  <2>3. P(s) \in Seq(Seq(Token)) BY <2>1, <2>2, IsASeq
  <2> QED BY <2>1, <2>3
<1>2. /\ u \o v \in Seq(Token) /\ Len(u \o v) = Len(u) + Len(v)
      /\ Len(u) \in Nat /\ Len(v) \in Nat
      /\ \A p \in 1..(Len(u) + Len(v)) :
             (u \o v)[p] = IF p <= Len(u) THEN u[p] ELSE v[p - Len(u)]
  BY ConcatProperties, LenProperties
<1>3. P(u \o v) = P(u) \o P(v)
  <2>1. /\ P(u) \o P(v) \in Seq(Seq(Token))
        /\ Len(P(u) \o P(v)) = Len(u) + Len(v)
        /\ \A p \in 1..(Len(u) + Len(v)) : (P(u) \o P(v))[p] =
               IF p <= Len(u) THEN P(u)[p] ELSE P(v)[p - Len(u)]
    <3>1. P(u) \in Seq(Seq(Token)) /\ P(v) \in Seq(Seq(Token))
          /\ Len(P(u)) = Len(u) /\ Len(P(v)) = Len(v)
      BY <1>1
    <3> DEFINE x == P(u)
               y == P(v)
    <3> HIDE DEF P
    <3>2. x \in Seq(Seq(Token)) /\ y \in Seq(Seq(Token))
          /\ Len(x) = Len(u) /\ Len(y) = Len(v)
      BY <3>1
    <3> HIDE DEF x, y
    <3>3. /\ x \o y \in Seq(Seq(Token))
          /\ Len(x \o y) = Len(x) + Len(y)
          /\ \A p \in 1..(Len(x) + Len(y)) :
                 (x \o y)[p] = IF p <= Len(x) THEN x[p] ELSE y[p - Len(x)]
      BY <3>2, ConcatProperties
    <3>4. /\ x \o y \in Seq(Seq(Token))
          /\ Len(x \o y) = Len(u) + Len(v)
          /\ \A p \in 1..(Len(u) + Len(v)) :
                 (x \o y)[p] = IF p <= Len(u) THEN x[p] ELSE y[p - Len(u)]
      BY <3>2, <3>3
    <3> QED BY <3>4 DEF x, y
  <2>2. P(u \o v) \in Seq(Seq(Token)) /\ Len(P(u \o v)) = Len(u) + Len(v)
    BY <1>1, <1>2
  <2>3. ASSUME NEW p \in 1..(Len(u) + Len(v))
        PROVE  P(u \o v)[p] = (P(u) \o P(v))[p]
    <3>1. P(u \o v)[p] = F[(u \o v)[p]] BY <1>2
    <3>2. CASE p <= Len(u)
      <4>1. p \in 1..Len(u) BY <1>2, <3>2
      <4>2. P(u)[p] = F[u[p]] BY <4>1
      <4> HIDE DEF P
      <4> QED BY <1>2, <2>1, <3>1, <3>2, <4>2
    <3>3. CASE ~(p <= Len(u))
      <4>1. p - Len(u) \in 1..Len(v) BY <1>2, <3>3
      <4>2. P(v)[p - Len(u)] = F[v[p - Len(u)]] BY <4>1
      <4> HIDE DEF P
      <4> QED BY <1>2, <2>1, <3>1, <3>3, <4>2
    <3> QED BY <3>2, <3>3
  <2> HIDE DEF P
  <2> QED BY <2>1, <2>2, <2>3, SeqEqual
<1>4. FlattenSeq(P(u) \o P(v)) = FlattenSeq(P(u)) \o FlattenSeq(P(v))
  <2> HIDE DEF P
  <2> QED BY <1>1, FlattenConcat
<1> QED BY <1>3, <1>4 DEF Spell

\* Restoring a text, and dropping its placeholders, go token by token.
LEMMA BackAndSay ==
  ASSUME NumbersAreCounted
  PROVE  /\ Back \in [Token -> Seq(Token)] /\ Say \in [Token -> Seq(Token)]
         /\ \A w \in Seq(Token) : restore(w) = Spell(Back, w)
         /\ \A w \in Seq(Token) : Kept(w, Said(w)) = Spell(Say, w)
<1>1. \A x \in Token : <<x>> \in Seq(Token) /\ <<>> \in Seq(Token)
  BY EmptySeq
<1>2. ASSUME NEW x \in Issued PROVE mapping[x] \in Seq(Token)
  <2> DEFINE inverts(o) == x \in Range(original_to_placeholder)
                              => original_to_placeholder[o] = x
  <2>1. PICK o \in DOMAIN original_to_placeholder : original_to_placeholder[o] = x
    BY DEF Issued, Range
  <2>2. mapping[x] = CHOOSE q \in DOMAIN original_to_placeholder : inverts(q)
    BY DEF mapping, Inverse
  <2>3. inverts(o) BY <2>1
  <2> HIDE DEF inverts
  <2>4. mapping[x] \in DOMAIN original_to_placeholder BY <2>2, <2>3
  <2> QED BY <2>4 DEF NumbersAreCounted
<1>3. Back \in [Token -> Seq(Token)] BY <1>1, <1>2 DEF Back
<1>4. Say \in [Token -> Seq(Token)] BY <1>1 DEF Say
<1>5. ASSUME NEW w \in Seq(Token)
      PROVE  restore(w) = Spell(Back, w) /\ Kept(w, Said(w)) = Spell(Say, w)
  <2>1. DOMAIN w = 1..Len(w) BY LenProperties
  <2>2. \A p \in 1..Len(w) : w[p] \in Token BY ElementOfSeq
  <2>3. [p \in DOMAIN w |-> IF w[p] \in Issued THEN mapping[w[p]] ELSE <<w[p]>>]
            = [p \in 1..Len(w) |-> Back[w[p]]]
    BY <2>1, <2>2 DEF Back
  <2>4. [p \in DOMAIN w |-> IF p \in Said(w) THEN <<w[p]>> ELSE <<>>]
            = [p \in 1..Len(w) |-> Say[w[p]]]
    BY <2>1, <2>2 DEF Say, Said
  <2> QED BY <2>3, <2>4 DEF restore, Kept, Spell
<1> QED BY <1>3, <1>4, <1>5

\* Tokens that are no placeholders stand for themselves.
LEMMA SpellPlain ==
  ASSUME NEW s \in Seq(Token), \A p \in 1..Len(s) : s[p] \notin Issued
  PROVE  Spell(Back, s) = s /\ Spell(Say, s) = s
<1>1. \A p \in 1..Len(s) : s[p] \in Token BY ElementOfSeq
<1>2. [p \in 1..Len(s) |-> Back[s[p]]] = [p \in 1..Len(s) |-> <<s[p]>>]
  BY <1>1 DEF Back
<1>3. [p \in 1..Len(s) |-> Say[s[p]]] = [p \in 1..Len(s) |-> <<s[p]>>]
  BY <1>1 DEF Say
<1>4. FlattenSeq([p \in 1..Len(s) |-> <<s[p]>>]) = s BY FlattenSingles
<1> QED BY <1>2, <1>3, <1>4 DEF Spell

KeptParts(t, clean) ==
    [p \in 1..Len(t) |-> IF p \in clean THEN <<t[p]>> ELSE <<>>]

\* The parts of a text, one for each of its tokens.
LEMMA KeptPartsType ==
  ASSUME NEW t \in Seq(Token), NEW clean
  PROVE  KeptParts(t, clean) \in Seq(Seq(Token)) /\ Len(KeptParts(t, clean)) = Len(t)
<1>1. Len(t) \in Nat BY LenProperties
<1>2. \A p \in 1..Len(t) : (IF p \in clean THEN <<t[p]>> ELSE <<>>) \in Seq(Token)
  BY ElementOfSeq, EmptySeq
<1> DEFINE F == KeptParts(t, clean)
<1>3. F \in [1..Len(t) -> Seq(Token)] BY <1>2 DEF KeptParts
<1> HIDE DEF F
<1>4. F \in Seq(Seq(Token)) BY <1>1, <1>3
<1>5. Len(F) = Len(t) BY <1>1, <1>3, <1>4, LenProperties
<1> QED BY <1>4, <1>5 DEF F

\* A stretch nothing was found in is kept.
LEMMA CleanPart ==
  ASSUME NEW t \in Seq(Token), NEW clean, NEW a \in 0..Len(t), NEW b \in a..Len(t),
         \A p \in (a + 1)..b : p \in clean
  PROVE  FlattenSeq(SubSeq(KeptParts(t, clean), a + 1, b)) = SubSeq(t, a + 1, b)
<1> DEFINE F == KeptParts(t, clean)
           u == SubSeq(F, a + 1, b)
           s == SubSeq(t, a + 1, b)
           v == [j \in 1..Len(s) |-> <<s[j]>>]
<1>1. Len(t) \in Nat BY LenProperties
<1>2. s \in Seq(Token) /\ Len(s) = b - a /\ \A j \in 1..(b - a) : s[j] = t[a + j]
  BY Stretch
<1>3. F \in Seq(Seq(Token)) /\ Len(F) = Len(t) BY KeptPartsType
<1>4. u \in Seq(Seq(Token)) /\ Len(u) = b - a /\ \A j \in 1..(b - a) : u[j] = F[a + j]
  <2> HIDE DEF F
  <2> QED BY <1>3, Stretch
<1>5. ASSUME NEW j \in 1..(b - a) PROVE u[j] = v[j]
  <2>1. a + j \in 1..Len(t) /\ a + j \in (a + 1)..b BY <1>1
  <2>2. F[a + j] = <<t[a + j]>> BY <2>1 DEF KeptParts
  <2>3. v[j] = <<s[j]>> BY <1>2
  <2> HIDE DEF u, v, s, F
  <2> QED BY <1>2, <1>4, <2>2, <2>3
<1> HIDE DEF s, u, F
<1>6. v \in Seq(Seq(Token)) /\ Len(v) = b - a
  <2>1. \A j \in 1..Len(s) : <<s[j]>> \in Seq(Token) BY <1>2, ElementOfSeq
  <2>2. Len(s) \in Nat BY <1>1, <1>2
  <2>3. v \in Seq(Seq(Token)) BY <2>1, <2>2, IsASeq
  <2> QED BY <1>2, <2>2, <2>3
<1>7. u = v
  <2> HIDE DEF v
  <2> QED BY <1>4, <1>5, <1>6, SeqEqual
<1>8. FlattenSeq(v) = s BY <1>2, FlattenSingles
<1> QED BY <1>7, <1>8 DEF u, s, F

\* A stretch some span covers is dropped.
LEMMA HiddenPart ==
  ASSUME NEW t \in Seq(Token), NEW clean, NEW a \in 0..Len(t), NEW b \in a..Len(t),
         \A p \in (a + 1)..b : p \notin clean
  PROVE  FlattenSeq(SubSeq(KeptParts(t, clean), a + 1, b)) = <<>>
<1> DEFINE F == KeptParts(t, clean)
           u == SubSeq(F, a + 1, b)
           v == [j \in 1..(b - a) |-> <<>>]
<1>1. Len(t) \in Nat BY LenProperties
<1>3. F \in Seq(Seq(Token)) /\ Len(F) = Len(t) BY KeptPartsType
<1>4. u \in Seq(Seq(Token)) /\ Len(u) = b - a /\ \A j \in 1..(b - a) : u[j] = F[a + j]
  <2> HIDE DEF F
  <2> QED BY <1>3, Stretch
<1>5. ASSUME NEW j \in 1..(b - a) PROVE u[j] = v[j]
  <2>1. a + j \in 1..Len(t) /\ a + j \in (a + 1)..b BY <1>1
  <2>2. F[a + j] = <<>> BY <2>1 DEF KeptParts
  <2>3. v[j] = <<>> OBVIOUS
  <2> HIDE DEF u, v, F
  <2> QED BY <1>4, <2>2, <2>3
<1> HIDE DEF u, F
<1>6. v \in Seq(Seq(Token)) /\ Len(v) = b - a
  <2>1. <<>> \in Seq(Token) BY EmptySeq
  <2>2. b - a \in Nat BY <1>1
  <2>3. v \in Seq(Seq(Token)) BY <2>1, <2>2, IsASeq
  <2> QED BY <2>2, <2>3
<1>7. u = v
  <2> HIDE DEF v
  <2> QED BY <1>4, <1>5, <1>6, SeqEqual
<1>8. FlattenSeq(v) = <<>>
  <2>1. b - a \in Nat BY <1>1
  <2> QED BY <2>1, FlattenEmpties
<1> QED BY <1>7, <1>8 DEF u, F

\* The masked text w stands for the part of t behind its first L tokens, k of
\* its tokens for what was found there.
Reads(t, clean, L, k, w) ==
    /\ w \in Seq(Token)
    /\ Spell(Back, w) = SubSeq(t, L + 1, Len(t))
    /\ Spell(Say, w) = FlattenSeq(SubSeq(KeptParts(t, clean), L + 1, Len(t)))
    /\ Len(w) = Cardinality(clean \cap ((L + 1)..Len(t))) + k

\* Behind the last token of a text there is nothing to read.
LEMMA ReadsNothing ==
  ASSUME NEW t \in Seq(Token), NEW clean
  PROVE  Reads(t, clean, Len(t), 0, <<>>)
<1> DEFINE n == Len(t)
<1>1. n \in Nat /\ <<>> \in Seq(Token) /\ Len(<<>>) = 0 BY LenProperties, EmptySeq
<1>2. Spell(Back, <<>>) = <<>> /\ Spell(Say, <<>>) = <<>>
  <2> DEFINE e == <<>>
  <2>1. e \in Seq(Token) /\ \A p \in 1..Len(e) : e[p] \notin Issued BY <1>1
  <2> HIDE DEF e
  <2>2. Spell(Back, e) = e /\ Spell(Say, e) = e BY <2>1, SpellPlain
  <2> QED BY <2>2 DEF e
<1>3. SubSeq(t, n + 1, n) = <<>> /\ SubSeq(KeptParts(t, clean), n + 1, n) = <<>>
  <2>1. n + 1 \in Int /\ n \in Int /\ n < n + 1 BY <1>1
  <2> HIDE DEF n
  <2> QED BY <2>1, SubSeqEmpty
<1>4. FlattenSeq(<<>>) = <<>> BY <1>1 DEF FlattenSeq
<1>5. clean \cap ((n + 1)..n) = {} BY <1>1
<1>6. Cardinality(clean \cap ((n + 1)..n)) = 0 BY <1>5, FS_EmptySet
<1>7. Len(<<>>) = Cardinality(clean \cap ((n + 1)..n)) + 0 BY <1>1, <1>6
<1>8. Spell(Say, <<>>) = FlattenSeq(SubSeq(KeptParts(t, clean), n + 1, n))
  BY <1>2, <1>3, <1>4, Zenon
<1>9. Spell(Back, <<>>) = SubSeq(t, n + 1, n) BY <1>2, <1>3, Zenon
<1> HIDE DEF n
<1> QED BY <1>1, <1>7, <1>8, <1>9, Zenon DEF Reads, n

\* Tokens nothing was found in are handed on.
LEMMA ReadsPlain ==
  ASSUME NumbersAreCounted,
         NEW t \in Seq(Token), NEW clean, NEW k \in Nat, NEW w,
         NEW a \in 0..Len(t), NEW L \in a..Len(t), Reads(t, clean, L, k, w),
         \A p \in (a + 1)..L : p \in clean,
         \A p \in 1..Len(t) : t[p] \notin Issued
  PROVE  Reads(t, clean, a, k, SubSeq(t, a + 1, L) \o w)
<1> DEFINE n == Len(t)
           s == SubSeq(t, a + 1, L)
           F == KeptParts(t, clean)
<1>1. n \in Nat BY LenProperties
<1>2. s \in Seq(Token) /\ Len(s) = L - a /\ \A j \in 1..(L - a) : s[j] = t[a + j]
  BY Stretch
<1>3. \A j \in 1..Len(s) : s[j] \notin Issued
  <2> SUFFICES ASSUME NEW j \in 1..Len(s) PROVE s[j] \notin Issued
    OBVIOUS
  <2>1. a + j \in 1..Len(t) BY <1>1, <1>2
  <2> HIDE DEF s
  <2> QED BY <1>2, <2>1
<1>4. SubSeq(t, a + 1, n) = s \o SubSeq(t, L + 1, n) BY Split
<1>5. FlattenSeq(SubSeq(F, a + 1, n)) = s \o FlattenSeq(SubSeq(F, L + 1, n))
  <2>1. F \in Seq(Seq(Token)) /\ Len(F) = n BY KeptPartsType
  <2>2. FlattenSeq(SubSeq(F, a + 1, L)) = s BY CleanPart
  <2> HIDE DEF F, s
  <2> QED BY <2>1, <2>2, FlattenSplit
<1>6. w \in Seq(Token) BY DEF Reads
<1> HIDE DEF s
<1>7. Spell(Back, s) = s /\ Spell(Say, s) = s BY <1>2, <1>3, SpellPlain
<1>8. Spell(Back, s \o w) = s \o Spell(Back, w) /\ Spell(Say, s \o w) = s \o Spell(Say, w)
  <2>1. Back \in [Token -> Seq(Token)] /\ Say \in [Token -> Seq(Token)]
    BY BackAndSay
  <2>2. /\ Spell(Back, s \o w) = Spell(Back, s) \o Spell(Back, w)
        /\ Spell(Say, s \o w) = Spell(Say, s) \o Spell(Say, w)
    BY <1>2, <1>6, <2>1, SpellConcat
  <2> QED BY <1>7, <2>2
<1>9. s \o w \in Seq(Token) /\ Len(s \o w) = (L - a) + Len(w)
  BY <1>2, <1>6, ConcatProperties
<1>10. Cardinality(clean \cap ((a + 1)..n)) = (L - a) + Cardinality(clean \cap ((L + 1)..n))
  <2> DEFINE A == (a + 1)..L
             B == clean \cap ((L + 1)..n)
  <2>1. clean \cap ((a + 1)..n) = A \cup B /\ A \cap B = {} BY <1>1
  <2>2. IsFiniteSet(A) /\ Cardinality(A) = L - a
    <3>1. a + 1 \in Int /\ L \in Int /\ L - (a + 1) + 1 = L - a
          /\ (a + 1 > L => L - a = 0)
      BY <1>1
    <3> QED BY <3>1, FS_Interval
  <2>3. IsFiniteSet(B)
    <3>1. L + 1 \in Int /\ n \in Int BY <1>1
    <3> HIDE DEF n
    <3>2. IsFiniteSet((L + 1)..n) BY <3>1, FS_Interval
    <3> QED BY <3>2, FS_Intersection
  <2>4. Cardinality(B) \in Nat BY <2>3, FS_CardinalityType
  <2> HIDE DEF A, B
  <2>5. Cardinality(A \cup B) = Cardinality(A) + Cardinality(B) - Cardinality(A \cap B)
    BY <2>2, <2>3, FS_Union
  <2>6. Cardinality(A \cap B) = 0
    <3>1. Cardinality({}) = 0 BY FS_EmptySet
    <3>2. A \cap B = {} BY <2>1
    <3> QED BY <3>1, <3>2, Zenon
  <2>7. Cardinality(A \cup B) = (L - a) + Cardinality(B)
    <3>1. L - a \in Int BY <1>1
    <3> QED BY <2>2, <2>4, <2>5, <2>6, <3>1
  <2> QED BY <2>1, <2>7 DEF B
<1>11. Cardinality(clean \cap ((L + 1)..n)) \in Nat
  <2>1. L + 1 \in Int /\ n \in Int BY <1>1
  <2> HIDE DEF n
  <2>2. IsFiniteSet((L + 1)..n) BY <2>1, FS_Interval
  <2> QED BY <2>2, FS_Intersection, FS_CardinalityType
<1>12. Len(s \o w) = Cardinality(clean \cap ((a + 1)..n)) + k
  <2>1. Len(w) = Cardinality(clean \cap ((L + 1)..n)) + k BY DEF Reads
  <2> QED BY <1>1, <1>9, <1>10, <1>11, <2>1
<1> QED BY <1>4, <1>5, <1>8, <1>9, <1>12 DEF Reads, s

\* A placeholder stands for its original.
LEMMA PlaceholderReadsBack ==
  ASSUME NumbersAreCounted, IsInjective(original_to_placeholder),
         NEW o \in DOMAIN original_to_placeholder,
         NEW token, token = original_to_placeholder[o]
  PROVE  /\ token \in Token /\ token \in Issued
         /\ Spell(Back, <<token>>) = o /\ Spell(Say, <<token>>) = <<>>
<1>1. token \in Issued BY DEF Issued, Range
<1>2. token \in Token BY DEF NumbersAreCounted, Token
<1>3. o \in Seq(Token) /\ <<>> \in Seq(Token) BY EmptySeq DEF NumbersAreCounted
<1>4. mapping[token] = o
  <2> DEFINE inverts(q) == token \in Range(original_to_placeholder)
                              => original_to_placeholder[q] = token
  <2>1. mapping[token] = CHOOSE q \in DOMAIN original_to_placeholder : inverts(q)
    BY <1>1 DEF mapping, Inverse
  <2>2. inverts(o) OBVIOUS
  <2>3. \A q \in DOMAIN original_to_placeholder : inverts(q) => q = o
    BY <1>1 DEF Issued, IsInjective
  <2> HIDE DEF inverts
  <2> QED BY <2>1, <2>2, <2>3
<1>5. Back[token] = o /\ Say[token] = <<>> BY <1>1, <1>2, <1>4 DEF Back, Say
<1>6. ASSUME NEW F, NEW x \in Seq(Token), F[token] = x
      PROVE  Spell(F, <<token>>) = x
  <2>1. Len(<<token>>) = 1 OBVIOUS
  <2>2. [p \in 1..1 |-> F[<<token>>[p]]] = <<x>> BY <1>6
  <2>3. FlattenSeq(<<x>>) = x BY FlattenOne
  <2> QED BY <2>1, <2>2, <2>3 DEF Spell
<1> QED BY <1>1, <1>2, <1>3, <1>5, <1>6

\* A span that is replaced reads back as the original it covered.
LEMMA ReadsPlaceholder ==
  ASSUME NumbersAreCounted, IsInjective(original_to_placeholder),
         NEW t \in Seq(Token), NEW clean, NEW k \in Nat, NEW w,
         NEW a \in 0..Len(t), NEW L \in a..Len(t), Reads(t, clean, L, k, w),
         \A p \in (a + 1)..L : p \notin clean,
         SubSeq(t, a + 1, L) \in DOMAIN original_to_placeholder,
         NEW token, token = original_to_placeholder[SubSeq(t, a + 1, L)]
  PROVE  Reads(t, clean, a, k + 1, <<token>> \o w)
<1> DEFINE n == Len(t)
           s == SubSeq(t, a + 1, L)
           F == KeptParts(t, clean)
           one == <<token>>
<1>1. n \in Nat BY LenProperties
<1>2. s \in Seq(Token) BY Stretch
<1>3. token \in Token /\ Spell(Back, one) = s /\ Spell(Say, one) = <<>>
  BY PlaceholderReadsBack
<1>4. SubSeq(t, a + 1, n) = s \o SubSeq(t, L + 1, n) BY Split
<1>5. FlattenSeq(SubSeq(F, a + 1, n)) = <<>> \o FlattenSeq(SubSeq(F, L + 1, n))
  <2>1. F \in Seq(Seq(Token)) /\ Len(F) = n BY KeptPartsType
  <2>2. FlattenSeq(SubSeq(F, a + 1, L)) = <<>> BY HiddenPart
  <2> HIDE DEF F
  <2>3. FlattenSeq(SubSeq(F, a + 1, Len(F)))
            = FlattenSeq(SubSeq(F, a + 1, L)) \o FlattenSeq(SubSeq(F, L + 1, Len(F)))
    BY <2>1, FlattenSplit
  <2> QED BY <2>1, <2>2, <2>3, Zenon
<1>6. w \in Seq(Token) BY DEF Reads
<1>7. one \in Seq(Token) /\ Len(one) = 1 BY <1>3
<1> HIDE DEF one, s
<1>8. Spell(Back, one \o w) = s \o Spell(Back, w)
      /\ Spell(Say, one \o w) = <<>> \o Spell(Say, w)
  BY <1>3, <1>6, <1>7, BackAndSay, SpellConcat
<1>9. one \o w \in Seq(Token) /\ Len(one \o w) = 1 + Len(w)
  BY <1>6, <1>7, ConcatProperties
<1>10. clean \cap ((a + 1)..n) = clean \cap ((L + 1)..n) BY <1>1
<1>11. Cardinality(clean \cap ((L + 1)..n)) \in Nat
  <2>1. L + 1 \in Int /\ n \in Int BY <1>1
  <2> HIDE DEF n
  <2>2. IsFiniteSet((L + 1)..n) BY <2>1, FS_Interval
  <2> QED BY <2>2, FS_Intersection, FS_CardinalityType
<1>12. Len(one \o w) = Cardinality(clean \cap ((a + 1)..n)) + (k + 1)
  <2> DEFINE c == Cardinality(clean \cap ((L + 1)..n))
  <2>1. Len(w) = c + k BY DEF Reads
  <2>2. c \in Nat BY <1>11
  <2>3. Cardinality(clean \cap ((a + 1)..n)) = c BY <1>10, Zenon
  <2> HIDE DEF c, n
  <2>4. 1 + (c + k) = c + (k + 1) BY <2>2
  <2> QED BY <1>9, <2>1, <2>3, <2>4, Zenon
<1> QED BY <1>4, <1>5, <1>8, <1>9, <1>12 DEF Reads, s, one

------------------------------------------------------------------------------
\* How much of the text is still as it came after j spans were replaced.
Untouched(t, spans, j) ==
    IF j = 0 THEN Len(t) ELSE spans[(Len(spans) - j) + 1].start

\* Each span to replace lies in the part that is still as it came.
LEMMA UntouchedShrinks ==
  ASSUME NEW t \in Seq(Token), NEW spans, Neat(spans, Len(t)),
         NEW j \in 1..Len(spans), NEW span, span = spans[(Len(spans) - j) + 1]
  PROVE  /\ Lies(span, Len(t)) /\ span.start \in Nat /\ span.end \in Nat
         /\ Untouched(t, spans, j) = span.start
         /\ span.start < span.end /\ span.end <= Untouched(t, spans, j - 1)
         /\ Untouched(t, spans, j - 1) \in 0..Len(t)
<1> DEFINE m == Len(spans)
           q == (m - j) + 1
<1>1. m \in Nat /\ Len(t) \in Nat BY LenProperties DEF Neat
<1>2. q \in 1..m BY <1>1
<1>3. Lies(span, Len(t)) BY <1>2 DEF Neat
<1>4. span.start \in Nat /\ span.end \in Nat /\ span.start < span.end
  BY <1>3 DEF Lies, Span
<1>5. Untouched(t, spans, j) = span.start BY DEF Untouched
<1>6. CASE j = 1
  BY <1>1, <1>3, <1>4, <1>5, <1>6 DEF Untouched, Lies
<1>7. CASE j # 1
  <2>1. (m - (j - 1)) + 1 = q + 1 /\ q + 1 \in 1..m /\ q < q + 1 /\ j - 1 # 0
    BY <1>1, <1>2, <1>7
  <2>2. Untouched(t, spans, j - 1) = spans[q + 1].start BY <2>1 DEF Untouched
  <2>3. spans[q].end <= spans[q + 1].start BY <1>2, <2>1 DEF Neat
  <2>4. Lies(spans[q + 1], Len(t)) BY <2>1 DEF Neat
  <2>5. spans[q + 1].start \in 0..Len(t) BY <1>1, <2>4 DEF Lies, Span
  <2> QED BY <1>3, <1>4, <1>5, <2>2, <2>3, <2>5
<1> QED BY <1>3, <1>4, <1>5, <1>6, <1>7

\* Replacing a span keeps what is before it.
LEMMA ReplaceParts ==
  ASSUME NumbersAreCounted, NEW t \in Seq(Token), NEW x \in Seq(Token), NEW span,
         span.start \in Nat, span.end \in Nat,
         span.start < span.end, span.end <= Len(x),
         Original(t, span) \in DOMAIN original_to_placeholder
  PROVE  /\ Replace(t, x, span) \in Seq(Token)
         /\ Len(Replace(t, x, span)) >= span.start
<1> DEFINE n == Len(x)
           u == SubSeq(x, 1, span.start)
           v == SubSeq(x, span.end + 1, n)
           token == original_to_placeholder[Original(t, span)]
<1>1. n \in Nat BY LenProperties
<1>2. u \in Seq(Token) /\ Len(u) = span.start
  <2>1. 0 \in 0..Len(x) /\ span.start \in 0..Len(x) /\ span.start - 0 = span.start
        /\ 0 + 1 = 1
    BY <1>1
  <2>2. SubSeq(x, 0 + 1, span.start) \in Seq(Token)
        /\ Len(SubSeq(x, 0 + 1, span.start)) = span.start - 0
    BY <2>1, Stretch
  <2> QED BY <2>1, <2>2
<1>3. v \in Seq(Token) /\ Len(v) \in Nat
  <2>1. span.end \in 0..Len(x) /\ Len(x) \in span.end..Len(x) BY <1>1
  <2>2. v \in Seq(Token) BY <2>1, Stretch
  <2> QED BY <2>2, LenProperties
<1>4. token \in Token BY DEF NumbersAreCounted, Token
<1>5. Replace(t, x, span) = (u \o <<token>>) \o v BY DEF Replace
<1> HIDE DEF u, v, token
<1>6. <<token>> \in Seq(Token) /\ Len(<<token>>) = 1 BY <1>4
<1>7. u \o <<token>> \in Seq(Token) /\ Len(u \o <<token>>) = Len(u) + 1
  BY <1>2, <1>6, ConcatProperties
<1> DEFINE y == u \o <<token>>
<1>8. y \in Seq(Token) /\ Len(y) = span.start + 1 BY <1>2, <1>7
<1> HIDE DEF y
<1>9. y \o v \in Seq(Token) /\ Len(y \o v) = Len(y) + Len(v)
  BY <1>3, <1>8, ConcatProperties
<1>10. Replace(t, x, span) = y \o v BY <1>5 DEF y
<1>11. Len(y \o v) >= span.start BY <1>3, <1>8, <1>9
<1> QED BY <1>9, <1>10, <1>11

\* Mask replaces the spans one by one, the last one first.
LEMMA MaskSteps ==
  ASSUME NumbersAreCounted, NEW t \in Seq(Token), NEW spans, Neat(spans, Len(t)),
         \A n \in 1..Len(spans) :
             Original(t, spans[n]) \in DOMAIN original_to_placeholder
  PROVE  \E h :
             /\ h[0] = t
             /\ \A j \in 1..Len(spans) :
                    h[j] = Replace(t, h[j - 1], spans[(Len(spans) - j) + 1])
             /\ MaskedText(t, spans) = h[Len(spans)]
<1> DEFINE n == Len(spans)
           rev == LastToFirst(spans)
           A == Seq(Token)
           X == [j \in 0..n |-> {x \in A : Len(x) >= Untouched(t, spans, j)}]
           op(i, x) == Replace(t, x, rev[i])
           g == [p \in (1..n) \X A |->
                    IF p[2] \in X[p[1] - 1] THEN op(p[1], p[2]) ELSE t]
           Iter(f) == [s \in SUBSET DOMAIN rev |->
                        IF s = {} THEN t ELSE op(Max(s), f[s \ {Max(s)}])]
<1>0. n \in Nat /\ Len(t) \in Nat BY LenProperties DEF Neat
<1>1. DOMAIN rev = 1..n /\ \A j \in 1..n : rev[j] = spans[(n - j) + 1]
  BY DEF LastToFirst, Reverse
<1>2. \A j \in 1..n : \A x \in A : Len(x) >= Untouched(t, spans, j - 1) =>
          /\ op(j, x) \in A
          /\ Len(op(j, x)) >= Untouched(t, spans, j)
  <2> SUFFICES ASSUME NEW j \in 1..n, NEW x \in A, Len(x) >= Untouched(t, spans, j - 1)
               PROVE  op(j, x) \in A /\ Len(op(j, x)) >= Untouched(t, spans, j)
    OBVIOUS
  <2> DEFINE span == spans[(n - j) + 1]
  <2>1. /\ span.start \in Nat /\ span.end \in Nat
        /\ Untouched(t, spans, j) = span.start
        /\ span.start < span.end /\ span.end <= Untouched(t, spans, j - 1)
        /\ Untouched(t, spans, j - 1) \in 0..Len(t)
    <3> HIDE DEF n
    <3> QED BY UntouchedShrinks DEF n
  <2>2. Original(t, span) \in DOMAIN original_to_placeholder
    <3>1. (n - j) + 1 \in 1..n BY <1>0
    <3> QED BY <3>1
  <2>3. op(j, x) = Replace(t, x, span) BY <1>1
  <2>4. span.end <= Len(x)
    <3>1. Len(x) \in Nat BY LenProperties
    <3> QED BY <1>0, <2>1, <3>1
  <2> HIDE DEF span, op, rev
  <2> QED BY <2>1, <2>2, <2>3, <2>4, ReplaceParts
<1>3. \A j \in 1..n : X[j - 1] \subseteq X[j]
  <2> SUFFICES ASSUME NEW j \in 1..n, NEW x \in X[j - 1] PROVE x \in X[j]
    OBVIOUS
  <2>1. j - 1 \in 0..n /\ j \in 0..n BY <1>0
  <2>2. x \in A /\ Len(x) >= Untouched(t, spans, j - 1) BY <2>1
  <2>3. /\ Untouched(t, spans, j) <= Untouched(t, spans, j - 1)
        /\ Untouched(t, spans, j) \in Int /\ Untouched(t, spans, j - 1) \in Int
    <3> DEFINE span == spans[(n - j) + 1]
    <3>1. /\ span.start \in Nat /\ span.end \in Nat
          /\ Untouched(t, spans, j) = span.start
          /\ span.start < span.end /\ span.end <= Untouched(t, spans, j - 1)
          /\ Untouched(t, spans, j - 1) \in 0..Len(t)
      <4> HIDE DEF n
      <4> QED BY UntouchedShrinks DEF n
    <3> HIDE DEF span
    <3> QED BY <1>0, <3>1
  <2>4. Len(x) \in Nat BY <2>2, LenProperties
  <2>5. Len(x) >= Untouched(t, spans, j) BY <2>2, <2>3, <2>4
  <2> QED BY <2>1, <2>2, <2>5
<1>4. t \in X[0] BY <1>0 DEF Untouched
<1>5. X \in [0..n -> SUBSET A] OBVIOUS
<1>6. \A i \in 1..n : \A x \in X[i - 1] : g[<<i, x>>] = op(i, x) /\ op(i, x) \in X[i]
  <2> SUFFICES ASSUME NEW i \in 1..n, NEW x \in X[i - 1]
               PROVE  g[<<i, x>>] = op(i, x) /\ op(i, x) \in X[i]
    OBVIOUS
  <2>1. i - 1 \in 0..n /\ i \in 0..n BY <1>0
  <2>2. x \in A /\ Len(x) >= Untouched(t, spans, i - 1) BY <2>1
  <2>3. op(i, x) \in A /\ Len(op(i, x)) >= Untouched(t, spans, i) BY <1>2, <2>2
  <2> HIDE DEF op
  <2>4. op(i, x) \in X[i] BY <2>1, <2>3
  <2> HIDE DEF X
  <2>5. g[<<i, x>>] = op(i, x) BY <2>2
  <2> QED BY <2>4, <2>5
<1>7. g \in [(1..n) \X A -> A]
  <2> SUFFICES ASSUME NEW i \in 1..n, NEW x \in A
               PROVE  (IF x \in X[i - 1] THEN op(i, x) ELSE t) \in A
    OBVIOUS
  <2>1. i - 1 \in 0..n BY <1>0
  <2>2. x \in X[i - 1] => Len(x) >= Untouched(t, spans, i - 1) BY <2>1
  <2> HIDE DEF X, op
  <2> QED BY <1>2, <2>2
<1> HIDE DEF g, X, A, op
<1>8. PICK f \in [SUBSET (1..n) -> A] :
          /\ BySets(f, n, t, g)
          /\ \A k \in 0..n : \A s \in SUBSET (1..k) : f[s] \in X[k]
  <2> HIDE DEF n
  <2>1. \A i \in 1..n : \A x \in X[i - 1] : g[<<i, x>>] \in X[i] BY <1>6
  <2> QED BY <1>0, <1>3, <1>4, <1>5, <1>7, <2>1, SetBySetWithin
<1>9. ASSUME NEW s \in SUBSET (1..n), s # {}
      PROVE  f[s] = op(Max(s), f[s \ {Max(s)}])
  <2>1. Max(s) \in s BY <1>0, <1>9, MaxIn
  <2>2. s \in SUBSET (1..Max(s))
    BY <1>0, <1>9, MaxIsMax
  <2> DEFINE q == Max(s)
  <2> HIDE DEF q, n
  <2>8. q \in s /\ s \in SUBSET (1..q) BY <2>1, <2>2 DEF q
  <2>7. q \in 1..n /\ q - 1 \in 0..n /\ s \ {q} \in SUBSET (1..(q - 1))
    BY <1>0, <2>8
  <2>3. Max(s) \in 1..n /\ Max(s) - 1 \in 0..n BY <2>7 DEF q
  <2>4. s \ {Max(s)} \in SUBSET (1..(Max(s) - 1)) BY <2>7 DEF q
  <2>5. f[s \ {Max(s)}] \in X[Max(s) - 1] BY <1>8, <2>3, <2>4
  <2>6. f[s] = g[<<Max(s), f[s \ {Max(s)}]>>] BY <1>8, <1>9 DEF BySets
  <2> QED BY <1>6, <2>3, <2>5, <2>6
<1>10. f = Iter(f)
  <2>1. f[{}] = t BY <1>8 DEF BySets
  <2> QED BY <1>1, <1>8, <1>9, <2>1
<1> DEFINE it == CHOOSE h : h = Iter(h)
<1>11. it = Iter(it)
  BY <1>10
<1>12. MaskedText(t, spans) = it[DOMAIN rev]
  BY DEF MaskedText, FoldLeft, MapThenFoldSet, op
<1> HIDE DEF it
<1>13. it[{}] = t
  BY <1>11
<1>14. ASSUME NEW s \in SUBSET (1..n), s # {}
       PROVE  it[s] = op(Max(s), it[s \ {Max(s)}])
  BY <1>1, <1>11, <1>14
<1> DEFINE h == [i \in 0..n |-> it[1..i]]
<1>15. h[0] = t
  <2>1. 1..0 = {} /\ 0 \in 0..n BY <1>0
  <2>2. h[0] = it[1..0] BY <2>1
  <2> HIDE DEF h
  <2> QED BY <1>13, <2>1, <2>2
<1>16. ASSUME NEW i \in 1..n PROVE h[i] = op(i, h[i - 1])
  <2>1. 1..i \in SUBSET (1..n) /\ i \in 1..i BY <1>0
  <2>2. Max(1..i) = i BY <1>0, MaxOfFirst
  <2>3. (1..i) \ {i} = 1..(i - 1) BY <1>0
  <2>4. h[i] = it[1..i] /\ h[i - 1] = it[1..(i - 1)] BY <1>0
  <2>5. it[1..i] = op(i, it[(1..i) \ {i}]) BY <1>14, <2>1, <2>2
  <2> HIDE DEF h
  <2> QED BY <2>3, <2>4, <2>5
<1>17. h[n] = it[1..n] BY <1>0
<1> HIDE DEF h
<1>18. \A j \in 1..n : h[j] = Replace(t, h[j - 1], spans[(n - j) + 1])
  BY <1>1, <1>16 DEF op
<1>19. MaskedText(t, spans) = h[n] BY <1>1, <1>12, <1>17
<1> QED BY <1>15, <1>18, <1>19

\* Only the spans not replaced yet cover something of what is untouched.
LEMMA UntouchedIsCoveredBefore ==
  ASSUME NEW t \in Seq(Token), NEW spans, Neat(spans, Len(t)),
         NEW j \in 0..Len(spans), NEW p \in Int, p <= Untouched(t, spans, j),
         Covers(spans, p)
  PROVE  \E n \in 1..(Len(spans) - j) : Hits(spans[n], p)
<1> DEFINE m == Len(spans)
<1>1. m \in Nat /\ Len(t) \in Nat BY LenProperties DEF Neat
<1>2. \A n \in 1..m : /\ spans[n].start \in Int /\ spans[n].end \in Int
                     /\ spans[n].start < spans[n].end
  BY DEF Neat, Lies, Span
<1>3. PICK n \in 1..m : Hits(spans[n], p) BY DEF Covers
<1>4. CASE n <= m - j BY <1>1, <1>3, <1>4
<1>5. CASE n > m - j
  <2> DEFINE q == (m - j) + 1
  <2>1. q \in 1..m /\ q <= n /\ j # 0 BY <1>1, <1>5
  <2>2. Untouched(t, spans, j) = spans[q].start BY <2>1 DEF Untouched
  <2> HIDE DEF q
  <2>3. CASE n = q BY <1>2, <1>3, <2>1, <2>2, <2>3 DEF Hits
  <2>4. CASE q < n
    <3>1. spans[q].end <= spans[n].start BY <2>1, <2>4 DEF Neat
    <3> QED BY <1>2, <1>3, <2>1, <2>2, <3>1 DEF Hits
  <2> QED BY <2>1, <2>3, <2>4
<1> QED BY <1>1, <1>4, <1>5

\* Between a span and the one replaced before it nothing was found.
LEMMA GapsAreNotCovered ==
  ASSUME NEW t \in Seq(Token), NEW spans, Neat(spans, Len(t)),
         NEW j \in 1..Len(spans), NEW span, span = spans[(Len(spans) - j) + 1]
  PROVE  /\ \A p \in (span.end + 1)..Untouched(t, spans, j - 1) : ~Covers(spans, p)
         /\ \A p \in (span.start + 1)..span.end : Covers(spans, p)
<1> DEFINE m == Len(spans)
           q == (m - j) + 1
<1>1. m \in Nat /\ q \in 1..m /\ m - (j - 1) = q BY LenProperties DEF Neat
<1>2. \A n \in 1..m : /\ spans[n].start \in Int /\ spans[n].end \in Int
                     /\ spans[n].start < spans[n].end
  BY DEF Neat, Lies, Span
<1>3. span.start \in Int /\ span.end \in Int BY <1>1, <1>2
<1>4. ASSUME NEW p \in (span.end + 1)..Untouched(t, spans, j - 1), Covers(spans, p)
      PROVE  FALSE
  <2>1. Untouched(t, spans, j - 1) \in Int BY UntouchedShrinks
  <2>2. p \in Int /\ p > span.end /\ p <= Untouched(t, spans, j - 1) BY <1>3, <2>1
  <2>3. j - 1 \in 0..m BY <1>1
  <2>4. PICK n \in 1..(m - (j - 1)) : Hits(spans[n], p)
    BY <1>4, <2>2, <2>3, UntouchedIsCoveredBefore
  <2>5. n \in 1..q /\ n \in 1..m BY <1>1
  <2>6. CASE n = q BY <1>2, <1>3, <2>2, <2>4, <2>6 DEF Hits
  <2>7. CASE n # q
    <3>1. n < q BY <1>1, <2>5, <2>7
    <3>2. spans[n].end <= spans[q].start BY <1>1, <2>5, <3>1 DEF Neat
    <3>3. spans[q].start < spans[q].end /\ spans[q].start \in Int /\ spans[q].end \in Int
          /\ spans[n].end \in Int
      BY <1>1, <1>2, <2>5
    <3>4. p <= spans[n].end BY <2>4 DEF Hits
    <3> HIDE DEF q
    <3>5. span.end = spans[q].end BY DEF q
    <3> DEFINE before == spans[n].end
               from == spans[q].start
               to == spans[q].end
    <3>6. /\ before \in Int /\ from \in Int /\ to \in Int /\ p \in Int
          /\ p > to /\ p <= before /\ before <= from /\ from < to
      BY <2>2, <3>2, <3>3, <3>4, <3>5
    <3> HIDE DEF before, from, to
    <3> QED BY <3>6
  <2> QED BY <2>6, <2>7
<1>5. ASSUME NEW p \in (span.start + 1)..span.end PROVE Covers(spans, p)
  <2>1. Hits(spans[q], p) BY <1>3 DEF Hits
  <2> QED BY <1>1, <2>1 DEF Covers
<1> QED BY <1>4, <1>5

\* All spans replaced: the masked text stands for the whole text.
LEMMA MaskedReads ==
  ASSUME NumbersAreCounted, IsInjective(original_to_placeholder),
         NEW t \in Seq(Token), \A p \in 1..Len(t) : t[p] \notin Issued,
         NEW spans, Neat(spans, Len(t)),
         \A n \in 1..Len(spans) :
             Original(t, spans[n]) \in DOMAIN original_to_placeholder,
         NEW clean, \A p \in 1..Len(t) : p \in clean <=> ~Covers(spans, p)
  PROVE  Reads(t, clean, 0, Len(spans), MaskedText(t, spans))
<1> DEFINE m == Len(spans)
           U(j) == Untouched(t, spans, j)
           State(j, x) == \E w : /\ x = SubSeq(t, 1, U(j)) \o w
                                /\ Reads(t, clean, U(j), j, w)
<1>0. m \in Nat /\ Len(t) \in Nat BY LenProperties DEF Neat
<1>1. PICK h : /\ h[0] = t
               /\ \A j \in 1..m : h[j] = Replace(t, h[j - 1], spans[(m - j) + 1])
               /\ MaskedText(t, spans) = h[m]
  BY MaskSteps
<1> DEFINE T == {j \in 0..m : State(j, h[j])}
<1>2. 0 \in T
  <2>1. U(0) = Len(t) BY DEF Untouched
  <2>2. SubSeq(t, 1, Len(t)) = t BY SubSeqFull
  <2>3. t \o <<>> = t BY ConcatEmptySeq
  <2>4. Reads(t, clean, U(0), 0, <<>>) BY <2>1, ReadsNothing
  <2>5. h[0] = SubSeq(t, 1, U(0)) \o <<>> BY <1>1, <2>1, <2>2, <2>3
  <2>6. State(0, h[0])
    <3> HIDE DEF U
    <3> QED BY <2>4, <2>5
  <2>7. 0 \in 0..m BY <1>0
  <2> HIDE DEF State, m
  <2> QED BY <2>6, <2>7
<1>3. ASSUME NEW j \in 1..m, j - 1 \in T PROVE j \in T
  <2> DEFINE span == spans[(m - j) + 1]
             a == span.start
             e == span.end
             L == U(j - 1)
             token == original_to_placeholder[Original(t, span)]
  <2>1. /\ Lies(span, Len(t)) /\ a \in Nat /\ e \in Nat
        /\ U(j) = a /\ a < e /\ e <= L /\ L \in 0..Len(t)
    <3> HIDE DEF m
    <3> QED BY UntouchedShrinks DEF m
  <2>2. /\ \A p \in (e + 1)..L : ~Covers(spans, p)
        /\ \A p \in (a + 1)..e : Covers(spans, p)
    <3> HIDE DEF m
    <3> QED BY GapsAreNotCovered DEF m
  <2>3. Original(t, span) \in DOMAIN original_to_placeholder
        /\ Original(t, span) = SubSeq(t, a + 1, e)
    <3>1. (m - j) + 1 \in 1..m BY <1>0
    <3> QED BY <3>1 DEF Original
  <2>4. h[j] = Replace(t, h[j - 1], span) BY <1>1
  <2>5. PICK w : h[j - 1] = SubSeq(t, 1, L) \o w /\ Reads(t, clean, L, j - 1, w)
    BY <1>3
  <2> HIDE DEF span, L, U
  <2>6. Reads(t, clean, e, j - 1, SubSeq(t, e + 1, L) \o w)
    <3>1. e \in 0..Len(t) /\ L \in e..Len(t) /\ j - 1 \in Nat BY <1>0, <2>1
    <3>2. \A p \in (e + 1)..L : p \in clean BY <1>0, <2>1, <2>2
    <3> QED BY <2>5, <3>1, <3>2, ReadsPlain
  <2> DEFINE w1 == SubSeq(t, e + 1, L) \o w
             w2 == <<token>> \o w1
  <2>7. Reads(t, clean, a, (j - 1) + 1, w2)
    <3>1. a \in 0..Len(t) /\ e \in a..Len(t) /\ j - 1 \in Nat BY <1>0, <2>1
    <3>2. \A p \in (a + 1)..e : p \notin clean BY <1>0, <2>1, <2>2
    <3>3. SubSeq(t, a + 1, e) \in DOMAIN original_to_placeholder
          /\ token = original_to_placeholder[SubSeq(t, a + 1, e)]
      BY <2>3
    <3>4. Reads(t, clean, e, j - 1, w1) BY <2>6
    <3> HIDE DEF w1, a, e, token
    <3> QED BY <3>1, <3>2, <3>3, <3>4, ReadsPlaceholder
  <2>8. h[j] = SubSeq(t, 1, a) \o w2
    <3>1. w \in Seq(Token) BY <2>5 DEF Reads
    <3>2. a \in 0..L /\ e \in 0..L BY <2>1
    <3>3. Begins(h[j - 1], t, L, w) BY <2>5 DEF Begins
    <3>4. /\ SubSeq(h[j - 1], 1, a) = SubSeq(t, 1, a)
          /\ SubSeq(h[j - 1], e + 1, Len(h[j - 1])) = w1
      <4>1. SubSeq(h[j - 1], 1, a) = SubSeq(t, 1, a)
        BY <2>1, <3>1, <3>2, <3>3, CutConcat
      <4>2. Drops(h[j - 1], e, t, L, w)
        BY <2>1, <3>1, <3>2, <3>3, CutConcat
      <4> QED BY <4>1, <4>2 DEF Drops
    <3>5. h[j] = (SubSeq(t, 1, a) \o <<token>>) \o w1
      <4> HIDE DEF w1, token
      <4> QED BY <2>4, <3>4 DEF Replace, token
    <3>6. SubSeq(t, 1, a) \in Seq(Token)
      <4>1. 0 \in 0..Len(t) /\ a \in 0..Len(t) /\ 0 + 1 = 1 BY <1>0, <2>1
      <4>2. SubSeq(t, 0 + 1, a) \in Seq(Token) BY <4>1, Stretch
      <4> QED BY <4>1, <4>2
    <3>7. <<token>> \in Seq(Token) BY <2>3 DEF NumbersAreCounted, Token
    <3>8. w1 \in Seq(Token) BY <2>6 DEF Reads
    <3> DEFINE u == SubSeq(t, 1, a)
               v == <<token>>
    <3>9. u \in Seq(Token) /\ v \in Seq(Token) BY <3>6, <3>7
    <3> HIDE DEF w1, u, v
    <3>10. (u \o v) \o w1 = u \o (v \o w1) BY <3>8, <3>9, ConcatAssociative
    <3> QED BY <3>5, <3>10 DEF u, v
  <2>9. (j - 1) + 1 = j /\ j \in 0..m BY <1>0
  <2>10. State(j, h[j])
    <3> HIDE DEF w2, a
    <3> QED BY <2>1, <2>7, <2>8, <2>9
  <2> HIDE DEF State
  <2> QED BY <2>9, <2>10
<1>4. \A j \in 0..m : j \in T
  <2> HIDE DEF T, m
  <2> QED BY <1>0, <1>2, <1>3, UpTo
<1>5. PICK w : h[m] = SubSeq(t, 1, U(m)) \o w /\ Reads(t, clean, U(m), m, w)
  <2>1. m \in T
    <3>1. m \in 0..m BY <1>0
    <3> HIDE DEF T, m
    <3> QED BY <1>4, <3>1
  <2>2. State(m, h[m]) BY <2>1
  <2> HIDE DEF m, U
  <2> QED BY <2>2
<1>6. U(m) \in 0..Len(t)
  <2>1. CASE m = 0 BY <1>0, <2>1 DEF Untouched
  <2>2. CASE m # 0
    <3>1. m \in 1..m BY <1>0, <2>2
    <3> DEFINE span == spans[(m - m) + 1]
    <3>2. Lies(span, Len(t)) /\ span.start \in Nat /\ U(m) = span.start
      <4> HIDE DEF m
      <4> QED BY <3>1, UntouchedShrinks DEF m
    <3> QED BY <1>0, <3>2 DEF Lies, Span
  <2> QED BY <2>1, <2>2
<1>7. \A p \in 1..U(m) : p \in clean
  <2> SUFFICES ASSUME NEW p \in 1..U(m), Covers(spans, p) PROVE FALSE
    BY <1>0, <1>6
  <2>1. p \in Int /\ p <= U(m) /\ m \in 0..m BY <1>0, <1>6
  <2>2. \E n \in 1..(m - m) : Hits(spans[n], p)
    <3> HIDE DEF m
    <3> QED BY <2>1, UntouchedIsCoveredBefore DEF m
  <2>3. 1..(m - m) = {} BY <1>0
  <2> QED BY <2>2, <2>3
<1>8. Reads(t, clean, 0, m, SubSeq(t, 0 + 1, U(m)) \o w)
  <2>1. 0 \in 0..Len(t) /\ U(m) \in 0..Len(t) /\ \A p \in (0 + 1)..U(m) : p \in clean
    BY <1>0, <1>6, <1>7
  <2> HIDE DEF U, m
  <2> QED BY <1>0, <1>5, <2>1, ReadsPlain
<1>9. 0 + 1 = 1 OBVIOUS
<1> HIDE DEF U
<1> QED BY <1>1, <1>5, <1>8, <1>9

\* What the judge gets of text i: restoring gives the text back, what is not a
\* placeholder is what nothing was found in, and there is one placeholder for
\* each span.
Faithful(i, w) ==
    /\ w \in Seq(Token)
    /\ restore(w) = texts[i]
    /\ Kept(w, Said(w)) = Kept(texts[i], Clean(i))
    /\ Len(w) = Cardinality(Clean(i)) + Len(detected[i])

\* What nothing was found in is what the merged spans do not cover.
LEMMA CleanIsUncovered ==
  ASSUME BatchIsScanned, NEW i \in 1..Len(detected)
  PROVE  /\ Clean(i) \in SUBSET (1..Len(texts[i]))
         /\ \A p \in 1..Len(texts[i]) : p \in Clean(i) <=> ~Covers(detected[i], p)
<1> DEFINE t == texts[i]
           F == found[i]
<1>1. t \in Seq(Token) /\ Len(texts) \in Nat
  <2>1. texts \in Seq(Seq(Token)) BY BatchIsFinite DEF BatchIsScanned
  <2>2. Len(texts) \in Nat /\ Len(detected) \in Nat BY <2>1, LenProperties DEF BatchIsScanned
  <2>3. i \in 1..Len(texts) BY <2>2 DEF BatchIsScanned
  <2> QED BY <2>1, <2>2, <2>3, ElementOfSeq
<1>2. DOMAIN t = 1..Len(t) /\ Len(t) \in Nat BY <1>1, LenProperties
<1>3. Clean(i) = {p \in DOMAIN t : ~\E n \in InText(F, t) : Hits(F[n], p)}
  BY DEF Clean, Covered, Hits
<1>4. \A p \in Int : Covers(detected[i], p) <=> \E n \in InText(F, t) : Hits(F[n], p)
  BY DEF BatchIsScanned
<1> HIDE DEF t, F
<1>5. Clean(i) \in SUBSET (1..Len(t))
      /\ \A p \in 1..Len(t) : p \in Clean(i) <=> ~Covers(detected[i], p)
  BY <1>2, <1>3, <1>4
<1> QED BY <1>5 DEF t

\* Masking a text all of whose spans have a placeholder.
LEMMA MaskedIsFaithful ==
  ASSUME BatchIsScanned, NumbersAreCounted, PlaceholdersAreUnambiguous,
         NEW i \in 1..Len(detected),
         \A n \in 1..Len(detected[i]) :
             Original(texts[i], detected[i][n]) \in DOMAIN original_to_placeholder
  PROVE  Faithful(i, MaskedText(texts[i], detected[i]))
<1> DEFINE t == texts[i]
           spans == detected[i]
           w == MaskedText(t, spans)
           clean == Clean(i)
<1>1. i \in 1..Len(texts)
  <2>1. texts \in Seq(Seq(Token)) BY BatchIsFinite DEF BatchIsScanned
  <2>2. Len(texts) \in Nat /\ Len(detected) \in Nat BY <2>1, LenProperties DEF BatchIsScanned
  <2> QED BY <2>2 DEF BatchIsScanned
<1>2. t \in Seq(Token) /\ \A p \in 1..Len(t) : t[p] \in Occupied
  BY <1>1, BatchIsFinite DEF BatchIsScanned
<1>3. \A p \in 1..Len(t) : t[p] \notin Issued
  BY <1>2 DEF PlaceholdersAreUnambiguous
<1>4. Neat(spans, Len(t)) BY DEF BatchIsScanned
<1>5. clean \in SUBSET (1..Len(t)) /\ \A p \in 1..Len(t) : p \in clean <=> ~Covers(spans, p)
  BY CleanIsUncovered
<1>6. IsInjective(original_to_placeholder) BY DEF PlaceholdersAreUnambiguous
<1>7. \A n \in 1..Len(spans) : Original(t, spans[n]) \in DOMAIN original_to_placeholder
  OBVIOUS
<1>8. Kept(t, clean) = FlattenSeq(KeptParts(t, clean))
  <2>1. DOMAIN t = 1..Len(t) BY <1>2, LenProperties
  <2> HIDE DEF t, clean
  <2> QED BY <2>1 DEF Kept, KeptParts
<1> HIDE DEF t, spans, clean
<1>9. Reads(t, clean, 0, Len(spans), w)
  BY <1>2, <1>3, <1>4, <1>5, <1>6, <1>7, MaskedReads
<1> HIDE DEF w
<1>10. w \in Seq(Token) /\ restore(w) = Spell(Back, w) /\ Kept(w, Said(w)) = Spell(Say, w)
  BY <1>9, BackAndSay DEF Reads
<1>11. Len(t) \in Nat /\ 0 + 1 = 1 BY <1>2, LenProperties
<1>12. SubSeq(t, 0 + 1, Len(t)) = t BY <1>2, <1>11, SubSeqFull
<1>13. SubSeq(KeptParts(t, clean), 0 + 1, Len(t)) = KeptParts(t, clean)
  <2> DEFINE F == KeptParts(t, clean)
  <2>1. F \in Seq(Seq(Token)) /\ Len(F) = Len(t) BY <1>2, KeptPartsType
  <2> HIDE DEF F
  <2>2. SubSeq(F, 1, Len(F)) = F BY <2>1, SubSeqFull
  <2>3. SubSeq(F, 0 + 1, Len(t)) = F BY <1>11, <2>1, <2>2
  <2> QED BY <2>3 DEF F
<1>14. clean \cap ((0 + 1)..Len(t)) = clean BY <1>5, <1>11
<1>15. restore(w) = t BY <1>9, <1>10, <1>12, Zenon DEF Reads
<1>16. Kept(w, Said(w)) = Kept(t, clean)
  BY <1>8, <1>9, <1>10, <1>13, Zenon DEF Reads
<1>17. Len(w) = Cardinality(clean) + Len(spans)
  BY <1>9, <1>14, Zenon DEF Reads
<1> QED BY <1>10, <1>15, <1>16, <1>17 DEF Faithful, w, t, spans, clean

------------------------------------------------------------------------------
(***************************************************************************)
(* The inductive invariant.                                                *)
(***************************************************************************)
IInv ==
    /\ BatchIsScanned
    /\ NumbersAreCounted
    /\ PastIsNamed
    /\ MaskedIsLast
    /\ PlaceholdersAreUnambiguous
    /\ \A i \in 1..Len(masked) : Faithful(i, masked[i])

\* The lengths and types the invariant gives to each action.
LEMMA InvLengths ==
  ASSUME IInv
  PROVE  /\ Len(texts) \in Nat /\ Len(detected) \in Nat /\ Len(found) \in Nat
         /\ Len(masked) \in Nat /\ next.text \in Nat \ {0} /\ next.span \in Nat \ {0}
         /\ next = [text |-> next.text, span |-> next.span]
         /\ texts \in Seq(Seq(Token))
         /\ \A i \in 1..Len(texts) : texts[i] \in Seq(Token)
         /\ \A i \in 1..Len(detected) : i \in 1..Len(texts)
         /\ \A i \in 1..Len(detected) : detected[i] \in Seq(Span) /\ Len(detected[i]) \in Nat
         /\ \A i \in 1..Len(masked) : i \in 1..Len(texts)
<1>1. /\ texts \in Seq(Seq(Token))
      /\ \A i \in 1..Len(texts) : texts[i] \in Seq(Token)
  BY BatchIsFinite DEF IInv, BatchIsScanned
<1>2. /\ Len(texts) \in Nat /\ Len(detected) \in Nat /\ Len(found) \in Nat
      /\ Len(masked) \in Nat
  BY <1>1, LenProperties DEF IInv, BatchIsScanned, MaskedIsLast
<1>3. /\ next.text \in Nat \ {0} /\ next.span \in Nat \ {0}
      /\ next = [text |-> next.text, span |-> next.span]
  BY DEF IInv, PastIsNamed
<1>4. /\ \A i \in 1..Len(detected) : i \in 1..Len(texts)
      /\ \A i \in 1..Len(masked) : i \in 1..Len(texts)
  BY <1>2 DEF IInv, BatchIsScanned, MaskedIsLast
<1>5. \A i \in 1..Len(detected) : detected[i] \in Seq(Span) /\ Len(detected[i]) \in Nat
  BY LenProperties DEF IInv, BatchIsScanned, Neat
<1> QED BY <1>1, <1>2, <1>3, <1>4, <1>5

\* A fresh request has scanned, named and masked nothing.
LEMMA InitEstablishes == ASSUME Init PROVE IInv
<1>1. <<>> \in Seq(Seq(Span)) /\ <<>> \in Seq(Seq(Token)) /\ Len(<<>>) = 0
  BY EmptySeq
<1>2. texts \in Seq(Seq(Token)) /\ Len(texts) \in Nat
  BY SanitizerAssumption, LenProperties DEF Init
<1>3. BatchIsScanned BY <1>1, <1>2 DEF Init, BatchIsScanned
<1>4. DOMAIN original_to_placeholder = {} BY DEF Init
<1>5. NumbersAreCounted
  <2>1. IsFiniteSet({}) BY FS_EmptySet
  <2>2. original_to_placeholder \in [{} -> Placeholder] BY DEF Init
  <2>3. counters \in [EntityTypes -> Nat] BY DEF Init
  <2> QED BY <1>4, <2>1, <2>2, <2>3 DEF NumbersAreCounted
<1>6. PastIsNamed BY <1>1 DEF Init, PastIsNamed
<1>7. MaskedIsLast BY <1>1, <1>2 DEF Init, MaskedIsLast
<1>8. PlaceholdersAreUnambiguous
  BY <1>4 DEF PlaceholdersAreUnambiguous, IsInjective, Issued, Range
<1>9. \A i \in 1..Len(masked) : Faithful(i, masked[i]) BY <1>1 DEF Init
<1> QED BY <1>3, <1>5, <1>6, <1>7, <1>8, <1>9 DEF IInv

\* One more text is scanned, the spans of the others stay.
LEMMA DetectKeeps == ASSUME IInv, Detect PROVE IInv'
<1> DEFINE k == Len(detected)
           text == texts[k + 1]
<1>0. /\ k \in Nat /\ k < Len(texts) /\ Len(texts) \in Nat /\ text \in Seq(Token)
      /\ Len(found) = k /\ k + 1 \in DOMAIN texts
  <2>1. k \in Nat /\ Len(texts) \in Nat /\ texts \in Seq(Seq(Token))
        /\ \A i \in 1..Len(texts) : texts[i] \in Seq(Token)
    BY InvLengths
  <2>2. k < Len(texts) BY DEF Detect
  <2>3. k + 1 \in 1..Len(texts) BY <2>1, <2>2
  <2> QED BY <2>1, <2>2, <2>3, LenProperties DEF IInv, BatchIsScanned
<1>1. PICK spans :
          /\ spans \in (IF text = <<>> THEN {<<>>} ELSE Findings(text))
          /\ found' = Append(found, spans)
          /\ detected' = Append(detected, Merge(Ordered(spans, InText(spans, text))))
  BY DEF Detect
<1>2. UNCHANGED <<texts, counters, original_to_placeholder, next, masked>>
  BY DEF Detect
<1> DEFINE merged == Merge(Ordered(spans, InText(spans, text)))
<1>3. spans \in Seq(Span)
  <2>1. texts \in Batches BY DEF IInv, BatchIsScanned
  <2>2. Findings(text) \subseteq Seq(Span) BY <1>0, <2>1, SanitizerAssumption
  <2>3. <<>> \in Seq(Span) BY EmptySeq
  <2> QED BY <1>1, <2>2, <2>3
<1>4. /\ Neat(merged, Len(text))
      /\ \A p \in Int : Covers(merged, p)
                          <=> \E n \in InText(spans, text) : Hits(spans[n], p)
  <2> HIDE DEF text
  <2> QED BY <1>0, <1>3, DetectedIsNeat
<1>5. /\ found' \in Seq(Seq(Span)) /\ Len(found') = k + 1
      /\ \A i \in 1..k : found'[i] = found[i]
      /\ found'[k + 1] = spans
  BY <1>0, <1>1, <1>3, AppendProperties DEF IInv, BatchIsScanned
<1>6. /\ detected' \in Seq(Seq(Span)) /\ Len(detected') = k + 1
      /\ \A i \in 1..k : detected'[i] = detected[i]
      /\ detected'[k + 1] = merged
  <2>1. merged \in Seq(Span) BY <1>4 DEF Neat
  <2> HIDE DEF merged
  <2>2. detected' = Append(detected, merged) BY <1>1 DEF merged
  <2> QED BY <2>1, <2>2, AppendProperties DEF IInv, BatchIsScanned
<1> HIDE DEF merged
<1>7. BatchIsScanned'
  <2>1. ASSUME NEW i \in 1..(k + 1)
        PROVE  /\ Neat(detected'[i], Len(texts[i]))
               /\ \A p \in Int : Covers(detected'[i], p) <=>
                    \E n \in InText(found'[i], texts[i]) : Hits(found'[i][n], p)
    <3>1. CASE i = k + 1 BY <1>4, <1>5, <1>6, <3>1
    <3>2. CASE i \in 1..k
      <4>1. /\ Neat(detected[i], Len(texts[i]))
            /\ \A p \in Int : Covers(detected[i], p) <=>
                    \E n \in InText(found[i], texts[i]) : Hits(found[i][n], p)
        BY <3>2 DEF IInv, BatchIsScanned
      <4> QED BY <1>5, <1>6, <3>2, <4>1
    <3> QED BY <1>0, <3>1, <3>2
  <2>2. texts \in Batches BY DEF IInv, BatchIsScanned
  <2> HIDE DEF k, text
  <2> QED BY <1>0, <1>2, <1>5, <1>6, <2>1, <2>2 DEF BatchIsScanned
<1>8. NumbersAreCounted' /\ PlaceholdersAreUnambiguous'
  BY <1>2 DEF IInv, NumbersAreCounted, PlaceholdersAreUnambiguous, Issued, Occupied
<1>9. next = [text |-> 1, span |-> 1] BY <1>0 DEF IInv, PastIsNamed
<1>10. PastIsNamed'
  <2>1. ASSUME NEW i \in 1..Len(detected'), NEW n \in 1..Len(detected'[i])
        PROVE  ~(Past(i, n))'
    <3>1. next' = [text |-> 1, span |-> 1] BY <1>2, <1>9
    <3> QED BY <3>1 DEF Past
  <2> QED BY <1>2, <1>9, <2>1 DEF IInv, PastIsNamed
<1>11. masked = <<>> BY <1>0 DEF IInv, MaskedIsLast
<1>12. MaskedIsLast' BY <1>2, <1>11 DEF IInv, MaskedIsLast
<1>13. (\A i \in 1..Len(masked) : Faithful(i, masked[i]))'
  <2>1. masked' = <<>> /\ Len(masked') = 0 BY <1>2, <1>11
  <2> QED BY <2>1
<1> QED BY <1>7, <1>8, <1>10, <1>12, <1>13 DEF IInv

\* The spans of a text that is left are all past.
LEMMA NextTextKeeps == ASSUME IInv, NextText PROVE IInv'
<1>0. /\ next.text \in Nat \ {0} /\ next.span \in Nat \ {0} /\ next.text <= Len(texts)
      /\ Len(detected) = Len(texts) /\ Len(texts) \in Nat
      /\ next.span > Len(detected[next.text]) /\ Len(detected[next.text]) \in Nat
      /\ next' = [text |-> next.text + 1, span |-> 1]
      /\ UNCHANGED <<texts, found, detected, counters, original_to_placeholder, masked>>
  <2>1. next.text <= Len(texts) /\ Len(detected) = Len(texts) BY DEF NextText, Due
  <2>2. next.text \in 1..Len(detected) BY <2>1, InvLengths
  <2> QED BY <2>1, <2>2, InvLengths DEF NextText
<1>1. BatchIsScanned' /\ NumbersAreCounted' /\ PlaceholdersAreUnambiguous'
  BY <1>0 DEF IInv, BatchIsScanned, NumbersAreCounted, PlaceholdersAreUnambiguous,
              Issued, Occupied
<1>2. PastIsNamed'
  <2>1. ASSUME NEW i \in 1..Len(detected), NEW n \in 1..Len(detected[i]), Past(i, n)'
        PROVE  Original(texts[i], detected[i][n]) \in DOMAIN original_to_placeholder
    <3>1. i \in Nat /\ n \in Nat /\ 1 <= n BY <1>0, InvLengths
    <3>2. i < next.text + 1 BY <1>0, <2>1, <3>1 DEF Past
    <3>3. i < next.text \/ (i = next.text /\ n < next.span)
      BY <1>0, <3>1, <3>2
    <3> QED BY <3>3 DEF IInv, PastIsNamed, Past
  <2>2. next' \in [text : Nat \ {0}, span : Nat \ {0}] BY <1>0
  <2> QED BY <1>0, <2>1, <2>2 DEF PastIsNamed, Original
<1>3. masked = <<>> BY <1>0 DEF IInv, MaskedIsLast
<1>4. MaskedIsLast' BY <1>0, <1>3 DEF IInv, MaskedIsLast
<1>5. (\A i \in 1..Len(masked) : Faithful(i, masked[i]))'
  <2>1. masked' = <<>> /\ Len(masked') = 0 BY <1>0, <1>3
  <2> QED BY <2>1
<1> QED BY <1>1, <1>2, <1>4, <1>5 DEF IInv

\* A number that is free keeps the placeholders apart from each other and from
\* the batch.
LEMMA AssignKeeps == ASSUME IInv, Assign PROVE IInv'
<1> DEFINE text == texts[next.text]
           span == detected[next.text][next.span]
           original == Original(text, span)
           number == NextNumber(span.type)
           otp == original_to_placeholder
<1>0. /\ next.text \in 1..Len(texts) /\ next.span \in Nat \ {0}
      /\ Len(detected) = Len(texts) /\ Len(texts) \in Nat
      /\ next.span \in 1..Len(detected[next.text])
      /\ text \in Seq(Token)
      /\ UNCHANGED <<texts, found, detected, masked>>
      /\ next' = [text |-> next.text, span |-> next.span + 1]
  <2>1. next.text <= Len(texts) /\ Len(detected) = Len(texts)
        /\ next.span <= Len(detected[next.text])
        /\ UNCHANGED <<texts, found, detected, masked>>
        /\ next' = [next EXCEPT !.span = @ + 1]
    BY DEF Assign, Due
  <2>2. next.text \in 1..Len(detected) BY <2>1, InvLengths
  <2>3. Len(detected[next.text]) \in Nat /\ next.span \in Nat \ {0} BY <2>2, InvLengths
  <2>4. next' = [text |-> next.text, span |-> next.span + 1]
    <3>1. next = [text |-> next.text, span |-> next.span] BY InvLengths
    <3> QED BY <2>1, <3>1
  <2>5. texts[next.text] \in Seq(Token) /\ Len(texts) \in Nat BY <2>1, <2>2, InvLengths
  <2>6. next.span \in 1..Len(detected[next.text]) BY <2>1, <2>3
  <2> QED BY <2>1, <2>2, <2>3, <2>4, <2>5, <2>6
<1>1. Lies(span, Len(text)) BY <1>0 DEF IInv, BatchIsScanned, Neat
<1>2. original \in Seq(Token)
  <2>1. Len(text) \in Nat BY <1>0, LenProperties
  <2>2. span.start \in 0..Len(text) /\ span.end \in span.start..Len(text)
    BY <1>1, <2>1 DEF Lies, Span
  <2> HIDE DEF text, span
  <2> QED BY <1>0, <2>2, Stretch DEF Original
<1>3. span.type \in EntityTypes BY <1>1 DEF Lies, Span
<1>4. number \in Nat /\ <<span.type, number>> \notin Occupied \cup Issued
  BY <1>3, NextNumberIsFree DEF IInv
<1>5. \/ /\ original \notin DOMAIN otp
         /\ counters' = [counters EXCEPT ![span.type] = number]
         /\ otp' = [o \in DOMAIN otp \cup {original} |->
                        IF o = original THEN <<span.type, number>> ELSE otp[o]]
      \/ original \in DOMAIN otp /\ UNCHANGED <<counters, original_to_placeholder>>
  BY DEF Assign, Unmapped
<1>6. BatchIsScanned' BY <1>0 DEF IInv, BatchIsScanned
<1> HIDE DEF text, span, number
<1>7. /\ counters' \in [EntityTypes -> Nat]
      /\ DOMAIN otp' = DOMAIN otp \cup {original}
      /\ \A o \in DOMAIN otp : otp'[o] = otp[o]
      /\ otp' \in [DOMAIN otp' -> Placeholder]
      /\ original \in DOMAIN otp \/ otp'[original] = <<span.type, number>>
  <2>1. /\ counters \in [EntityTypes -> Nat]
        /\ otp \in [DOMAIN otp -> Placeholder]
    BY DEF IInv, NumbersAreCounted
  <2>2. <<span.type, number>> \in Placeholder BY <1>3, <1>4 DEF Placeholder
  <2> HIDE DEF original
  <2>3. CASE original \in DOMAIN otp BY <1>5, <2>1, <2>3
  <2>4. CASE original \notin DOMAIN otp
    <3>1. otp' = [o \in DOMAIN otp \cup {original} |->
                        IF o = original THEN <<span.type, number>> ELSE otp[o]]
      BY <1>5, <2>4
    <3>2. DOMAIN otp' = DOMAIN otp \cup {original} BY <3>1
    <3>3. \A o \in DOMAIN otp : otp'[o] = otp[o] BY <2>4, <3>1
    <3>4. otp'[original] = <<span.type, number>> BY <3>1
    <3>5. otp' \in [DOMAIN otp' -> Placeholder] BY <2>1, <2>2, <3>1
    <3>6. counters' \in [EntityTypes -> Nat] BY <1>4, <1>5, <2>1, <2>4
    <3> QED BY <3>2, <3>3, <3>4, <3>5, <3>6
  <2> QED BY <2>3, <2>4
<1> HIDE DEF original
<1>8. NumbersAreCounted'
  <2>1. /\ IsFiniteSet(DOMAIN otp) /\ DOMAIN otp \subseteq Seq(Token)
    BY DEF IInv, NumbersAreCounted
  <2>2. IsFiniteSet(DOMAIN otp \cup {original})
    BY <2>1, FS_Singleton, FS_Union
  <2> QED BY <1>2, <1>7, <2>1, <2>2 DEF NumbersAreCounted
<1>9. PlaceholdersAreUnambiguous'
  <2>1. IsInjective(otp) /\ Issued \cap Occupied = {}
    BY DEF IInv, PlaceholdersAreUnambiguous
  <2>2. \A o \in DOMAIN otp : otp[o] \in Issued BY DEF Issued, Range
  <2>3. Occupied' = Occupied BY <1>0 DEF Occupied
  <2>4. \A a, b \in DOMAIN otp' : otp'[a] = otp'[b] => a = b
    BY <1>4, <1>7, <2>1, <2>2 DEF IsInjective
  <2>5. \A o \in DOMAIN otp' : otp'[o] \notin Occupied
    BY <1>4, <1>7, <2>1, <2>2
  <2> QED BY <2>3, <2>4, <2>5 DEF PlaceholdersAreUnambiguous, IsInjective, Issued, Range
<1>10. PastIsNamed'
  <2>1. ASSUME NEW i \in 1..Len(detected), NEW n \in 1..Len(detected[i]), Past(i, n)'
        PROVE  Original(texts[i], detected[i][n]) \in DOMAIN otp'
    <3>1. i \in Nat /\ n \in Nat BY <1>0, InvLengths
    <3>2. i < next.text \/ (i = next.text /\ n < next.span + 1)
      BY <1>0, <2>1 DEF Past
    <3>3. CASE i = next.text /\ n = next.span
      BY <1>7, <3>3 DEF original, text, span
    <3>4. CASE Past(i, n)
      <4>1. Original(texts[i], detected[i][n]) \in DOMAIN otp
        BY <3>4 DEF IInv, PastIsNamed
      <4> QED BY <1>7, <4>1
    <3> QED BY <1>0, <3>1, <3>2, <3>3, <3>4 DEF Past
  <2>2. next' \in [text : Nat \ {0}, span : Nat \ {0}] BY <1>0
  <2> QED BY <1>0, <2>1, <2>2 DEF PastIsNamed, Original
<1>11. masked = <<>> BY <1>0 DEF IInv, MaskedIsLast
<1>12. MaskedIsLast' BY <1>0, <1>11 DEF IInv, MaskedIsLast
<1>13. (\A i \in 1..Len(masked) : Faithful(i, masked[i]))'
  <2>1. masked' = <<>> /\ Len(masked') = 0 BY <1>0, <1>11
  <2> QED BY <2>1
<1> QED BY <1>6, <1>8, <1>9, <1>10, <1>12, <1>13 DEF IInv

\* A text is masked after every span of the batch was named.
LEMMA MaskKeeps == ASSUME IInv, Mask PROVE IInv'
<1> DEFINE k == Len(masked)
           w == MaskedText(texts[k + 1], detected[k + 1])
<1>0. /\ next.text > Len(texts) /\ k \in Nat /\ k < Len(texts) /\ Len(texts) \in Nat
      /\ masked' = Append(masked, w)
      /\ UNCHANGED <<texts, found, detected, counters, original_to_placeholder, next>>
  BY InvLengths DEF Mask
<1>1. Len(detected) = Len(texts)
  <2>1. CASE next = [text |-> 1, span |-> 1] BY <1>0, <2>1
  <2>2. CASE next # [text |-> 1, span |-> 1] BY <2>2 DEF IInv, PastIsNamed
  <2> QED BY <2>1, <2>2
<1>2. k + 1 \in 1..Len(detected) BY <1>0, <1>1
<1>3. Faithful(k + 1, w)
  <2>1. \A n \in 1..Len(detected[k + 1]) :
            Original(texts[k + 1], detected[k + 1][n]) \in DOMAIN original_to_placeholder
    <3>1. k + 1 < next.text BY <1>0, InvLengths
    <3> QED BY <1>2, <3>1 DEF IInv, PastIsNamed, Past
  <2> HIDE DEF k
  <2> QED BY <1>2, <2>1, MaskedIsFaithful DEF IInv
<1> HIDE DEF w
<1>4. /\ masked' \in Seq(Seq(Token)) /\ Len(masked') = k + 1
      /\ \A i \in 1..k : masked'[i] = masked[i]
      /\ masked'[k + 1] = w
  <2>1. w \in Seq(Token) /\ masked \in Seq(Seq(Token))
    BY <1>3 DEF Faithful, IInv, MaskedIsLast
  <2> QED BY <1>0, <2>1, AppendProperties
<1>5. BatchIsScanned' /\ NumbersAreCounted' /\ PlaceholdersAreUnambiguous'
  BY <1>0 DEF IInv, BatchIsScanned, NumbersAreCounted, PlaceholdersAreUnambiguous,
              Issued, Occupied
<1>6. PastIsNamed' BY <1>0 DEF IInv, PastIsNamed, Past, Original
<1>7. MaskedIsLast' BY <1>0, <1>1, <1>4 DEF MaskedIsLast
<1>8. (\A i \in 1..Len(masked) : Faithful(i, masked[i]))'
  <2>1. ASSUME NEW i \in 1..(k + 1) PROVE Faithful(i, masked'[i])
    <3>1. CASE i = k + 1 BY <1>3, <1>4, <3>1
    <3>2. CASE i \in 1..k BY <1>4, <3>2 DEF IInv
    <3> QED BY <1>0, <3>1, <3>2
  <2>2. ASSUME NEW i \in 1..Len(masked') PROVE Faithful(i, masked[i])'
    <3>1. Faithful(i, masked'[i]) BY <1>4, <2>1, <2>2
    <3>2. UNCHANGED <<texts, found, detected, original_to_placeholder>> BY <1>0
    <3> QED BY <3>1, <3>2 DEF Faithful, restore, Said, Clean, Covered, Issued, mapping, Kept
  <2> QED BY <2>2
<1> QED BY <1>5, <1>6, <1>7, <1>8 DEF IInv

\* The invariant reads nothing but the variables.
LEMMA StutterKeeps == ASSUME IInv, UNCHANGED vars PROVE IInv'
<1>1. UNCHANGED <<texts, found, detected, counters, original_to_placeholder, next, masked>>
  BY DEF vars
<1>2. BatchIsScanned' /\ NumbersAreCounted' /\ PlaceholdersAreUnambiguous'
  BY <1>1 DEF IInv, BatchIsScanned, NumbersAreCounted, PlaceholdersAreUnambiguous,
              Issued, Occupied
<1>3. PastIsNamed' /\ MaskedIsLast'
  BY <1>1 DEF IInv, PastIsNamed, Past, Original, MaskedIsLast
<1>4. ASSUME NEW i \in 1..Len(masked') PROVE Faithful(i, masked[i])'
  <2>1. Faithful(i, masked[i]) BY <1>1 DEF IInv
  <2>2. Faithful(i, masked'[i]) BY <1>1, <2>1
  <2> QED
    BY <1>1, <2>2 DEF Faithful, restore, Said, Clean, Covered, Issued, mapping, Kept
<1> QED BY <1>2, <1>3, <1>4 DEF IInv

\* What the sanitizer keeps through a request: the spans of a scanned text do
\* not overlap and cover what was found, every span that is past has its
\* placeholder, and a text is masked only when all of them have one.
THEOREM Inductive == Spec => []IInv
<1>1. Init => IInv BY InitEstablishes
<1>2. IInv /\ [Next]_vars => IInv'
  <2> SUFFICES ASSUME IInv, [Next]_vars PROVE IInv'
    OBVIOUS
  <2>1. CASE Detect BY <2>1, DetectKeeps
  <2>2. CASE NextText BY <2>2, NextTextKeeps
  <2>3. CASE Assign BY <2>3, AssignKeeps
  <2>4. CASE Mask BY <2>4, MaskKeeps
  <2>5. CASE UNCHANGED vars BY <2>5, StutterKeeps
  <2> QED BY <2>1, <2>2, <2>3, <2>4, <2>5 DEF Next
<1> QED BY <1>1, <1>2, PTL DEF Spec

\* For every batch and every answer of the analyzer: the judge sees of a text
\* exactly the tokens nothing was found in, and one placeholder for each merged
\* span; no overlap leaves part of a finding exposed.
THEOREM NothingSurvives == Spec => []NothingFoundSurvives
<1>1. IInv => NothingFoundSurvives
  <2> SUFFICES ASSUME IInv PROVE NothingFoundSurvives
    OBVIOUS
  <2>1. DOMAIN masked = 1..Len(masked) BY LenProperties DEF IInv, MaskedIsLast
  <2> QED BY <2>1 DEF IInv, Faithful, NothingFoundSurvives
<1> QED BY <1>1, Inductive, PTL

\* A placeholder stands for one original of the batch and is none of the tokens
\* the batch came with, so none can be taken for another.
THEOREM Unambiguous == Spec => []PlaceholdersAreUnambiguous
<1>1. IInv => PlaceholdersAreUnambiguous BY DEF IInv
<1> QED BY <1>1, Inductive, PTL

\* Restoring a masked text gives the text as it came, token by token, even if
\* it held something that looks like a placeholder.
THEOREM Restores == Spec => []RestoreInverts
<1>1. IInv => RestoreInverts
  <2> SUFFICES ASSUME IInv PROVE RestoreInverts
    OBVIOUS
  <2>1. DOMAIN masked = 1..Len(masked) BY LenProperties DEF IInv, MaskedIsLast
  <2> QED BY <2>1 DEF IInv, Faithful, RestoreInverts
<1> QED BY <1>1, Inductive, PTL

------------------------------------------------------------------------------
(***************************************************************************)
(* Matching: what match_spans makes of labels and detections.              *)
(***************************************************************************)

\* Spans that follow each other are all different, and stay in order when one
\* is taken out.
LEMMA NeatWithoutOne ==
  ASSUME NEW size \in Nat, NEW spans, Neat(spans, size), NEW i \in 1..Len(spans)
  PROVE  /\ Neat(RemoveAt(spans, i), size)
         /\ Len(RemoveAt(spans, i)) = Len(spans) - 1
         /\ ToSet(RemoveAt(spans, i)) = ToSet(spans) \ {spans[i]}
<1> DEFINE n == Len(spans)
           rest == RemoveAt(spans, i)
           at(j) == IF j < i THEN j ELSE j + 1
<1>0. n \in Nat /\ spans \in Seq(Span) /\ DOMAIN spans = 1..n BY LenProperties DEF Neat
<1>1. rest \in Seq(Span) /\ Len(rest) = n - 1 /\ \A j \in 1..(n - 1) : rest[j] = spans[at(j)]
  BY <1>0, RemoveAtIs
<1>2. /\ \A j \in 1..(n - 1) : at(j) \in 1..n /\ at(j) # i
      /\ \A j, k \in 1..(n - 1) : j < k => at(j) < at(k)
      /\ \A k \in 1..n : k # i => \E j \in 1..(n - 1) : at(j) = k
  <2>1. ASSUME NEW k \in 1..n, k # i PROVE \E j \in 1..(n - 1) : at(j) = k
    <3>1. CASE k < i
      <4>1. k \in 1..(n - 1) /\ at(k) = k BY <1>0, <3>1
      <4> QED BY <4>1
    <3>2. CASE k > i
      <4>1. k - 1 \in 1..(n - 1) /\ at(k - 1) = k BY <1>0, <3>2
      <4> QED BY <4>1
    <3> QED BY <1>0, <2>1, <3>1, <3>2
  <2> QED BY <1>0, <2>1
<1>3. \A j, k \in 1..n : j # k => spans[j] # spans[k]
  <2> SUFFICES ASSUME NEW j \in 1..n, NEW k \in 1..n, j < k PROVE spans[j] # spans[k]
    BY <1>0
  <2>1. spans[j].end <= spans[k].start /\ Lies(spans[j], size) /\ Lies(spans[k], size)
    BY DEF Neat
  <2> QED BY <2>1 DEF Lies, Span
<1> HIDE DEF at, rest, n
<1>4. Neat(rest, size)
  <2>1. \A j \in 1..(n - 1) : Lies(rest[j], size) BY <1>1, <1>2 DEF Neat, n
  <2>2. \A j, k \in 1..(n - 1) : j < k => rest[j].end <= rest[k].start
    BY <1>1, <1>2 DEF Neat, n
  <2> QED BY <1>1, <2>1, <2>2 DEF Neat
<1>5. ToSet(rest) = ToSet(spans) \ {spans[i]}
  <2>0. i \in 1..n BY DEF n
  <2>1. DOMAIN rest = 1..(n - 1) BY <1>1, LenProperties
  <2>2. ASSUME NEW x \in ToSet(rest) PROVE x \in ToSet(spans) \ {spans[i]}
    <3>1. PICK j \in 1..(n - 1) : x = rest[j] BY <2>1, <2>2 DEF ToSet
    <3> QED BY <1>0, <1>1, <1>2, <1>3, <2>0, <3>1 DEF ToSet
  <2>3. ASSUME NEW x \in ToSet(spans) \ {spans[i]} PROVE x \in ToSet(rest)
    <3>1. PICK k \in 1..n : x = spans[k] BY <1>0, <2>3 DEF ToSet
    <3>2. PICK j \in 1..(n - 1) : at(j) = k BY <1>2, <2>3, <3>1
    <3> QED BY <1>1, <2>1, <3>1, <3>2 DEF ToSet
  <2> QED BY <2>2, <2>3
<1> QED BY <1>1, <1>4, <1>5 DEF rest, n

\* Spans that follow each other can be counted as a list or as a set.
LEMMA NeatCount ==
  ASSUME NEW size \in Nat, NEW spans, Neat(spans, size), NEW P
  PROVE  /\ IsFiniteSet(ToSet(spans))
         /\ Len(spans) = Cardinality(ToSet(spans))
         /\ Cardinality({n \in DOMAIN spans : spans[n] \in P})
                = Cardinality(ToSet(spans) \cap P)
<1> DEFINE n == Len(spans)
           B == ToSet(spans)
<1>0. n \in Nat /\ spans \in Seq(Span) /\ DOMAIN spans = 1..n BY LenProperties DEF Neat
<1>1. \A j, k \in 1..n : spans[j] = spans[k] => j = k
  <2> SUFFICES ASSUME NEW j \in 1..n, NEW k \in 1..n, j < k PROVE spans[j] # spans[k]
    BY <1>0
  <2>1. spans[j].end <= spans[k].start /\ Lies(spans[j], size) /\ Lies(spans[k], size)
    BY DEF Neat
  <2> QED BY <2>1 DEF Lies, Span
<1>2. ASSUME NEW Q
      PROVE  /\ IsFiniteSet(B \cap Q)
             /\ Cardinality({j \in 1..n : spans[j] \in Q}) = Cardinality(B \cap Q)
  <2> DEFINE D == {j \in 1..n : spans[j] \in Q}
             h == [j \in D |-> spans[j]]
  <2>1. IsFiniteSet(D)
    <3>1. IsFiniteSet(1..n) BY <1>0, FS_Interval
    <3> QED BY <3>1, FS_Subset
  <2>2. h \in Bijection(D, B \cap Q)
    <3>1. h \in [D -> B \cap Q] BY <1>0 DEF ToSet
    <3>2. \A j, k \in D : h[j] = h[k] => j = k BY <1>1
    <3>3. \A x \in B \cap Q : \E j \in D : h[j] = x
      <4> SUFFICES ASSUME NEW x \in B \cap Q PROVE \E j \in D : h[j] = x
        OBVIOUS
      <4>1. PICK j \in 1..n : spans[j] = x BY <1>0 DEF ToSet
      <4> QED BY <4>1
    <3> HIDE DEF h, D, B
    <3> QED BY <3>1, <3>2, <3>3 DEF Bijection, Injection, Surjection, IsInjective
  <2> HIDE DEF D, h, B
  <2>3. IsFiniteSet(B \cap Q) /\ Cardinality(B \cap Q) = Cardinality(D)
    <3>1. ExistsBijection(D, B \cap Q) BY <2>2 DEF ExistsBijection
    <3> QED BY <2>1, <3>1, FS_Bijection
  <2> QED BY <2>3 DEF D
<1>3. B \cap B = B /\ {j \in 1..n : spans[j] \in B} = 1..n BY <1>0 DEF ToSet
<1>4. Cardinality(1..n) = n
  <2>1. 1 \in Int /\ n \in Int /\ (1 > n <=> n = 0) /\ (n - 1) + 1 = n BY <1>0
  <2> HIDE DEF n
  <2> QED BY <2>1, FS_Interval
<1>5. IsFiniteSet(B) /\ Cardinality(1..n) = Cardinality(B)
  <2> HIDE DEF B, n
  <2> QED BY <1>2, <1>3
<1>6. Cardinality({j \in 1..n : spans[j] \in P}) = Cardinality(B \cap P) BY <1>2
<1> QED BY <1>0, <1>4, <1>5, <1>6

HowMany(l, P) == Cardinality({n \in DOMAIN l : l[n] \in P})

\* One more at the end of a list.
LEMMA CountAppend ==
  ASSUME NEW X, NEW s \in Seq(X), NEW x \in X, NEW P
  PROVE  /\ HowMany(s, P) \in Nat
         /\ HowMany(Append(s, x), P) = HowMany(s, P) + (IF x \in P THEN 1 ELSE 0)
<1> DEFINE n == Len(s)
           of(l) == {k \in DOMAIN l : l[k] \in P}
           t == Append(s, x)
<1>1. n \in Nat /\ DOMAIN s = 1..n BY LenProperties
<1>2. DOMAIN t = 1..(n + 1) /\ t[n + 1] = x /\ \A k \in 1..n : t[k] = s[k]
  <2>1. t \in Seq(X) /\ Len(t) = n + 1 /\ t[n + 1] = x /\ \A k \in 1..n : t[k] = s[k]
    BY AppendProperties
  <2> HIDE DEF t
  <2> QED BY <2>1, LenProperties
<1>3. of(t) = IF x \in P THEN of(s) \cup {n + 1} ELSE of(s) BY <1>1, <1>2
<1>4. n + 1 \notin of(s) BY <1>1
<1>5. IsFiniteSet(of(s))
  <2>1. IsFiniteSet(1..n) BY <1>1, FS_Interval
  <2> QED BY <1>1, <2>1, FS_Subset
<1> HIDE DEF of, t
<1>6. Cardinality(of(s)) \in Nat BY <1>5, FS_CardinalityType
<1>7. Cardinality(of(s) \cup {n + 1}) = Cardinality(of(s)) + 1 BY <1>4, <1>5, FS_AddElement
<1>8. Cardinality(of(t)) = Cardinality(of(s)) + (IF x \in P THEN 1 ELSE 0)
  BY <1>3, <1>6, <1>7
<1> QED BY <1>6, <1>8 DEF HowMany, of, t

\* What match_spans keeps.
Result == [matched : Seq(Span \X Span), missed : Seq(Span), spurious : Seq(Span)]

\* The labels a candidate could be paired with now.
Partners(result, candidate, typed) ==
    {i \in DOMAIN result.missed : Pairs(candidate, result.missed[i], typed)}

\* One candidate: it is spurious, or the first label it hits is matched.
LEMMA MatchIs ==
  ASSUME NEW result \in Result, NEW candidate \in Span, NEW typed
  PROVE  LET hits == Partners(result, candidate, typed)
             after == Match(result, candidate, typed)
             i == Min(hits)
         IN  /\ after \in Result
             /\ hits \in SUBSET (1..Len(result.missed))
             /\ hits = {} => /\ after.matched = result.matched
                             /\ after.missed = result.missed
                             /\ after.spurious = Append(result.spurious, candidate)
             /\ hits # {} => /\ i \in hits /\ \A k \in hits : i <= k
                             /\ after.matched = Append(result.matched,
                                                       <<result.missed[i], candidate>>)
                             /\ after.missed = RemoveAt(result.missed, i)
                             /\ after.spurious = result.spurious
<1> DEFINE hits == Partners(result, candidate, typed)
           after == Match(result, candidate, typed)
           i == Min(hits)
<1>1. /\ result.matched \in Seq(Span \X Span) /\ result.missed \in Seq(Span)
      /\ result.spurious \in Seq(Span)
      /\ result = [matched |-> result.matched, missed |-> result.missed,
                   spurious |-> result.spurious]
  BY DEF Result
<1>2. hits \in SUBSET (1..Len(result.missed)) /\ hits \in SUBSET Nat
  BY <1>1, LenProperties DEF Partners
<1>3. CASE hits = {}
  <2>1. after = [result EXCEPT !.spurious = Append(@, candidate)]
    BY <1>3 DEF Match, Partners
  <2>2. Append(result.spurious, candidate) \in Seq(Span) BY <1>1, AppendProperties
  <2>3. after = [matched |-> result.matched, missed |-> result.missed,
                 spurious |-> Append(result.spurious, candidate)]
    BY <1>1, <2>1
  <2>4. after \in Result BY <1>1, <2>2, <2>3 DEF Result
  <2> HIDE DEF after, hits
  <2>5. /\ after.matched = result.matched /\ after.missed = result.missed
        /\ after.spurious = Append(result.spurious, candidate)
    BY <2>3
  <2> QED BY <1>2, <1>3, <2>4, <2>5 DEF after, hits
<1>4. CASE hits # {}
  <2>0. after = [result EXCEPT
                   !.matched = Append(@, <<result.missed[i], candidate>>),
                   !.missed = RemoveAt(@, i)]
    BY <1>4 DEF Match, Partners
  <2>1. i \in hits /\ \A k \in hits : i <= k
    <3> HIDE DEF hits
    <3> QED BY <1>2, <1>4, MinIsMin
  <2> HIDE DEF after, hits, i
  <2>2. i \in 1..Len(result.missed) BY <1>2, <2>1
  <2>3. result.missed[i] \in Span /\ RemoveAt(result.missed, i) \in Seq(Span)
    BY <1>1, <2>2, ElementOfSeq, RemoveAtIs
  <2> DEFINE m == Append(result.matched, <<result.missed[i], candidate>>)
             r == RemoveAt(result.missed, i)
  <2>4. m \in Seq(Span \X Span) BY <1>1, <2>3, AppendProperties
  <2>5. after = [matched |-> m, missed |-> r, spurious |-> result.spurious]
    BY <1>1, <2>0
  <2>6. r \in Seq(Span) BY <2>3
  <2> HIDE DEF m, r
  <2>7. after \in Result BY <1>1, <2>4, <2>5, <2>6 DEF Result
  <2>8. after.matched = m /\ after.missed = r /\ after.spurious = result.spurious
    BY <2>5
  <2> QED BY <1>2, <1>4, <2>1, <2>7, <2>8 DEF m, r, after, hits, i
<1> QED BY <1>3, <1>4

\* f lists the results after each candidate.
Results(f, expected, candidates, typed) ==
    /\ f \in [0..Len(candidates) -> Result]
    /\ f[0] = [matched |-> <<>>, missed |-> expected, spurious |-> <<>>]
    /\ \A j \in 1..Len(candidates) : f[j] = Match(f[j - 1], candidates[j], typed)

\* match_spans takes the candidates one by one.
LEMMA MatchSteps ==
  ASSUME NEW expected \in Seq(Span), NEW candidates \in Seq(Span), NEW typed
  PROVE  \E f : /\ Results(f, expected, candidates, typed)
                /\ match_spans(expected, candidates, typed) = f[Len(candidates)]
<1> DEFINE n == Len(candidates)
           base == [matched |-> <<>>, missed |-> expected, spurious |-> <<>>]
           op(i, r) == Match(r, candidates[i], typed)
           g == [p \in (1..n) \X Result |-> op(p[1], p[2])]
           Iter(f) == [s \in SUBSET DOMAIN candidates |->
                        IF s = {} THEN base ELSE op(Max(s), f[s \ {Max(s)}])]
<1>0. n \in Nat /\ DOMAIN candidates = 1..n /\ base \in Result
  <2>1. <<>> \in Seq(Span \X Span) /\ <<>> \in Seq(Span) BY EmptySeq
  <2> QED BY <2>1, LenProperties DEF Result
<1>1. \A i \in 1..n, r \in Result : op(i, r) \in Result
  BY MatchIs, ElementOfSeq
<1>2. g \in [(1..n) \X Result -> Result]
  <2> HIDE DEF op, n
  <2> QED BY <1>1
<1>3. \A i \in 1..n, r \in Result : g[<<i, r>>] = op(i, r)
  OBVIOUS
<1> HIDE DEF g, n, base, op
<1>4. PICK f \in [SUBSET (1..n) -> Result] : BySets(f, n, base, g)
  BY <1>0, <1>2, SetBySet
<1>5. ASSUME NEW s \in SUBSET (1..n), s # {}
      PROVE  f[s] = op(Max(s), f[s \ {Max(s)}])
  <2>1. Max(s) \in 1..n /\ s \ {Max(s)} \in SUBSET (1..n) BY <1>0, <1>5, MaxIn
  <2>2. f[s \ {Max(s)}] \in Result BY <2>1
  <2>3. f[s] = g[<<Max(s), f[s \ {Max(s)}]>>] BY <1>4, <1>5 DEF BySets
  <2> QED BY <1>3, <2>1, <2>2, <2>3
<1>6. f = Iter(f)
  <2>1. f[{}] = base BY <1>4 DEF BySets
  <2> QED BY <1>0, <1>4, <1>5, <2>1
<1> DEFINE it == CHOOSE h : h = Iter(h)
<1>7. it = Iter(it)
  BY <1>6
<1>8. match_spans(expected, candidates, typed) = it[DOMAIN candidates]
  BY DEF match_spans, FoldLeft, MapThenFoldSet, op, base
<1> HIDE DEF it
<1>9. it[{}] = base BY <1>7
<1>10. ASSUME NEW s \in SUBSET (1..n), s # {}
       PROVE  it[s] = op(Max(s), it[s \ {Max(s)}])
  BY <1>0, <1>7, <1>10
<1> DEFINE h == [i \in 0..n |-> it[1..i]]
<1>11. h[0] = base
  <2>1. 1..0 = {} /\ 0 \in 0..n BY <1>0
  <2>2. h[0] = it[1..0] BY <2>1
  <2> HIDE DEF h
  <2> QED BY <1>9, <2>1, <2>2
<1>12. ASSUME NEW i \in 1..n PROVE h[i] = op(i, h[i - 1])
  <2>1. 1..i \in SUBSET (1..n) /\ i \in 1..i BY <1>0
  <2>2. Max(1..i) = i BY <1>0, MaxOfFirst
  <2>3. (1..i) \ {i} = 1..(i - 1) BY <1>0
  <2>4. h[i] = it[1..i] /\ h[i - 1] = it[1..(i - 1)] BY <1>0
  <2>5. it[1..i] = op(i, it[(1..i) \ {i}]) BY <1>10, <2>1, <2>2
  <2> HIDE DEF h
  <2> QED BY <2>3, <2>4, <2>5
<1>13. match_spans(expected, candidates, typed) = h[n]
  BY <1>0, <1>8
<1> HIDE DEF h
<1>14. \A i \in 0..n : h[i] \in Result
  <2> DEFINE T == {i \in 0..n : h[i] \in Result}
  <2>1. 0 \in T BY <1>0, <1>11
  <2>2. ASSUME NEW i \in 1..n, i - 1 \in T PROVE i \in T
    <3>1. op(i, h[i - 1]) \in Result BY <1>1, <2>2
    <3> QED BY <1>0, <1>12, <3>1
  <2> HIDE DEF T
  <2>3. \A i \in 0..n : i \in T BY <1>0, <2>1, <2>2, UpTo
  <2> QED BY <2>3 DEF T
<1>15. h \in [0..n -> Result] BY <1>14 DEF h
<1> QED BY <1>11, <1>12, <1>13, <1>15 DEF Results, n, base, op

\* A candidate that hits no label that is left.
IsSpurious(before, after, candidate, typed) ==
    /\ \A s \in ToSet(before.missed) : ~Pairs(candidate, s, typed)
    /\ after.missed = before.missed /\ after.matched = before.matched
    /\ after.spurious = Append(before.spurious, candidate)

\* A candidate that takes the label s, the earliest it hits.
Takes(before, after, s, candidate, typed) ==
    /\ s \in ToSet(before.missed) /\ Pairs(candidate, s, typed)
    /\ \A u \in ToSet(before.missed) : Pairs(candidate, u, typed) => s.start <= u.start
    /\ after.matched = Append(before.matched, <<s, candidate>>)
    /\ ToSet(after.missed) = ToSet(before.missed) \ {s}
    /\ Len(after.missed) = Len(before.missed) - 1
    /\ after.spurious = before.spurious

\* Every candidate does one or the other, and the labels left stay in order.
LEMMA MatchTakes ==
  ASSUME NEW size \in Nat, NEW result \in Result, Neat(result.missed, size),
         NEW candidate \in Span, NEW typed,
         NEW after, after = Match(result, candidate, typed)
  PROVE  /\ after \in Result /\ Neat(after.missed, size)
         /\ \/ IsSpurious(result, after, candidate, typed)
            \/ \E s \in Span : Takes(result, after, s, candidate, typed)
<1> DEFINE hits == Partners(result, candidate, typed)
           i == Min(hits)
           n == Len(result.missed)
<1>1. /\ after \in Result /\ hits \in SUBSET (1..n)
      /\ hits = {} => /\ after.matched = result.matched
                      /\ after.missed = result.missed
                      /\ after.spurious = Append(result.spurious, candidate)
      /\ hits # {} => /\ i \in hits /\ \A k \in hits : i <= k
                      /\ after.matched = Append(result.matched,
                                                <<result.missed[i], candidate>>)
                      /\ after.missed = RemoveAt(result.missed, i)
                      /\ after.spurious = result.spurious
  BY MatchIs
<1>2. n \in Nat /\ DOMAIN result.missed = 1..n /\ result.missed \in Seq(Span)
  BY LenProperties DEF Result
<1>3. \A k \in 1..n : k \in hits <=> Pairs(candidate, result.missed[k], typed)
  BY <1>2 DEF Partners
<1>4. CASE hits = {}
  <2>1. \A s \in ToSet(result.missed) : ~Pairs(candidate, s, typed)
    BY <1>2, <1>3, <1>4 DEF ToSet
  <2> HIDE DEF hits
  <2> QED BY <1>1, <1>4, <2>1 DEF IsSpurious
<1>5. CASE hits # {}
  <2> DEFINE s == result.missed[i]
  <2> HIDE DEF hits, i, n
  <2>1. i \in 1..n /\ i \in hits /\ s \in Span BY <1>1, <1>2, <1>5, ElementOfSeq DEF n
  <2>2. s \in ToSet(result.missed) /\ Pairs(candidate, s, typed)
    BY <1>2, <1>3, <2>1 DEF ToSet
  <2>3. /\ Neat(after.missed, size) /\ Len(after.missed) = Len(result.missed) - 1
        /\ ToSet(after.missed) = ToSet(result.missed) \ {s}
    <3>1. /\ Neat(RemoveAt(result.missed, i), size)
          /\ Len(RemoveAt(result.missed, i)) = Len(result.missed) - 1
          /\ ToSet(RemoveAt(result.missed, i)) = ToSet(result.missed) \ {result.missed[i]}
      <4>1. i \in 1..Len(result.missed) BY <2>1 DEF n
      <4> HIDE DEF s
      <4> QED BY <4>1, NeatWithoutOne
    <3>2. after.missed = RemoveAt(result.missed, i) BY <1>1, <1>5
    <3> QED BY <3>1, <3>2, Zenon
  <2>4. ASSUME NEW u \in ToSet(result.missed), Pairs(candidate, u, typed)
        PROVE  s.start <= u.start
    <3>1. PICK k \in 1..n : u = result.missed[k] BY <1>2 DEF ToSet
    <3>2. i <= k BY <1>1, <1>3, <1>5, <2>4, <3>1
    <3>3. CASE i = k BY <2>1, <3>1, <3>3 DEF Span
    <3>4. CASE i < k
      <4>1. s.end <= u.start /\ Lies(s, size) /\ Lies(u, size)
        BY <2>1, <3>1, <3>4 DEF Neat, n
      <4> QED BY <4>1 DEF Lies, Span
    <3> QED BY <1>2, <2>1, <3>2, <3>3, <3>4
  <2>5. Takes(result, after, s, candidate, typed)
    BY <1>1, <1>5, <2>2, <2>3, <2>4 DEF Takes
  <2> QED BY <1>1, <2>1, <2>3, <2>5
<1> QED BY <1>4, <1>5

\* f lists what is left, paired and spurious after each candidate.
Run(f, expected, candidates, typed, size) ==
    /\ f \in [0..Len(candidates) -> Result]
    /\ f[0] = [matched |-> <<>>, missed |-> expected, spurious |-> <<>>]
    /\ \A j \in 0..Len(candidates) : Neat(f[j].missed, size)
    /\ \A j \in 1..Len(candidates) :
          \/ IsSpurious(f[j - 1], f[j], candidates[j], typed)
          \/ \E s \in Span : Takes(f[j - 1], f[j], s, candidates[j], typed)

\* match_spans goes through such a list.
LEMMA MatchRuns ==
  ASSUME NEW size \in Nat, NEW expected, Neat(expected, size),
         NEW candidates \in Seq(Span), NEW typed
  PROVE  \E f : /\ Run(f, expected, candidates, typed, size)
                /\ match_spans(expected, candidates, typed) = f[Len(candidates)]
<1> DEFINE n == Len(candidates)
           base == [matched |-> <<>>, missed |-> expected, spurious |-> <<>>]
<1>0. n \in Nat /\ expected \in Seq(Span) BY LenProperties DEF Neat
<1>1. PICK f : /\ f \in [0..n -> Result]
               /\ f[0] = base
               /\ \A j \in 1..n : f[j] = Match(f[j - 1], candidates[j], typed)
               /\ match_spans(expected, candidates, typed) = f[n]
  <2>1. expected \in Seq(Span) BY <1>0
  <2> HIDE DEF n, base
  <2>2. PICK f : /\ Results(f, expected, candidates, typed)
                 /\ match_spans(expected, candidates, typed) = f[Len(candidates)]
    BY <2>1, MatchSteps
  <2> QED BY <2>2 DEF Results, n, base
<1> DEFINE Step(j) == \/ IsSpurious(f[j - 1], f[j], candidates[j], typed)
                      \/ \E s \in Span : Takes(f[j - 1], f[j], s, candidates[j], typed)
<1>2. ASSUME NEW j \in 1..n, Neat(f[j - 1].missed, size)
      PROVE  Neat(f[j].missed, size) /\ Step(j)
  <2>1. f[j - 1] \in Result /\ candidates[j] \in Span
    <3>1. j - 1 \in 0..n /\ j \in 1..Len(candidates) BY <1>0
    <3> HIDE DEF n, base
    <3> QED BY <1>1, <3>1, ElementOfSeq
  <2>2. f[j] = Match(f[j - 1], candidates[j], typed) BY <1>1
  <2> QED BY <1>2, <2>1, <2>2, MatchTakes
<1> HIDE DEF Step, n
<1> DEFINE T == {j \in 0..n : Neat(f[j].missed, size)}
<1>3. 0 \in T BY <1>0, <1>1
<1>4. ASSUME NEW j \in 1..n, j - 1 \in T PROVE j \in T
  BY <1>0, <1>2, <1>4
<1>5. \A j \in 0..n : j \in T
  <2> HIDE DEF T
  <2> QED BY <1>0, <1>3, <1>4, UpTo
<1>6. ASSUME NEW j \in 1..n PROVE Step(j)
  <2>1. j - 1 \in 0..n BY <1>0
  <2> QED BY <1>2, <1>5, <2>1
<1>7. Run(f, expected, candidates, typed, size)
  BY <1>1, <1>5, <1>6 DEF Run, Step, n
<1> QED BY <1>1, <1>7 DEF n

\* What the lists say of each other after j candidates.
Accounts(result, expected, candidates, typed, j) ==
    /\ ToSet(result.missed) \subseteq ToSet(expected)
    /\ Len(result.matched) + Len(result.missed) = Len(expected)
    /\ Len(result.matched) + Len(result.spurious) = j
    /\ \A k \in DOMAIN result.matched :
          /\ result.matched[k][1] \in ToSet(expected) \ ToSet(result.missed)
          /\ result.matched[k][2] \in ToSet(candidates)
          /\ Pairs(result.matched[k][2], result.matched[k][1], typed)
    /\ \A s \in ToSet(expected) \ ToSet(result.missed) :
          \E k \in DOMAIN result.matched : result.matched[k][1] = s
    /\ \A i \in 1..j : \A s \in ToSet(result.missed) :
          Pairs(candidates[i], s, typed) =>
              \E k \in DOMAIN result.matched : result.matched[k][2] = candidates[i]

\* A spurious candidate keeps the accounts.
LEMMA SpuriousAccounts ==
  ASSUME NEW before \in Result, NEW after \in Result, NEW expected \in Seq(Span),
         NEW candidates \in Seq(Span), NEW typed, NEW j \in 1..Len(candidates),
         Accounts(before, expected, candidates, typed, j - 1),
         IsSpurious(before, after, candidates[j], typed)
  PROVE  Accounts(after, expected, candidates, typed, j)
<1>1. /\ Len(after.spurious) = Len(before.spurious) + 1
      /\ Len(before.spurious) \in Nat /\ Len(before.matched) \in Nat
  <2>1. candidates[j] \in Span BY ElementOfSeq
  <2> QED BY <2>1, AppendProperties, LenProperties DEF IsSpurious, Result
<1>2. /\ after.missed = before.missed /\ after.matched = before.matched
      /\ \A s \in ToSet(before.missed) : ~Pairs(candidates[j], s, typed)
  BY DEF IsSpurious
<1>3. Len(after.matched) + Len(after.spurious) = j
  <2>1. Len(before.matched) + Len(before.spurious) = j - 1 BY DEF Accounts
  <2>2. Len(after.matched) = Len(before.matched) BY <1>2, Zenon
  <2>3. j \in Int OBVIOUS
  <2> DEFINE a == Len(before.matched)
             b == Len(before.spurious)
             c == Len(after.spurious)
  <2>4. a \in Nat /\ b \in Nat /\ c = b + 1 /\ a + b = j - 1 BY <1>1, <2>1
  <2> HIDE DEF a, b, c
  <2>5. a + c = j BY <2>3, <2>4
  <2> QED BY <2>2, <2>5 DEF a, c
<1>4. \A i \in 1..j : i = j \/ i \in 1..(j - 1) OBVIOUS
<1>5. \A i \in 1..j : \A s \in ToSet(after.missed) :
          Pairs(candidates[i], s, typed) =>
              \E k \in DOMAIN after.matched : after.matched[k][2] = candidates[i]
  BY <1>2, <1>4 DEF Accounts
<1> QED BY <1>2, <1>3, <1>5 DEF Accounts

\* A candidate that takes a label keeps them too.
LEMMA TakenAccounts ==
  ASSUME NEW before \in Result, NEW after \in Result, NEW expected \in Seq(Span),
         NEW candidates \in Seq(Span), NEW typed, NEW j \in 1..Len(candidates),
         Accounts(before, expected, candidates, typed, j - 1),
         NEW s \in Span, Takes(before, after, s, candidates[j], typed)
  PROVE  Accounts(after, expected, candidates, typed, j)
<1> DEFINE n == Len(before.matched)
           p == <<s, candidates[j]>>
<1>0. candidates[j] \in Span /\ candidates[j] \in ToSet(candidates)
  BY ElementOfSeq, LenProperties DEF ToSet
<1>1. /\ n \in Nat /\ DOMAIN before.matched = 1..n /\ DOMAIN after.matched = 1..(n + 1)
      /\ Len(after.matched) = n + 1 /\ after.matched[n + 1] = p
      /\ \A k \in 1..n : after.matched[k] = before.matched[k]
  <2>1. before.matched \in Seq(Span \X Span) /\ p \in Span \X Span
    BY <1>0 DEF Result
  <2>2. after.matched = Append(before.matched, p) BY DEF Takes
  <2>3. after.matched \in Seq(Span \X Span) BY DEF Result
  <2> HIDE DEF p
  <2> QED BY <2>1, <2>2, <2>3, AppendProperties, LenProperties
<1>2. /\ s \in ToSet(before.missed) /\ Pairs(candidates[j], s, typed)
      /\ ToSet(after.missed) = ToSet(before.missed) \ {s}
      /\ Len(after.missed) = Len(before.missed) - 1
      /\ after.spurious = before.spurious
  BY DEF Takes
<1>3. p[1] = s /\ p[2] = candidates[j] OBVIOUS
<1>4. Len(before.missed) \in Nat /\ Len(before.spurious) \in Nat
  BY LenProperties DEF Result
<1> HIDE DEF n, p
<1>5. /\ Len(after.matched) + Len(after.missed) = Len(expected)
      /\ Len(after.matched) + Len(after.spurious) = j
  <2>1. /\ n + Len(before.missed) = Len(expected)
        /\ n + Len(before.spurious) = j - 1
    BY DEF Accounts, n
  <2>2. Len(after.spurious) = Len(before.spurious) BY <1>2, Zenon
  <2>3. j \in Int OBVIOUS
  <2> DEFINE b == Len(before.missed)
             c == Len(before.spurious)
             d == Len(expected)
             e == Len(after.missed)
             l == Len(after.matched)
  <2>4. /\ b \in Nat /\ c \in Nat /\ n \in Nat /\ l = n + 1 /\ e = b - 1
        /\ n + b = d /\ n + c = j - 1
    BY <1>1, <1>2, <1>4, <2>1
  <2> HIDE DEF b, c, d, e, l
  <2>5. l + e = d /\ l + c = j BY <2>3, <2>4
  <2> QED BY <2>2, <2>5 DEF c, d, e, l
<1>6. \A k \in 1..(n + 1) : k = n + 1 \/ k \in 1..n BY <1>1
<1>7. n + 1 \in 1..(n + 1) /\ \A k \in 1..n : k \in 1..(n + 1) BY <1>1
<1>8. ToSet(before.missed) \subseteq ToSet(expected) BY DEF Accounts
<1>9. ASSUME NEW k \in 1..(n + 1)
      PROVE  /\ after.matched[k][1] \in ToSet(expected) \ ToSet(after.missed)
             /\ after.matched[k][2] \in ToSet(candidates)
             /\ Pairs(after.matched[k][2], after.matched[k][1], typed)
  <2>1. CASE k = n + 1 BY <1>0, <1>1, <1>2, <1>3, <1>8, <2>1
  <2>2. CASE k \in 1..n BY <1>1, <1>2, <2>2 DEF Accounts
  <2> QED BY <1>6, <2>1, <2>2
<1>10. ASSUME NEW u \in ToSet(expected) \ ToSet(after.missed)
       PROVE  \E k \in 1..(n + 1) : after.matched[k][1] = u
  <2>1. CASE u = s BY <1>1, <1>3, <1>7, <2>1
  <2>2. CASE u # s
    <3>1. u \in ToSet(expected) \ ToSet(before.missed) BY <1>2, <2>2
    <3>2. PICK k \in 1..n : before.matched[k][1] = u BY <1>1, <3>1 DEF Accounts
    <3> QED BY <1>1, <1>7, <3>2
  <2> QED BY <2>1, <2>2
<1>11. ASSUME NEW i \in 1..j, NEW u \in ToSet(after.missed), Pairs(candidates[i], u, typed)
       PROVE  \E k \in 1..(n + 1) : after.matched[k][2] = candidates[i]
  <2>1. CASE i = j BY <1>1, <1>3, <1>7, <2>1
  <2>2. CASE i # j
    <3>1. i \in 1..(j - 1) /\ u \in ToSet(before.missed) BY <1>2, <2>2
    <3>2. PICK k \in 1..n : before.matched[k][2] = candidates[i]
      BY <1>1, <1>11, <3>1 DEF Accounts
    <3> QED BY <1>1, <1>7, <3>2
  <2> QED BY <2>1, <2>2
<1>12. ToSet(after.missed) \subseteq ToSet(expected) BY <1>2, <1>8
<1> QED BY <1>1, <1>5, <1>9, <1>10, <1>11, <1>12 DEF Accounts

\* The accounts are right after every candidate.
LEMMA RunAccounts ==
  ASSUME NEW size \in Nat, NEW expected \in Seq(Span), NEW candidates \in Seq(Span),
         NEW typed, NEW f, Run(f, expected, candidates, typed, size),
         NEW j \in 0..Len(candidates)
  PROVE  Accounts(f[j], expected, candidates, typed, j)
<1> DEFINE n == Len(candidates)
           T == {i \in 0..n : Accounts(f[i], expected, candidates, typed, i)}
<1>0. n \in Nat BY LenProperties
<1>1. 0 \in T
  <2>1. f[0].matched = <<>> /\ f[0].missed = expected /\ f[0].spurious = <<>>
    BY DEF Run
  <2>2. Len(<<>>) = 0 /\ DOMAIN <<>> = {} BY EmptySeq
  <2>3. Len(expected) \in Nat BY LenProperties
  <2>4. DOMAIN f[0].matched = {} /\ Len(f[0].matched) = 0 /\ Len(f[0].spurious) = 0
    BY <2>1, <2>2, Zenon
  <2>5. Len(f[0].matched) + Len(f[0].missed) = Len(expected) BY <2>1, <2>3, <2>4
  <2>6. Accounts(f[0], expected, candidates, typed, 0)
    BY <2>1, <2>4, <2>5 DEF Accounts
  <2> QED BY <1>0, <2>6
<1>2. ASSUME NEW i \in 1..n, i - 1 \in T PROVE i \in T
  <2>1. i \in 0..n /\ i - 1 \in 0..n BY <1>0
  <2>2. f[i - 1] \in Result /\ f[i] \in Result BY <2>1 DEF Run
  <2>3. CASE IsSpurious(f[i - 1], f[i], candidates[i], typed)
    BY <1>2, <2>1, <2>2, <2>3, SpuriousAccounts
  <2>4. CASE \E s \in Span : Takes(f[i - 1], f[i], s, candidates[i], typed)
    BY <1>2, <2>1, <2>2, <2>4, TakenAccounts
  <2> QED BY <2>3, <2>4 DEF Run
<1>3. \A i \in 0..n : i \in T
  <2> HIDE DEF T
  <2> QED BY <1>0, <1>1, <1>2, UpTo
<1> QED BY <1>3

------------------------------------------------------------------------------
(***************************************************************************)
(* No other pairing catches more.                                          *)
(***************************************************************************)

\* Which label can be paired with which candidate, by their places.
EdgesOf(expected, candidates, typed) ==
    {e \in (DOMAIN expected) \X (DOMAIN candidates) :
        Pairs(candidates[e[2]], expected[e[1]], typed)}

\* Spans that follow each other: what hits a later label than another candidate
\* does comes later itself.
LEMMA EdgesDoNotCross ==
  ASSUME NEW size \in Nat, NEW expected, Neat(expected, size),
         NEW candidates, Neat(candidates, size), NEW typed
  PROVE  NotCrossed(EdgesOf(expected, candidates, typed))
<1> DEFINE n == Len(expected)
           k == Len(candidates)
<1>0. /\ n \in Nat /\ DOMAIN expected = 1..n /\ k \in Nat /\ DOMAIN candidates = 1..k
  BY LenProperties DEF Neat
<1> SUFFICES ASSUME NEW e \in EdgesOf(expected, candidates, typed),
                    NEW f \in EdgesOf(expected, candidates, typed),
                    f[2] < e[2], e[1] < f[1]
             PROVE  FALSE
  <2>1. \A e \in EdgesOf(expected, candidates, typed) : e[1] \in 1..n
    BY <1>0 DEF EdgesOf
  <2> HIDE DEF n
  <2> QED BY <1>0, <2>1 DEF NotCrossed
<1>1. /\ e[1] \in 1..n /\ f[1] \in 1..n /\ e[2] \in 1..k /\ f[2] \in 1..k
      /\ overlaps(candidates[e[2]], expected[e[1]])
      /\ overlaps(candidates[f[2]], expected[f[1]])
  BY <1>0 DEF EdgesOf, Pairs
<1>2. /\ candidates[f[2]].end <= candidates[e[2]].start
      /\ expected[e[1]].end <= expected[f[1]].start
  BY <1>1 DEF Neat
<1>3. /\ Lies(candidates[f[2]], size) /\ Lies(candidates[e[2]], size)
      /\ Lies(expected[e[1]], size) /\ Lies(expected[f[1]], size)
  BY <1>1 DEF Neat
<1> DEFINE a == candidates[f[2]].end
           b == candidates[e[2]].start
           c == expected[e[1]].end
           d == expected[f[1]].start
<1>4. a \in Int /\ b \in Int /\ c \in Int /\ d \in Int BY <1>3 DEF Lies, Span
<1>5. a <= b /\ c <= d /\ b < c /\ d < a BY <1>1, <1>2 DEF overlaps
<1> HIDE DEF a, b, c, d
<1> QED BY <1>4, <1>5

\* The positions of the labels that are not left.
TakenOf(expected, result) == {a \in DOMAIN expected : expected[a] \notin ToSet(result.missed)}

\* Every candidate in turn takes the first label it hits: the loop is greedy.
LEMMA RunIsGreedy ==
  ASSUME NEW size \in Nat, NEW expected, Neat(expected, size),
         NEW candidates \in Seq(Span), NEW typed,
         NEW f, Run(f, expected, candidates, typed, size),
         NEW R, R = [j \in 0..Len(candidates) |-> TakenOf(expected, f[j])]
  PROVE  Greedy(R, EdgesOf(expected, candidates, typed), Len(expected), Len(candidates))
<1> DEFINE n == Len(expected)
           k == Len(candidates)
           E == EdgesOf(expected, candidates, typed)
<1>0. /\ n \in Nat /\ expected \in Seq(Span) /\ DOMAIN expected = 1..n
      /\ k \in Nat /\ DOMAIN candidates = 1..k
  BY LenProperties DEF Neat
<1>1. \A a \in 1..n, j \in 1..k :
          <<a, j>> \in E <=> Pairs(candidates[j], expected[a], typed)
  BY <1>0 DEF EdgesOf
<1>2. \A j \in 0..k : R[j] = {a \in 1..n : expected[a] \notin ToSet(f[j].missed)}
  BY <1>0 DEF TakenOf
<1>3. R[0] = {}
  <2>1. f[0].missed = expected BY DEF Run
  <2>2. \A a \in 1..n : expected[a] \in ToSet(f[0].missed) BY <1>0, <2>1 DEF ToSet
  <2>3. 0 \in 0..k BY <1>0
  <2> QED BY <1>2, <2>2, <2>3
<1>4. \A a, b \in 1..n : expected[a].start <= expected[b].start => a <= b
  <2> SUFFICES ASSUME NEW a \in 1..n, NEW b \in 1..n, b < a,
                      expected[a].start <= expected[b].start
               PROVE  FALSE
    BY <1>0
  <2>1. expected[b].end <= expected[a].start /\ Lies(expected[a], size) /\ Lies(expected[b], size)
    BY DEF Neat
  <2> QED BY <2>1 DEF Lies, Span
<1> HIDE DEF E, n, k
<1>5. ASSUME NEW j \in 1..k
      PROVE  \/ /\ R[j] = R[j - 1]
                /\ \A b \in 1..n : <<b, j>> \in E => b \in R[j - 1]
             \/ \E a \in (1..n) \ R[j - 1] :
                   /\ <<a, j>> \in E
                   /\ R[j] = R[j - 1] \cup {a}
                   /\ \A b \in (1..n) \ R[j - 1] : <<b, j>> \in E => a <= b
  <2> DEFINE before == f[j - 1]
             after == f[j]
             left == ToSet(before.missed)
  <2>1. j \in 0..k /\ j - 1 \in 0..k BY <1>0
  <2>2. /\ R[j - 1] = {a \in 1..n : expected[a] \notin left}
        /\ R[j] = {a \in 1..n : expected[a] \notin ToSet(after.missed)}
    BY <1>2, <2>1
  <2>3. CASE IsSpurious(before, after, candidates[j], typed)
    <3>1. after.missed = before.missed
          /\ \A s \in left : ~Pairs(candidates[j], s, typed)
      BY <2>3 DEF IsSpurious
    <3>2. R[j] = R[j - 1] BY <2>2, <3>1
    <3>3. \A b \in 1..n : <<b, j>> \in E => b \in R[j - 1]
      BY <1>1, <2>2, <3>1
    <3> QED BY <3>2, <3>3
  <2>4. CASE \E s \in Span : Takes(before, after, s, candidates[j], typed)
    <3>1. PICK s \in Span : Takes(before, after, s, candidates[j], typed) BY <2>4
    <3>2. /\ s \in left /\ Pairs(candidates[j], s, typed)
          /\ \A u \in left : Pairs(candidates[j], u, typed) => s.start <= u.start
          /\ ToSet(after.missed) = left \ {s}
      BY <3>1 DEF Takes
    <3>3. Accounts(before, expected, candidates, typed, j - 1)
      BY <1>0, <2>1, RunAccounts DEF k
    <3>4. s \in ToSet(expected) BY <3>2, <3>3 DEF Accounts
    <3>5. PICK a \in 1..n : expected[a] = s BY <1>0, <3>4 DEF ToSet
    <3> HIDE DEF left, before, after
    <3>6. a \in (1..n) \ R[j - 1] /\ <<a, j>> \in E BY <1>1, <2>2, <3>2, <3>5
    <3>7. \A b \in (1..n) \ R[j - 1] : <<b, j>> \in E => a <= b
      <4> SUFFICES ASSUME NEW b \in (1..n) \ R[j - 1], <<b, j>> \in E PROVE a <= b
        OBVIOUS
      <4>1. expected[b] \in left /\ Pairs(candidates[j], expected[b], typed)
        BY <1>1, <2>2
      <4>2. expected[a].start <= expected[b].start BY <3>2, <3>5, <4>1
      <4> QED BY <1>4, <4>2
    <3>8. R[j] = R[j - 1] \cup {a}
      <4>1. \A b \in 1..n : expected[b] = s <=> b = a
        <5> SUFFICES ASSUME NEW b \in 1..n, expected[b] = s PROVE b = a
          BY <3>5
        <5>1. expected[a].start <= expected[b].start /\ expected[b].start <= expected[a].start
          BY <3>5 DEF Span
        <5> QED BY <1>0, <1>4, <5>1
      <4> QED BY <2>2, <3>2, <4>1
    <3> QED BY <3>6, <3>7, <3>8
  <2> QED BY <2>3, <2>4 DEF Run, k
<1> QED BY <1>3, <1>5 DEF Greedy, E, n, k

\* As many labels are matched as are not left.
LEMMA TakenIsMatched ==
  ASSUME NEW size \in Nat, NEW expected, Neat(expected, size), NEW candidates,
         NEW typed, NEW j, NEW result \in Result, Neat(result.missed, size),
         Accounts(result, expected, candidates, typed, j)
  PROVE  Cardinality(TakenOf(expected, result)) = Len(result.matched)
<1> DEFINE A == ToSet(expected)
           B == ToSet(result.missed)
<1>1. /\ IsFiniteSet(A) /\ Len(expected) = Cardinality(A)
      /\ Cardinality({a \in DOMAIN expected : expected[a] \in A \ B})
            = Cardinality(A \cap (A \ B))
  BY NeatCount
<1>2. IsFiniteSet(B) /\ Len(result.missed) = Cardinality(B) BY NeatCount
<1>3. TakenOf(expected, result) = {a \in DOMAIN expected : expected[a] \in A \ B}
  BY DEF TakenOf, ToSet
<1>4. A \cap (A \ B) = A \ B /\ A \cap B = B BY DEF Accounts
<1> HIDE DEF A, B
<1>5. Cardinality(A \ B) = Cardinality(A) - Cardinality(B)
  <2>1. Cardinality(A \ B) = Cardinality(A) - Cardinality(A \cap B)
    BY <1>1, FS_Difference
  <2> QED BY <1>4, <2>1, Zenon
<1>6. Len(result.matched) + Cardinality(B) = Cardinality(A)
  BY <1>1, <1>2 DEF Accounts
<1>7. Len(result.matched) \in Nat /\ Cardinality(B) \in Nat
  BY <1>2, LenProperties, FS_CardinalityType DEF Result
<1>8. Cardinality(TakenOf(expected, result)) = Cardinality(A \ B) BY <1>1, <1>3, <1>4
<1> QED BY <1>5, <1>6, <1>7, <1>8

\* The loop pairs as many labels as any pairing could.
LEMMA MatchingIsBest ==
  ASSUME NEW size \in Nat, NEW expected, Neat(expected, size),
         NEW candidates, Neat(candidates, size), NEW typed,
         NEW f, Run(f, expected, candidates, typed, size)
  PROVE  Len(f[Len(candidates)].matched) = BestMatching(expected, candidates, typed)
<1> DEFINE n == Len(expected)
           k == Len(candidates)
           E == EdgesOf(expected, candidates, typed)
           R == [j \in 0..k |-> TakenOf(expected, f[j])]
           matchings == {m \in SUBSET E : IsMatching(m)}
           sizes == {Cardinality(m) : m \in matchings}
<1>0. /\ n \in Nat /\ expected \in Seq(Span) /\ DOMAIN expected = 1..n
      /\ k \in Nat /\ candidates \in Seq(Span) /\ DOMAIN candidates = 1..k
  BY LenProperties DEF Neat
<1>1. Greedy(R, E, n, k) BY <1>0, RunIsGreedy
<1>2. NotCrossed(E) BY EdgesDoNotCross
<1>3. E \in SUBSET ((1..n) \X (1..k)) BY <1>0 DEF EdgesOf
<1>4. R \in [0..k -> SUBSET (1..n)] BY <1>0 DEF TakenOf
<1>5. R[k] = TakenOf(expected, f[k]) BY <1>0
<1>6. Cardinality(R[k]) = Len(f[k].matched)
  <2>1. k \in 0..k BY <1>0
  <2>2. f[k] \in Result /\ Neat(f[k].missed, size) BY <2>1 DEF Run
  <2>3. Accounts(f[k], expected, candidates, typed, k) BY <1>0, <2>1, RunAccounts
  <2> HIDE DEF k
  <2> QED BY <1>5, <2>2, <2>3, TakenIsMatched
<1>7. BestMatching(expected, candidates, typed) = Max(sizes)
  BY DEF BestMatching, EdgesOf, IsMatching
<1> HIDE DEF E, R, n, k
<1>8. \A x \in sizes : x \in Nat /\ x <= Cardinality(R[k])
  <2> SUFFICES ASSUME NEW m \in SUBSET E, IsMatching(m)
               PROVE  Cardinality(m) \in Nat /\ Cardinality(m) <= Cardinality(R[k])
    OBVIOUS
  <2>1. IsFiniteSet(m) /\ Cardinality(m) <= Cardinality(R[k])
    BY <1>0, <1>1, <1>2, <1>3, <1>4, GreedyIsBest
  <2> QED BY <2>1, FS_CardinalityType
<1>9. Cardinality(R[k]) \in sizes
  <2> HIDE DEF R
  <2>1. PICK m : m \in SUBSET E /\ IsMatching(m) /\ Cardinality(m) = Cardinality(R[k])
    BY <1>0, <1>1, <1>3, <1>4, GreedyIsAMatching
  <2> QED BY <2>1
<1> HIDE DEF sizes
<1>10. Max(sizes) = Cardinality(R[k]) BY <1>8, <1>9, LargestIsMax
<1> QED BY <1>6, <1>7, <1>10 DEF k

------------------------------------------------------------------------------
(***************************************************************************)
(* The rows of the table.                                                  *)
(***************************************************************************)

\* The labels of a type, and the pairs counted under it.
OfType(type) == {s \in Span : s.type = type}
PairOf(type) == {p \in Span \X Span : p[1].type = type}

\* Caught and missed labels of a type are those of the document.
TypeAccount(result, expected, type) ==
    /\ HowMany(result.matched, PairOf(type)) \in Nat
    /\ HowMany(result.matched, PairOf(type)) + Cardinality(ToSet(result.missed) \cap OfType(type))
         = Cardinality(ToSet(expected) \cap OfType(type))

\* A row counts what is in the lists under its type.
LEMMA RowCounts ==
  ASSUME NEW size \in Nat, NEW result \in Result, Neat(result.missed, size), NEW type
  PROVE  /\ Row(result, type).tp = HowMany(result.matched, PairOf(type))
         /\ Row(result, type).fn = Cardinality(ToSet(result.missed) \cap OfType(type))
<1>1. /\ result.matched \in Seq(Span \X Span) /\ result.missed \in Seq(Span)
      /\ DOMAIN result.matched = 1..Len(result.matched)
      /\ DOMAIN result.missed = 1..Len(result.missed)
  BY LenProperties DEF Result
<1>2. /\ \A k \in DOMAIN result.matched : result.matched[k] \in Span \X Span
      /\ \A k \in DOMAIN result.missed : result.missed[k] \in Span
  BY <1>1, ElementOfSeq
<1>3. {k \in DOMAIN result.matched : result.matched[k][1].type = type}
        = {k \in DOMAIN result.matched : result.matched[k] \in PairOf(type)}
  BY <1>2 DEF PairOf
<1>4. {k \in DOMAIN result.missed : result.missed[k].type = type}
        = {k \in DOMAIN result.missed : result.missed[k] \in OfType(type)}
  BY <1>2 DEF OfType
<1>5. Cardinality({k \in DOMAIN result.missed : result.missed[k] \in OfType(type)})
        = Cardinality(ToSet(result.missed) \cap OfType(type))
  BY NeatCount
<1>6. /\ Row(result, type).tp
           = Cardinality({k \in DOMAIN result.matched : result.matched[k][1].type = type})
      /\ Row(result, type).fn
           = Cardinality({k \in DOMAIN result.missed : result.missed[k].type = type})
  BY DEF Row
<1> QED BY <1>3, <1>4, <1>5, <1>6 DEF HowMany

\* Nothing is caught before the first candidate; a spurious one changes neither
\* count, and one that takes a label moves it from one to the other.
LEMMA TypesAccount ==
  ASSUME NEW size \in Nat, NEW expected, Neat(expected, size),
         NEW candidates \in Seq(Span), NEW typed,
         NEW f, Run(f, expected, candidates, typed, size), NEW type
  PROVE  \A j \in 0..Len(candidates) : TypeAccount(f[j], expected, type)
<1> DEFINE n == Len(candidates)
           P == PairOf(type)
           c(j) == HowMany(f[j].matched, P)
           left(j) == ToSet(f[j].missed) \cap OfType(type)
           m(j) == Cardinality(left(j))
           all == Cardinality(ToSet(expected) \cap OfType(type))
           T == {j \in 0..n : c(j) \in Nat /\ c(j) + m(j) = all}
<1>0. n \in Nat BY LenProperties
<1>1. \A j \in 0..n : IsFiniteSet(left(j)) /\ m(j) \in Nat
  <2> TAKE j \in 0..n
  <2>1. IsFiniteSet(ToSet(f[j].missed)) BY NeatCount DEF Run
  <2> QED BY <2>1, FS_Subset, FS_CardinalityType
<1>2. 0 \in T
  <2>1. f[0].matched = <<>> /\ f[0].missed = expected BY DEF Run
  <2>2. {k \in DOMAIN f[0].matched : f[0].matched[k] \in P} = {} BY <2>1
  <2>3. c(0) = 0 BY <2>2, FS_EmptySet DEF HowMany
  <2>4. m(0) = all BY <2>1
  <2>5. 0 \in 0..n BY <1>0
  <2> HIDE DEF c, m, all, left
  <2> QED BY <1>1, <2>3, <2>4, <2>5
<1>3. ASSUME NEW j \in 1..n, j - 1 \in T PROVE j \in T
  <2>0. j \in 0..n /\ j - 1 \in 0..n BY <1>0
  <2>1. f[j - 1] \in Result /\ candidates[j] \in Span BY <2>0, ElementOfSeq DEF Run
  <2>2. CASE IsSpurious(f[j - 1], f[j], candidates[j], typed)
    <3>1. c(j) = c(j - 1) /\ m(j) = m(j - 1) BY <2>2 DEF IsSpurious
    <3> HIDE DEF c, m, all
    <3> QED BY <1>3, <2>0, <3>1
  <2>3. CASE \E s \in Span : Takes(f[j - 1], f[j], s, candidates[j], typed)
    <3>1. PICK s \in Span : Takes(f[j - 1], f[j], s, candidates[j], typed) BY <2>3
    <3> DEFINE p == <<s, candidates[j]>>
               one == IF s.type = type THEN 1 ELSE 0
    <3>2. c(j) = c(j - 1) + one
      <4>1. f[j].matched = Append(f[j - 1].matched, p) BY <3>1 DEF Takes
      <4>2. p \in Span \X Span /\ (p \in P <=> s.type = type) BY <2>1 DEF PairOf
      <4>3. f[j - 1].matched \in Seq(Span \X Span) BY <2>1 DEF Result
      <4> HIDE DEF p, P
      <4>4. HowMany(Append(f[j - 1].matched, p), P)
              = HowMany(f[j - 1].matched, P) + (IF p \in P THEN 1 ELSE 0)
        BY <4>2, <4>3, CountAppend
      <4> QED BY <4>1, <4>2, <4>4
    <3>3. m(j) = m(j - 1) - one
      <4>1. s \in ToSet(f[j - 1].missed) /\ ToSet(f[j].missed) = ToSet(f[j - 1].missed) \ {s}
        BY <3>1 DEF Takes
      <4>2. CASE s.type = type
        <5>1. s \in left(j - 1) /\ left(j) = left(j - 1) \ {s}
          BY <4>1, <4>2 DEF OfType
        <5>2. IsFiniteSet(left(j - 1)) BY <1>1, <2>0
        <5> HIDE DEF left
        <5>3. m(j) = m(j - 1) - 1 BY <5>1, <5>2, FS_RemoveElement
        <5> QED BY <4>2, <5>3
      <4>3. CASE s.type # type
        <5>1. left(j) = left(j - 1) BY <4>1, <4>3 DEF OfType
        <5>2. m(j - 1) \in Nat BY <1>1, <2>0
        <5> HIDE DEF left
        <5>3. m(j) = m(j - 1) BY <5>1
        <5> HIDE DEF m
        <5> QED BY <4>3, <5>2, <5>3
      <4> QED BY <4>2, <4>3
    <3>7. one \in 0..1 OBVIOUS
    <3>4. m(j - 1) \in Nat /\ m(j) \in Nat
      <4> HIDE DEF m
      <4> QED BY <1>1, <2>0
    <3>5. c(j - 1) \in Nat /\ c(j - 1) + m(j - 1) = all BY <1>3
    <3> HIDE DEF c, m, all, one
    <3>6. c(j) \in Nat /\ c(j) + m(j) = all BY <3>2, <3>3, <3>4, <3>5, <3>7
    <3> QED BY <2>0, <3>6
  <2> QED BY <2>2, <2>3 DEF Run
<1>4. \A j \in 0..n : j \in T
  <2> HIDE DEF T, n
  <2> QED BY <1>0, <1>2, <1>3, UpTo
<1> QED BY <1>4 DEF TypeAccount

\* Counting a list by the types of its members adds up to its length.
LEMMA TypesAddUp ==
  ASSUME NEW D, IsFiniteSet(D), NEW type, \A i \in D : type[i] \in EntityTypes,
         NEW value, DOMAIN value = EntityTypes,
         \A k \in EntityTypes : value[k] = Cardinality({i \in D : type[i] = k})
  PROVE  SumFunction(value) = Cardinality(D)
<1> DEFINE key == [i \in D |-> type[i]]
           all == [s \in SUBSET EntityTypes |-> Cardinality({i \in D : key[i] \in s})]
           counts == [k \in EntityTypes |-> Cardinality({i \in D : key[i] = k})]
<1>0. IsFiniteSet(EntityTypes) BY TemplateAssumption
<1>1. key \in [D -> EntityTypes] OBVIOUS
<1>2. Adds(all, EntityTypes, counts)
  <2> HIDE DEF key
  <2> QED BY <1>0, <1>1, CountsAdd
<1>3. \A k \in EntityTypes : value[k] = counts[k]
  <2> SUFFICES ASSUME NEW k \in EntityTypes
               PROVE  {i \in D : type[i] = k} = {i \in D : key[i] = k}
    OBVIOUS
  <2> QED OBVIOUS
<1>4. \A k \in EntityTypes : value[k] \in Nat
  <2> SUFFICES ASSUME NEW k \in EntityTypes PROVE Cardinality({i \in D : type[i] = k}) \in Nat
    OBVIOUS
  <2> QED BY FS_Subset, FS_CardinalityType
<1>5. {i \in D : key[i] \in EntityTypes} = D OBVIOUS
<1>6. all[EntityTypes] = Cardinality(D) BY <1>5
<1> HIDE DEF all, counts
<1>7. Adds(all, EntityTypes, value)
  <2>1. \A s \in SUBSET EntityTypes : s # {} => One(s) \in EntityTypes
    BY <1>0, OneLess
  <2> QED BY <1>2, <1>3, <2>1 DEF Adds
<1>8. SumFunction(value) = all[EntityTypes] BY <1>0, <1>4, <1>7, SumFunctionAdds
<1> QED BY <1>6, <1>8

\* What the table says of a neat list of labels and detections.
LEMMA TableOfRun ==
  ASSUME NEW size \in Nat, NEW expected, Neat(expected, size),
         NEW candidates, Neat(candidates, size), NEW typed,
         NEW result, result = match_spans(expected, candidates, typed)
  PROVE  /\ ALL(result).tp = BestMatching(expected, candidates, typed)
         /\ \A t \in EntityTypes :
               Row(result, t).tp + Row(result, t).fn
                   = Cardinality({n \in DOMAIN expected : expected[n].type = t})
         /\ SumFunction([t \in EntityTypes |-> Row(result, t).tp]) = ALL(result).tp
         /\ SumFunction([t \in EntityTypes |-> Row(result, t).fp]) = ALL(result).fp
         /\ ALL(result).tp + ALL(result).fp = Len(candidates)
<1> DEFINE k == Len(candidates)
<1>0. k \in Nat /\ candidates \in Seq(Span) /\ expected \in Seq(Span) /\ k \in 0..k
      /\ DOMAIN expected = 1..Len(expected)
  BY LenProperties DEF Neat
<1>1. PICK f : Run(f, expected, candidates, typed, size) /\ result = f[k]
  BY <1>0, MatchRuns
<1>2. result \in Result /\ Neat(result.missed, size) BY <1>0, <1>1 DEF Run
<1>3. Accounts(result, expected, candidates, typed, k) BY <1>0, <1>1, RunAccounts
<1>4. ALL(result).tp = Len(result.matched) /\ ALL(result).fp = Len(result.spurious)
  BY DEF ALL
<1>5. ALL(result).tp = BestMatching(expected, candidates, typed)
  BY <1>1, <1>4, MatchingIsBest
<1>6. ASSUME NEW t \in EntityTypes
      PROVE  Row(result, t).tp + Row(result, t).fn
                   = Cardinality({n \in DOMAIN expected : expected[n].type = t})
  <2>1. /\ Row(result, t).tp = HowMany(result.matched, PairOf(t))
        /\ Row(result, t).fn = Cardinality(ToSet(result.missed) \cap OfType(t))
    BY <1>2, RowCounts
  <2>2. TypeAccount(result, expected, t)
    BY <1>0, <1>1, TypesAccount
  <2>3. Cardinality({n \in DOMAIN expected : expected[n] \in OfType(t)})
          = Cardinality(ToSet(expected) \cap OfType(t))
    BY NeatCount
  <2>4. {n \in DOMAIN expected : expected[n] \in OfType(t)}
          = {n \in DOMAIN expected : expected[n].type = t}
    BY <1>0, ElementOfSeq DEF OfType
  <2> QED BY <2>1, <2>2, <2>3, <2>4 DEF TypeAccount
<1>7. /\ result.matched \in Seq(Span \X Span) /\ result.spurious \in Seq(Span)
      /\ Len(result.matched) \in Nat /\ Len(result.spurious) \in Nat
      /\ DOMAIN result.matched = 1..Len(result.matched)
      /\ DOMAIN result.spurious = 1..Len(result.spurious)
  BY <1>2, LenProperties DEF Result
<1>8. \A m \in Nat : IsFiniteSet(1..m) /\ Cardinality(1..m) = m
  <2> TAKE m \in Nat
  <2>1. 1 \in Int /\ m \in Int /\ (1 > m <=> m = 0) /\ (m - 1) + 1 = m OBVIOUS
  <2> QED BY <2>1, FS_Interval
<1>9. SumFunction([t \in EntityTypes |-> Row(result, t).tp]) = ALL(result).tp
  <2> DEFINE D == DOMAIN result.matched
             type == [i \in D |-> result.matched[i][1].type]
             value == [t \in EntityTypes |-> Row(result, t).tp]
  <2>1. \A i \in D : type[i] \in EntityTypes
    <3>1. \A i \in D : result.matched[i] \in Span \X Span BY <1>7, ElementOfSeq
    <3> QED BY <3>1 DEF Span
  <2>2. \A t \in EntityTypes : value[t] = Cardinality({i \in D : type[i] = t})
    <3> SUFFICES ASSUME NEW t \in EntityTypes
                 PROVE  Row(result, t).tp = Cardinality({i \in D : type[i] = t})
      OBVIOUS
    <3>1. {i \in D : type[i] = t} = {i \in D : result.matched[i][1].type = t} OBVIOUS
    <3> HIDE DEF type
    <3> QED BY <3>1 DEF Row
  <2>3. IsFiniteSet(D) /\ Cardinality(D) = Len(result.matched) BY <1>7, <1>8
  <2>4. DOMAIN value = EntityTypes OBVIOUS
  <2> HIDE DEF D, type, value
  <2>5. SumFunction(value) = Cardinality(D) BY <2>1, <2>2, <2>3, <2>4, TypesAddUp
  <2> QED BY <1>4, <2>3, <2>5 DEF value
<1>10. SumFunction([t \in EntityTypes |-> Row(result, t).fp]) = ALL(result).fp
  <2> DEFINE D == DOMAIN result.spurious
             type == [i \in D |-> result.spurious[i].type]
             value == [t \in EntityTypes |-> Row(result, t).fp]
  <2>1. \A i \in D : type[i] \in EntityTypes
    <3>1. \A i \in D : result.spurious[i] \in Span BY <1>7, ElementOfSeq
    <3> QED BY <3>1 DEF Span
  <2>2. \A t \in EntityTypes : value[t] = Cardinality({i \in D : type[i] = t})
    <3> SUFFICES ASSUME NEW t \in EntityTypes
                 PROVE  Row(result, t).fp = Cardinality({i \in D : type[i] = t})
      OBVIOUS
    <3>1. {i \in D : type[i] = t} = {i \in D : result.spurious[i].type = t} OBVIOUS
    <3> HIDE DEF type
    <3> QED BY <3>1 DEF Row
  <2>3. IsFiniteSet(D) /\ Cardinality(D) = Len(result.spurious) BY <1>7, <1>8
  <2>4. DOMAIN value = EntityTypes OBVIOUS
  <2> HIDE DEF D, type, value
  <2>5. SumFunction(value) = Cardinality(D) BY <2>1, <2>2, <2>3, <2>4, TypesAddUp
  <2> QED BY <1>4, <2>3, <2>5 DEF value
<1>11. ALL(result).tp + ALL(result).fp = k BY <1>3, <1>4 DEF Accounts
<1> QED BY <1>5, <1>6, <1>9, <1>10, <1>11

------------------------------------------------------------------------------
(***************************************************************************)
(* Labelled documents: what Build makes of a template.                     *)
(***************************************************************************)

\* What a text is made of while it is built.
Piece == Token \cup Markers

\* A document while it is built.
Document == [text : Seq(Piece), spans : Seq(Span)]

\* Where a marker is first.
FirstAt(words, marker, i) ==
    i \in 1..Len(words) /\ words[i] = marker /\ \A p \in 1..(i - 1) : words[p] # marker

\* Index finds the first one.
LEMMA IndexIsFirst ==
  ASSUME NEW words \in Seq(Piece), NEW marker
  PROVE  /\ Index(words, marker) \in 0..Len(words)
         /\ marker \in ToSet(words) => FirstAt(words, marker, Index(words, marker))
         /\ \A i : FirstAt(words, marker, i) => Index(words, marker) = i
<1> DEFINE n == Len(words)
           I == {i \in 1..n : words[i] = marker}
<1>0. n \in Nat /\ DOMAIN words = 1..n BY LenProperties
<1>1. Index(words, marker) = IF I # {} THEN Min(I) ELSE 0
  BY DEF Index, SelectInSeq
<1>2. I # {} => Min(I) \in I /\ \A k \in I : Min(I) <= k
  <2>1. I \in SUBSET Nat OBVIOUS
  <2> HIDE DEF I
  <2> QED BY <2>1, MinIsMin
<1>3. Index(words, marker) \in 0..n BY <1>0, <1>1, <1>2
<1>4. ASSUME marker \in ToSet(words)
      PROVE  FirstAt(words, marker, Index(words, marker))
  <2>1. PICK k \in 1..n : words[k] = marker BY <1>0, <1>4 DEF ToSet
  <2>2. I # {} BY <2>1
  <2>3. Index(words, marker) \in I /\ \A p \in I : Index(words, marker) <= p
    BY <1>1, <1>2, <2>2
  <2>4. ASSUME NEW p \in 1..(Index(words, marker) - 1) PROVE words[p] # marker
    <3>1. p \in 1..n /\ ~(Index(words, marker) <= p) BY <1>0, <1>3
    <3> QED BY <2>3, <3>1
  <2> QED BY <2>3, <2>4 DEF FirstAt
<1>5. ASSUME NEW i, FirstAt(words, marker, i) PROVE Index(words, marker) = i
  <2>1. i \in I BY <1>5 DEF FirstAt
  <2>2. Min(I) \in I /\ Min(I) <= i BY <1>2, <2>1
  <2>3. Min(I) \in 1..n /\ words[Min(I)] = marker BY <2>2
  <2>4. ~(Min(I) \in 1..(i - 1)) BY <1>5, <2>3 DEF FirstAt
  <2>5. Min(I) = i
    <3>1. i \in 1..n BY <1>5 DEF FirstAt
    <3> DEFINE q == Min(I)
    <3>2. q \in 1..n /\ q <= i /\ ~(q \in 1..(i - 1)) BY <2>2, <2>3, <2>4
    <3> HIDE DEF q
    <3> QED BY <1>0, <3>1, <3>2 DEF q
  <2> QED BY <1>1, <2>1, <2>5
<1> QED BY <1>3, <1>4, <1>5

\* A text with a value in the place of its i-th piece.
PutAt(text, i, value) == SubSeq(text, 1, i - 1) \o value \o SubSeq(text, i + 1, Len(text))

\* One piece is replaced; before it nothing changes, behind it the text moves.
LEMMA PutAtIs ==
  ASSUME NEW text \in Seq(Piece), NEW i \in 0..Len(text), NEW value \in Seq(Piece)
  PROVE  /\ PutAt(text, i, value) \in Seq(Piece)
         /\ i # 0 =>
              /\ Len(PutAt(text, i, value)) = (Len(text) + Len(value)) - 1
              /\ \A p \in 1..(i - 1) : PutAt(text, i, value)[p] = text[p]
              /\ \A p \in 1..Len(value) : PutAt(text, i, value)[(i - 1) + p] = value[p]
              /\ \A p \in 1..(Len(text) - i) :
                    PutAt(text, i, value)[((i - 1) + Len(value)) + p] = text[i + p]
<1> DEFINE n == Len(text)
           v == Len(value)
           a == SubSeq(text, 1, i - 1)
           c == SubSeq(text, i + 1, n)
<1>0. n \in Nat /\ v \in Nat /\ i \in 0..n BY LenProperties
<1>1. a \in Seq(Piece) /\ (i # 0 => Len(a) = i - 1) /\ \A p \in 1..(i - 1) : a[p] = text[p]
  <2>1. 1 \in Int /\ i - 1 \in Int BY <1>0
  <2>2. \A p \in 1..(i - 1) : text[p] \in Piece
    <3>1. \A p \in 1..(i - 1) : p \in 1..n BY <1>0
    <3> QED BY <3>1, ElementOfSeq
  <2>3. /\ a \in Seq(Piece)
        /\ Len(a) = IF 1 <= i - 1 THEN (i - 1) - 1 + 1 ELSE 0
        /\ \A p \in 1..((i - 1) - 1 + 1) : a[p] = text[1 + p - 1]
    <3> HIDE DEF a
    <3> QED BY <2>1, <2>2, SubSeqProperties DEF a
  <2>4. (i # 0 => Len(a) = i - 1)
    <3> HIDE DEF a
    <3> QED BY <1>0, <2>3
  <2>5. \A p \in 1..(i - 1) : p \in 1..((i - 1) - 1 + 1) /\ 1 + p - 1 = p BY <1>0
  <2> HIDE DEF a
  <2> QED BY <2>3, <2>4, <2>5
<1>2. c \in Seq(Piece) /\ Len(c) = n - i /\ \A p \in 1..(n - i) : c[p] = text[i + p]
  <2>1. i \in 0..Len(text) /\ n \in i..Len(text) BY <1>0
  <2> QED BY <2>1, Stretch
<1> HIDE DEF a, c
<1>3. /\ a \o value \in Seq(Piece) /\ Len(a \o value) = Len(a) + v
      /\ \A p \in 1..(Len(a) + v) :
            (a \o value)[p] = IF p <= Len(a) THEN a[p] ELSE value[p - Len(a)]
  BY <1>1, ConcatProperties
<1> DEFINE b == a \o value
           x == b \o c
<1>4. /\ x \in Seq(Piece) /\ Len(x) = Len(b) + Len(c)
      /\ \A p \in 1..(Len(b) + Len(c)) :
            x[p] = IF p <= Len(b) THEN b[p] ELSE c[p - Len(b)]
  <2>1. b \in Seq(Piece) BY <1>3
  <2>2. c \in Seq(Piece) BY <1>2
  <2> HIDE DEF b, n, v
  <2> QED BY <2>1, <2>2, ConcatProperties
<1>5. PutAt(text, i, value) = x BY DEF PutAt, a, c
<1> HIDE DEF b, x, n, v
<1>6. ASSUME i # 0
      PROVE  /\ Len(x) = (n + v) - 1
             /\ \A p \in 1..(i - 1) : x[p] = text[p]
             /\ \A p \in 1..v : x[(i - 1) + p] = value[p]
             /\ \A p \in 1..(n - i) : x[((i - 1) + v) + p] = text[i + p]
  <2>1. Len(a) = i - 1 /\ Len(b) = (i - 1) + v /\ Len(c) = n - i
    BY <1>1, <1>2, <1>3, <1>6 DEF b
  <2>2. Len(x) = (n + v) - 1 BY <1>0, <1>4, <2>1
  <2>3. ASSUME NEW p \in 1..(i - 1) PROVE x[p] = text[p]
    <3>1. p \in 1..(Len(b) + Len(c)) /\ p <= Len(b) /\ p \in 1..(Len(a) + v) /\ p <= Len(a)
      BY <1>0, <2>1
    <3> QED BY <1>1, <1>3, <1>4, <3>1 DEF b
  <2>4. ASSUME NEW p \in 1..v PROVE x[(i - 1) + p] = value[p]
    <3> DEFINE q == (i - 1) + p
    <3>1. /\ q \in 1..(Len(b) + Len(c)) /\ q <= Len(b) /\ q \in 1..(Len(a) + v)
          /\ ~(q <= Len(a)) /\ q - Len(a) = p
      BY <1>0, <1>6, <2>1
    <3> HIDE DEF q
    <3>2. x[q] = value[p] BY <1>3, <1>4, <3>1 DEF b
    <3> QED BY <3>2 DEF q
  <2>5. ASSUME NEW p \in 1..(n - i) PROVE x[((i - 1) + v) + p] = text[i + p]
    <3> DEFINE q == ((i - 1) + v) + p
    <3>1. q \in 1..(Len(b) + Len(c)) /\ ~(q <= Len(b)) /\ q - Len(b) = p
      BY <1>0, <1>6, <2>1
    <3> HIDE DEF q
    <3>2. x[q] = text[i + p] BY <1>2, <1>4, <3>1
    <3> QED BY <3>2 DEF q
  <2> QED BY <2>2, <2>3, <2>4, <2>5
<1> QED BY <1>4, <1>5, <1>6 DEF n, v

\* A slot leaves a text with its value, and one label more.
LEMMA FillIs ==
  ASSUME NEW document \in Document, NEW slot \in Slot,
         NEW i, i = Index(document.text, slot.name),
         NEW after, after = Fill(document, slot)
  PROVE  /\ after \in Document
         /\ after.text = PutAt(document.text, i, slot.value)
         /\ after.spans = Append(document.spans, LabelOf(i, slot))
         /\ LabelOf(i, slot) \in Span
         /\ LabelOf(i, slot) = [start |-> i - 1, end |-> (i - 1) + Len(slot.value),
                                type |-> slot.type, score |-> 0]
<1>1. document.text \in Seq(Piece) /\ document.spans \in Seq(Span) BY DEF Document
<1>2. i \in 0..Len(document.text) BY <1>1, IndexIsFirst
<1>3. slot.value \in Seq(Token) /\ slot.type \in EntityTypes BY DEF Slot
<1>4. slot.value \in Seq(Piece) BY <1>3, SeqMonotonic DEF Piece
<1>5. Len(slot.value) \in Nat /\ Len(document.text) \in Nat BY <1>1, <1>3, LenProperties
<1>6. LabelOf(i, slot) = [start |-> i - 1, end |-> (i - 1) + Len(slot.value),
                          type |-> slot.type, score |-> 0]
  BY DEF LabelOf
<1>7. LabelOf(i, slot) \in Span
  <2>1. i - 1 \in Int /\ (i - 1) + Len(slot.value) \in Int BY <1>2, <1>5
  <2> QED BY <1>3, <1>6, <2>1 DEF Span
<1>8. after = [text |-> PutAt(document.text, i, slot.value),
               spans |-> Append(document.spans, LabelOf(i, slot))]
  BY DEF Fill, PutAt
<1>9. PutAt(document.text, i, slot.value) \in Seq(Piece)
  BY <1>1, <1>2, <1>4, PutAtIs
<1>10. Append(document.spans, LabelOf(i, slot)) \in Seq(Span)
  BY <1>1, <1>7, AppendProperties
<1>11. after \in Document BY <1>8, <1>9, <1>10 DEF Document
<1>12. /\ after.text = PutAt(document.text, i, slot.value)
       /\ after.spans = Append(document.spans, LabelOf(i, slot))
  BY <1>8
<1> QED BY <1>6, <1>7, <1>11, <1>12

\* f lists the document after each slot.
Fills(f, words, slots) ==
    /\ f \in [0..Len(slots) -> Document]
    /\ f[0] = [text |-> words, spans |-> <<>>]
    /\ \A k \in 1..Len(slots) : f[k] = Fill(f[k - 1], slots[k])

\* Build fills the slots one by one.
LEMMA FillSteps ==
  ASSUME NEW words \in Seq(Piece), NEW slots \in Seq(Slot)
  PROVE  \E f : /\ Fills(f, words, slots)
                /\ FoldLeft(Fill, [text |-> words, spans |-> <<>>], slots) = f[Len(slots)]
<1> DEFINE n == Len(slots)
           base == [text |-> words, spans |-> <<>>]
           op(i, d) == Fill(d, slots[i])
           g == [p \in (1..n) \X Document |-> op(p[1], p[2])]
           Iter(f) == [s \in SUBSET DOMAIN slots |->
                        IF s = {} THEN base ELSE op(Max(s), f[s \ {Max(s)}])]
<1>0. n \in Nat /\ DOMAIN slots = 1..n /\ base \in Document
  <2>1. <<>> \in Seq(Span) BY EmptySeq
  <2> QED BY <2>1, LenProperties DEF Document
<1>1. \A i \in 1..n, d \in Document : op(i, d) \in Document
  BY FillIs, ElementOfSeq
<1>2. g \in [(1..n) \X Document -> Document]
  <2> HIDE DEF op, n
  <2> QED BY <1>1
<1>3. \A i \in 1..n, d \in Document : g[<<i, d>>] = op(i, d)
  OBVIOUS
<1> HIDE DEF g, n, base, op
<1>4. PICK f : f \in [SUBSET (1..n) -> Document] /\ BySets(f, n, base, g)
  BY <1>0, <1>2, SetBySet
<1>5. ASSUME NEW s \in SUBSET (1..n), s # {}
      PROVE  f[s] = op(Max(s), f[s \ {Max(s)}])
  <2>1. Max(s) \in 1..n /\ s \ {Max(s)} \in SUBSET (1..n) BY <1>0, <1>5, MaxIn
  <2>2. f[s \ {Max(s)}] \in Document BY <1>4, <2>1
  <2>3. f[s] = g[<<Max(s), f[s \ {Max(s)}]>>] BY <1>4, <1>5 DEF BySets
  <2> QED BY <1>3, <2>1, <2>2, <2>3
<1>6. f = Iter(f)
  <2>1. f[{}] = base BY <1>4 DEF BySets
  <2> QED BY <1>0, <1>4, <1>5, <2>1
<1> DEFINE it == CHOOSE h : h = Iter(h)
<1>7. it = Iter(it)
  BY <1>6
<1>8. FoldLeft(Fill, [text |-> words, spans |-> <<>>], slots) = it[DOMAIN slots]
  BY DEF FoldLeft, MapThenFoldSet, op, base
<1> HIDE DEF it
<1>9. it[{}] = base BY <1>7
<1>10. ASSUME NEW s \in SUBSET (1..n), s # {}
       PROVE  it[s] = op(Max(s), it[s \ {Max(s)}])
  BY <1>0, <1>7, <1>10
<1> DEFINE h == [i \in 0..n |-> it[1..i]]
<1>11. h[0] = base
  <2>1. 1..0 = {} /\ 0 \in 0..n BY <1>0
  <2>2. h[0] = it[1..0] BY <2>1
  <2> HIDE DEF h
  <2> QED BY <1>9, <2>1, <2>2
<1>12. ASSUME NEW i \in 1..n PROVE h[i] = op(i, h[i - 1])
  <2>1. 1..i \in SUBSET (1..n) /\ i \in 1..i BY <1>0
  <2>2. Max(1..i) = i BY <1>0, MaxOfFirst
  <2>3. (1..i) \ {i} = 1..(i - 1) BY <1>0
  <2>4. h[i] = it[1..i] /\ h[i - 1] = it[1..(i - 1)] BY <1>0
  <2>5. it[1..i] = op(i, it[(1..i) \ {i}]) BY <1>10, <2>1, <2>2
  <2> HIDE DEF h
  <2> QED BY <2>3, <2>4, <2>5
<1>13. it[DOMAIN slots] = h[n] BY <1>0
<1> HIDE DEF h
<1>14. \A i \in 0..n : h[i] \in Document
  <2> DEFINE T == {i \in 0..n : h[i] \in Document}
  <2>1. 0 \in T BY <1>0, <1>11
  <2>2. ASSUME NEW i \in 1..n, i - 1 \in T PROVE i \in T
    <3>1. op(i, h[i - 1]) \in Document BY <1>1, <2>2
    <3> QED BY <1>0, <1>12, <3>1
  <2> HIDE DEF T
  <2>3. \A i \in 0..n : i \in T BY <1>0, <2>1, <2>2, UpTo
  <2> QED BY <2>3 DEF T
<1>15. h \in [0..n -> Document] BY <1>14 DEF h
<1>16. Fills(h, words, slots) BY <1>11, <1>12, <1>15 DEF Fills, n, base, op
<1> QED BY <1>8, <1>13, <1>16 DEF n

\* Where the n-th slot's marker is in the template; 0 for no slot.
MarkerAt(words, slots, n) == IF n = 0 THEN 0 ELSE Index(words, slots[n].name)

\* Where the last label ends.
LastEnd(spans) == IF Len(spans) = 0 THEN 0 ELSE spans[Len(spans)].end

\* A template: the markers are there, the slots in the order of their markers.
InOrder(words, slots) ==
    /\ words \in Seq(Piece) /\ slots \in Seq(Slot)
    /\ \A n \in 1..Len(slots) :
          /\ slots[n].name \in ToSet(words)
          /\ \A m \in 1..(n - 1) : Index(words, slots[m].name) < Index(words, slots[n].name)

\* Up to the last label nothing is left of the markers that are due, behind it
\* the text is that of the template.
TextIs(text, e, words, m, slots, k) ==
    /\ e \in 0..Len(text) /\ m \in 0..Len(words)
    /\ Len(text) - e = Len(words) - m
    /\ \A p \in 1..(Len(words) - m) : text[e + p] = words[m + p]
    /\ \A l \in (k + 1)..Len(slots) : \A p \in 1..e : text[p] # slots[l].name

\* Each label is where its value is.
LabelsAre(document, slots, k) ==
    /\ Len(document.spans) = k
    /\ Neat(document.spans, LastEnd(document.spans))
    /\ \A n \in 1..k : Original(document.text, document.spans[n]) = slots[n].value

\* What is known of the next marker: M in the template, i in the text.
NextAt(text, e, words, m, M, slots, k, i) ==
    /\ M \in 1..Len(words) /\ m < M /\ e \in Nat /\ m \in Nat /\ i = e + (M - m)
    /\ \A p \in 1..(M - 1) : words[p] # slots[k].name
    /\ \A l \in (k + 1)..Len(slots) : \A p \in 1..M : words[p] # slots[l].name
    /\ FirstAt(text, slots[k].name, i)

\* What filling the slot leaves of the text.
FilledAt(after, text, i, value) ==
    /\ after \in Seq(Piece) /\ Len(after) = (Len(text) + Len(value)) - 1
    /\ \A p \in 1..(i - 1) : after[p] = text[p]
    /\ \A p \in 1..Len(value) : after[(i - 1) + p] = value[p]
    /\ \A p \in 1..(Len(text) - i) : after[((i - 1) + Len(value)) + p] = text[i + p]

\* PutAt does that.
LEMMA FilledAtIs ==
  ASSUME NEW text \in Seq(Piece), NEW i \in 1..Len(text), NEW value \in Seq(Piece)
  PROVE  FilledAt(PutAt(text, i, value), text, i, value)
<1>1. i \in 0..Len(text) /\ i # 0 BY LenProperties
<1> QED BY <1>1, PutAtIs DEF FilledAt

\* The arithmetic of a slot: m pieces of the template are behind, e of the text;
\* the next marker is the M-th piece of the template, the i-th of the text.
SlotAt(n, w, e, m, M, i) ==
    /\ n \in Nat /\ w \in Nat /\ e \in 0..n /\ m \in 0..w /\ n - e = w - m
    /\ M \in 1..w /\ m < M /\ i = e + (M - m)

\* The sums of a slot, without what moves.
LEMMA SlotSums ==
  ASSUME NEW n, NEW w, NEW e, NEW m, NEW M, NEW i, SlotAt(n, w, e, m, M, i)
  PROVE  /\ i \in Int /\ n \in Int /\ w \in Int /\ M \in Int
         /\ 1 <= i /\ i <= n /\ n - i = w - M
<1>1. /\ n \in Int /\ w \in Int /\ e \in Int /\ m \in Int /\ M \in Int
      /\ 0 <= e /\ e <= n /\ 0 <= m /\ m <= w /\ n - e = w - m
      /\ 1 <= M /\ M <= w /\ m < M /\ i = e + (M - m)
  BY DEF SlotAt
<1> QED BY <1>1

\* Where the value ends: the text behind is as long as before.
LEMMA EndArithmetic ==
  ASSUME NEW i \in Int, NEW n \in Int, NEW w \in Int, NEW M \in Int,
         1 <= i, i <= n, n - i = w - M, NEW v \in Nat \ {0}
  PROVE  /\ (i - 1) + v \in 0..((n + v) - 1)
         /\ ((n + v) - 1) - ((i - 1) + v) = w - M
OBVIOUS

\* Where a piece of the text before the marker, behind it or in the value is.
LEMMA SlotArithmetic ==
  ASSUME NEW n, NEW w, NEW e, NEW m, NEW M, NEW i, SlotAt(n, w, e, m, M, i)
  PROVE  /\ i \in 1..n /\ e <= i - 1 /\ n - i = w - M
         /\ M - m \in 1..(w - m) /\ m + (M - m) = M
         /\ \A p \in 1..(i - 1) : p > e =>
               p - e \in 1..(w - m) /\ e + (p - e) = p /\ m + (p - e) \in 1..(M - 1)
         /\ \A p \in 1..(w - M) :
               /\ (M - m) + p \in 1..(w - m)
               /\ e + ((M - m) + p) = i + p /\ m + ((M - m) + p) = M + p
         /\ \A v \in Nat \ {0} : \A p \in 1..((i - 1) + v) : p > i - 1 =>
               p - (i - 1) \in 1..v /\ (i - 1) + (p - (i - 1)) = p
<1>1. /\ n \in Int /\ w \in Int /\ e \in Int /\ m \in Int /\ M \in Int
      /\ 0 <= e /\ e <= n /\ 0 <= m /\ m <= w /\ n - e = w - m
      /\ 1 <= M /\ M <= w /\ m < M /\ i = e + (M - m)
  BY DEF SlotAt
<1>2. i \in Int /\ 1 <= i /\ i <= n /\ e <= i - 1 /\ n - i = w - M BY <1>1
<1>3. M - m \in 1..(w - m) /\ m + (M - m) = M BY <1>1
<1>4. ASSUME NEW p \in 1..(i - 1), p > e
      PROVE  p - e \in 1..(w - m) /\ e + (p - e) = p /\ m + (p - e) \in 1..(M - 1)
  BY <1>1, <1>2, <1>4
<1>5. ASSUME NEW p \in 1..(w - M)
      PROVE  /\ (M - m) + p \in 1..(w - m)
             /\ e + ((M - m) + p) = i + p /\ m + ((M - m) + p) = M + p
  BY <1>1, <1>2
<1>6. ASSUME NEW v \in Nat \ {0}
      PROVE  \A p \in 1..((i - 1) + v) : p > i - 1 =>
                p - (i - 1) \in 1..v /\ (i - 1) + (p - (i - 1)) = p
  BY <1>1, <1>2
<1>7. i \in 1..n BY <1>1, <1>2
<1> QED BY <1>2, <1>3, <1>4, <1>5, <1>6, <1>7

\* The next marker is found where the template has it.
LEMMA NextMarker ==
  ASSUME NEW words, NEW slots, InOrder(words, slots), NEW k \in 1..Len(slots),
         NEW text \in Seq(Piece), NEW e, NEW m, m = MarkerAt(words, slots, k - 1),
         TextIs(text, e, words, m, slots, k - 1),
         NEW M, M = MarkerAt(words, slots, k), NEW i, i = e + (M - m)
  PROVE  NextAt(text, e, words, m, M, slots, k, i)
<1> DEFINE name == slots[k].name
           n == Len(text)
           w == Len(words)
<1>0. /\ words \in Seq(Piece) /\ slots \in Seq(Slot) /\ Len(words) \in Nat /\ Len(slots) \in Nat
      /\ Len(text) \in Nat
  BY LenProperties DEF InOrder
<1>1. M = Index(words, name) BY DEF MarkerAt
<1>2. FirstAt(words, name, M) BY <1>0, <1>1, IndexIsFirst DEF InOrder
<1>3. M \in 1..Len(words) /\ words[M] = name /\ \A p \in 1..(M - 1) : words[p] # name
  BY <1>2 DEF FirstAt
<1>4. m < M
  <2>1. CASE k = 1 BY <1>3, <2>1 DEF MarkerAt
  <2>2. CASE k # 1
    <3>1. k - 1 # 0 /\ k - 1 \in 1..(k - 1) BY <1>0, <2>2
    <3>2. m = Index(words, slots[k - 1].name) BY <3>1 DEF MarkerAt
    <3> QED BY <1>1, <3>1, <3>2 DEF InOrder
  <2> QED BY <2>1, <2>2
<1>5. ASSUME NEW l \in (k + 1)..Len(slots), NEW p \in 1..M PROVE words[p] # slots[l].name
  <2>1. l \in 1..Len(slots) /\ k \in 1..(l - 1) BY <1>0
  <2>2. Index(words, slots[k].name) < Index(words, slots[l].name)
    BY <2>1 DEF InOrder
  <2>3. FirstAt(words, slots[l].name, Index(words, slots[l].name))
    BY <1>0, <2>1, IndexIsFirst DEF InOrder
  <2>4. Index(words, slots[l].name) \in Int BY <2>3 DEF FirstAt
  <2>5. p \in 1..(Index(words, slots[l].name) - 1) BY <1>0, <1>1, <1>3, <2>2, <2>4
  <2> QED BY <2>3, <2>5 DEF FirstAt
<1>6. /\ e \in 0..n /\ m \in 0..w /\ n - e = w - m
      /\ \A p \in 1..(w - m) : text[e + p] = words[m + p]
      /\ \A p \in 1..e : text[p] # name
  <2>1. k \in ((k - 1) + 1)..Len(slots) BY <1>0
  <2> QED BY <2>1 DEF TextIs
<1>7. M \in 1..w /\ n \in Nat /\ w \in Nat BY <1>0, <1>3
<1> HIDE DEF name, n, w
<1>11. SlotAt(n, w, e, m, M, i)
  <2>1. i = e + (M - m) OBVIOUS
  <2> QED BY <1>4, <1>6, <1>7, <2>1 DEF SlotAt
<1>8. i \in 1..n /\ M - m \in 1..(w - m) /\ m + (M - m) = M /\ i = e + (M - m)
  BY <1>11, SlotArithmetic
<1>9. FirstAt(text, name, i)
  <2>1. text[i] = name BY <1>3, <1>6, <1>8
  <2>2. ASSUME NEW p \in 1..(i - 1) PROVE text[p] # name
    <3>1. CASE p <= e
      <4>1. p \in 1..e BY <1>6, <3>1
      <4> QED BY <1>6, <4>1
    <3>2. CASE p > e
      <4> DEFINE q == p - e
      <4>1. q \in 1..(w - m) /\ e + q = p /\ m + q \in 1..(M - 1)
        BY <1>11, <3>2, SlotArithmetic
      <4> HIDE DEF q
      <4>2. text[p] = words[m + q] BY <1>6, <4>1
      <4> QED BY <1>3, <4>1, <4>2
    <3> QED BY <1>6, <1>8, <3>1, <3>2
  <2> QED BY <1>8, <2>1, <2>2 DEF FirstAt, n
<1>10. e \in Nat /\ m \in Nat BY <1>6
<1> QED BY <1>3, <1>4, <1>5, <1>9, <1>10 DEF NextAt, name

\* Filling the k-th slot: the text behind moves, the text before stays.
LEMMA TextAfterFill ==
  ASSUME NEW words, NEW slots, InOrder(words, slots), NEW k \in 1..Len(slots),
         NEW text \in Seq(Piece), NEW e, NEW m, TextIs(text, e, words, m, slots, k - 1),
         NEW M, NEW i, NextAt(text, e, words, m, M, slots, k, i),
         NEW value, value = slots[k].value, NEW after, after = PutAt(text, i, value)
  PROVE  /\ i \in 1..Len(text) /\ e <= i - 1 /\ Len(value) \in Nat \ {0}
         /\ after \in Seq(Piece)
         /\ TextIs(after, (i - 1) + Len(value), words, M, slots, k)
         /\ \A p \in 1..(i - 1) : after[p] = text[p]
         /\ \A p \in 1..Len(value) : after[(i - 1) + p] = value[p]
<1> DEFINE n == Len(text)
           v == Len(value)
           w == Len(words)
           E == (i - 1) + v
<1>0. /\ words \in Seq(Piece) /\ slots \in Seq(Slot) /\ w \in Nat /\ Len(slots) \in Nat
      /\ n \in Nat
  BY LenProperties DEF InOrder
<1>11. /\ M \in 1..w /\ m < M /\ e \in Nat /\ m \in Nat /\ i = e + (M - m)
       /\ \A p \in 1..(M - 1) : words[p] # slots[k].name
       /\ \A l \in (k + 1)..Len(slots) : \A p \in 1..M : words[p] # slots[l].name
       /\ i \in 1..n
  BY DEF NextAt, FirstAt
<1>2. slots[k] \in Slot BY <1>0, ElementOfSeq
<1>3. value \in Seq(Token) /\ value # <<>> /\ value \in Seq(Piece)
  <2>1. value \in Seq(Token) /\ value # <<>> BY <1>2 DEF Slot
  <2> QED BY <2>1, SeqMonotonic DEF Piece
<1>4. v \in Nat \ {0} BY <1>3, LenProperties, EmptySeq
<1>6. /\ e \in 0..n /\ n - e = w - m
      /\ \A p \in 1..(w - m) : text[e + p] = words[m + p]
      /\ \A l \in k..Len(slots) : \A p \in 1..e : text[p] # slots[l].name
  <2>1. (k - 1) + 1 = k BY <1>0
  <2> QED BY <2>1 DEF TextIs
<1>7. FilledAt(after, text, i, value) BY <1>3, <1>11, FilledAtIs
<1> DEFINE h == Len(after)
<1>12. /\ after \in Seq(Piece) /\ h = (n + v) - 1
       /\ \A p \in 1..(i - 1) : after[p] = text[p]
       /\ \A p \in 1..v : after[(i - 1) + p] = value[p]
       /\ \A p \in 1..(n - i) : after[E + p] = text[i + p]
  BY <1>7 DEF FilledAt
<1> HIDE DEF n, v, w, E, h
<1>13. h \in Int /\ n \in Nat /\ w \in Nat /\ e \in 0..n BY <1>0, <1>4, <1>6, <1>12
<1>16. m \in 0..w BY DEF TextIs, w
<1>17. SlotAt(n, w, e, m, M, i) BY <1>6, <1>11, <1>13, <1>16 DEF SlotAt
<1>5. e <= i - 1 BY <1>17, SlotArithmetic
<1>8. E \in 0..h /\ h - E = w - M /\ n - i = w - M
  <2>1. h = (n + v) - 1 BY <1>12
  <2>3. /\ i \in Int /\ n \in Int /\ w \in Int /\ M \in Int
        /\ 1 <= i /\ i <= n /\ n - i = w - M
    BY <1>17, SlotSums
  <2>4. /\ (i - 1) + v \in 0..((n + v) - 1)
        /\ ((n + v) - 1) - ((i - 1) + v) = w - M
    BY <1>4, <2>3, EndArithmetic
  <2> QED BY <2>1, <2>3, <2>4, Zenon DEF E
<1>9. ASSUME NEW p \in 1..(w - M) PROVE after[E + p] = words[M + p]
  <2>1. after[E + p] = text[i + p] BY <1>8, <1>12
  <2> DEFINE q == (M - m) + p
  <2>2. q \in 1..(w - m) /\ e + q = i + p /\ m + q = M + p BY <1>17, SlotArithmetic
  <2> HIDE DEF q
  <2>3. text[e + q] = words[m + q] BY <1>6, <2>2
  <2> QED BY <2>1, <2>2, <2>3
<1>10. ASSUME NEW l \in (k + 1)..Len(slots), NEW p \in 1..E PROVE after[p] # slots[l].name
  <2>1. CASE p <= e
    <3>1. p \in 1..e /\ p \in 1..(i - 1) BY <1>5, <1>11, <2>1
    <3>2. l \in k..Len(slots) BY <1>0
    <3>3. text[p] # slots[l].name BY <1>6, <3>1, <3>2
    <3> QED BY <1>12, <3>1, <3>3
  <2>2. CASE e < p /\ p <= i - 1
    <3> DEFINE q == p - e
    <3>4. p \in 1..(i - 1) BY <1>11, <2>2
    <3>5. q \in 1..(w - m) /\ e + q = p /\ m + q \in 1..(M - 1)
      BY <1>17, <2>2, <3>4, SlotArithmetic
    <3>1. /\ p \in 1..(i - 1) /\ q \in 1..(w - m) /\ e + q = p /\ m + q \in 1..M
      BY <1>11, <3>4, <3>5
    <3> HIDE DEF q
    <3>2. after[p] = words[m + q] BY <1>6, <1>12, <3>1
    <3> QED BY <1>11, <3>1, <3>2
  <2>3. CASE i - 1 < p
    <3> DEFINE q == p - (i - 1)
    <3>1. q \in 1..v /\ (i - 1) + q = p BY <1>4, <1>17, <2>3, SlotArithmetic DEF E
    <3> HIDE DEF q
    <3>2. after[p] = value[q] BY <1>12, <3>1
    <3>3. value[q] \in Token BY <1>3, <3>1, ElementOfSeq DEF v
    <3>4. l \in 1..Len(slots) BY <1>0
    <3>5. slots[l] \in Slot BY <1>0, <3>4, ElementOfSeq
    <3>6. slots[l].name \in Markers BY <3>5 DEF Slot
    <3> QED BY <3>2, <3>3, <3>6, TemplateAssumption
  <2> QED BY <1>11, <2>1, <2>2, <2>3
<1>14. M \in 0..w BY <1>11
<1>15. TextIs(after, E, words, M, slots, k)
  BY <1>8, <1>9, <1>10, <1>14 DEF TextIs, w, h
<1> QED BY <1>4, <1>5, <1>11, <1>12, <1>15 DEF n, v, E

\* A document whose first k slots are filled.
Filled(document, words, slots, k) ==
    /\ document \in Document
    /\ TextIs(document.text, LastEnd(document.spans), words, MarkerAt(words, slots, k),
              slots, k)
    /\ LabelsAre(document, slots, k)

\* The list of labels stays neat: the new label is behind the others.
LEMMA NeatAppend ==
  ASSUME NEW spans, Neat(spans, LastEnd(spans)), NEW label \in Span,
         0 <= label.start, label.start < label.end, LastEnd(spans) <= label.start
  PROVE  /\ Neat(Append(spans, label), label.end)
         /\ LastEnd(Append(spans, label)) = label.end
         /\ \A n \in 1..Len(spans) : spans[n] \in Span /\ Lies(spans[n], LastEnd(spans))
<1> DEFINE new == Append(spans, label)
           c == Len(spans)
           e == LastEnd(spans)
<1>0. spans \in Seq(Span) /\ c \in Nat BY LenProperties DEF Neat
<1>1. /\ new \in Seq(Span) /\ Len(new) = c + 1 /\ new[c + 1] = label
      /\ \A n \in 1..c : new[n] = spans[n]
  BY <1>0, AppendProperties
<1>2. \A n \in 1..c : /\ spans[n] \in Span /\ Lies(spans[n], e)
  BY <1>0, ElementOfSeq DEF Neat
<1>3. e \in Int
  <2>1. CASE c = 0 BY <2>1 DEF LastEnd
  <2>2. CASE c # 0
    <3>1. c \in 1..c BY <1>0, <2>2
    <3> QED BY <1>2, <2>2, <3>1 DEF LastEnd, Span
  <2> QED BY <2>1, <2>2
<1>4. \A n \in 1..c : \A m \in 1..c : m < n => spans[m].end <= spans[n].start
  BY DEF Neat
<1>5. label.start \in Int /\ label.end \in Int BY DEF Span
<1>6. LastEnd(new) = label.end BY <1>0, <1>1 DEF LastEnd
<1> HIDE DEF new, c, e
<1>7. ASSUME NEW n \in 1..(c + 1) PROVE Lies(new[n], label.end)
  <2>1. CASE n = c + 1 BY <1>1, <1>5, <2>1 DEF Lies, e
  <2>2. CASE n # c + 1
    <3>1. n \in 1..c BY <1>0, <2>2
    <3>2. new[n] = spans[n] /\ Lies(spans[n], e) BY <1>1, <1>2, <3>1
    <3>3. e <= label.end BY <1>3, <1>5 DEF e
    <3>4. spans[n].end \in Int BY <3>2 DEF Lies, Span
    <3> QED BY <1>3, <1>5, <3>2, <3>3, <3>4 DEF Lies
  <2> QED BY <2>1, <2>2
<1>8. ASSUME NEW m \in 1..(c + 1), NEW n \in 1..(c + 1), m < n
      PROVE  new[m].end <= new[n].start
  <2>0. m \in 1..c BY <1>0, <1>8
  <2>1. CASE n = c + 1
    <3>1. new[n] = label /\ new[m] = spans[m] /\ Lies(spans[m], e)
      BY <1>1, <1>2, <2>0, <2>1
    <3>2. spans[m].end \in Int /\ spans[m].end <= e BY <3>1 DEF Lies, Span
    <3> QED BY <1>3, <1>5, <3>1, <3>2 DEF e
  <2>2. CASE n # c + 1
    <3>1. n \in 1..c BY <1>0, <2>2
    <3> QED BY <1>1, <1>4, <1>8, <2>0, <3>1
  <2> QED BY <2>1, <2>2
<1>9. Neat(new, label.end) BY <1>1, <1>7, <1>8 DEF Neat
<1> QED BY <1>2, <1>6, <1>9 DEF new, c, e

\* The labels keep standing where their values are.
LEMMA LabelsKeep ==
  ASSUME NEW document \in Document, NEW slots \in Seq(Slot), NEW k \in 1..Len(slots),
         LabelsAre(document, slots, k - 1),
         NEW after \in Document, NEW i \in 1..Len(document.text),
         LastEnd(document.spans) <= i - 1,
         FilledAt(after.text, document.text, i, slots[k].value),
         after.spans = Append(document.spans, LabelOf(i, slots[k])),
         LabelOf(i, slots[k]) \in Span,
         LabelOf(i, slots[k]) = [start |-> i - 1, end |-> (i - 1) + Len(slots[k].value),
                                 type |-> slots[k].type, score |-> 0]
  PROVE  /\ LabelsAre(after, slots, k)
         /\ LastEnd(after.spans) = (i - 1) + Len(slots[k].value)
<1> DEFINE text == document.text
           spans == document.spans
           label == LabelOf(i, slots[k])
           value == slots[k].value
           v == Len(value)
           e == LastEnd(spans)
           new == Append(spans, label)
           then == after.text
           E == (i - 1) + v
<1>0. /\ text \in Seq(Piece) /\ then \in Seq(Piece) /\ spans \in Seq(Span)
      /\ Len(text) \in Nat /\ Len(then) \in Nat /\ Len(slots) \in Nat /\ i \in Nat
  BY LenProperties DEF Document
<1>1. slots[k] \in Slot BY ElementOfSeq
<1>2. value \in Seq(Piece) /\ v \in Nat \ {0}
  <2>1. value \in Seq(Token) /\ value # <<>> BY <1>1 DEF Slot
  <2> QED BY <2>1, SeqMonotonic, LenProperties, EmptySeq DEF Piece
<1>3. label \in Span /\ label.start = i - 1 /\ label.end = E
  BY DEF Span
<1>4. Len(spans) = k - 1 /\ Neat(spans, e)
      /\ \A n \in 1..(k - 1) : Original(text, spans[n]) = slots[n].value
  BY DEF LabelsAre
<1>5. after.spans = new OBVIOUS
<1>6. /\ Len(new) = k /\ new[k] = label /\ \A n \in 1..(k - 1) : new[n] = spans[n]
  <2>1. /\ Len(new) = Len(spans) + 1 /\ new[Len(spans) + 1] = label
        /\ \A n \in 1..Len(spans) : new[n] = spans[n]
    BY <1>0, <1>3, AppendProperties
  <2>2. (k - 1) + 1 = k BY <1>0
  <2> HIDE DEF new, spans, label
  <2> QED BY <1>4, <2>1, <2>2
<1>7. /\ Len(then) = (Len(text) + v) - 1
      /\ \A p \in 1..(i - 1) : then[p] = text[p]
      /\ \A p \in 1..v : then[(i - 1) + p] = value[p]
  BY DEF FilledAt
<1>8. e <= i - 1 OBVIOUS
<1> HIDE DEF text, spans, label, value, v, e, new, then
<1>9. 0 <= label.start /\ label.start < label.end /\ e <= label.start
  BY <1>0, <1>2, <1>3, <1>8
<1>10. /\ Neat(new, E) /\ LastEnd(new) = E
       /\ \A n \in 1..(k - 1) : spans[n] \in Span /\ Lies(spans[n], e)
  <2>1. /\ Neat(new, label.end) /\ LastEnd(new) = label.end
        /\ \A n \in 1..Len(spans) : spans[n] \in Span /\ Lies(spans[n], e)
    BY <1>3, <1>4, <1>9, NeatAppend DEF e, new
  <2> QED BY <1>3, <1>4, <2>1
<1>11. e \in Int
  <2>1. CASE k - 1 = 0 BY <1>4, <2>1 DEF LastEnd, e
  <2>2. CASE k - 1 # 0
    <3>1. k - 1 \in 1..(k - 1) BY <1>0, <2>2
    <3> QED BY <1>4, <1>10, <2>2, <3>1 DEF LastEnd, Span, e
  <2> QED BY <2>1, <2>2
<1>12. i \in 1..Len(text) /\ i - 1 \in Nat /\ i - 1 <= Len(text) /\ i - 1 <= Len(then)
  <2>1. i \in 1..Len(text) BY DEF text
  <2> QED BY <1>0, <1>2, <1>7, <2>1
<1>13. ASSUME NEW n \in 1..(k - 1) PROVE Original(then, new[n]) = slots[n].value
  <2> DEFINE a == spans[n].start
             b == spans[n].end
  <2>1. a \in 0..(i - 1) /\ b \in a..(i - 1)
    <3>1. /\ a \in Int /\ b \in Int /\ 0 <= a /\ a < b /\ b <= e
      BY <1>10 DEF Lies, Span
    <3> HIDE DEF a, b
    <3> QED BY <1>8, <1>11, <1>12, <3>1
  <2>2. SubSeq(then, a + 1, b) = SubSeq(text, a + 1, b)
    <3> HIDE DEF a, b
    <3> QED BY <1>0, <1>7, <1>12, <2>1, SameStretch
  <2>3. Original(then, spans[n]) = Original(text, spans[n]) BY <2>2 DEF Original
  <2> QED BY <1>4, <1>6, <2>3
<1>14. Original(then, label) = value
  <2> DEFINE c == i - 1
             q == SubSeq(then, c + 1, E)
  <2>1. c \in 0..Len(then) /\ E \in c..Len(then) /\ E - c = v
    BY <1>0, <1>2, <1>7, <1>12
  <2>2. q \in Seq(Piece) /\ Len(q) = v /\ \A j \in 1..v : q[j] = then[c + j]
    <3> HIDE DEF c, E
    <3>1. /\ q \in Seq(Piece) /\ Len(q) = E - c
          /\ \A j \in 1..(E - c) : q[j] = then[c + j]
      BY <1>0, <2>1, Stretch
    <3> QED BY <2>1, <3>1
  <2>3. q = value
    <3> HIDE DEF q
    <3> QED BY <1>2, <1>7, <2>2, SeqEqual DEF v
  <2> QED BY <1>3, <2>3 DEF Original
<1>15. ASSUME NEW n \in 1..k PROVE Original(then, new[n]) = slots[n].value
  <2>1. CASE n = k BY <1>6, <1>14, <2>1 DEF value
  <2>2. CASE n # k
    <3>1. n \in 1..(k - 1) BY <1>0, <2>2
    <3> QED BY <1>13, <3>1
  <2> QED BY <2>1, <2>2
<1>16. LabelsAre(after, slots, k)
  <2>1. Neat(new, LastEnd(new)) BY <1>10
  <2> QED BY <1>5, <1>6, <1>15, <2>1 DEF LabelsAre, then
<1> QED BY <1>5, <1>10, <1>16 DEF v, value

\* A slot more is filled.
LEMMA FillKeeps ==
  ASSUME NEW words, NEW slots, InOrder(words, slots), NEW k \in 1..Len(slots),
         NEW document, Filled(document, words, slots, k - 1)
  PROVE  Filled(Fill(document, slots[k]), words, slots, k)
<1> DEFINE text == document.text
           e == LastEnd(document.spans)
           m == MarkerAt(words, slots, k - 1)
           M == MarkerAt(words, slots, k)
           i == e + (M - m)
           value == slots[k].value
           after == Fill(document, slots[k])
<1>0. document \in Document /\ text \in Seq(Piece) /\ slots \in Seq(Slot) /\ slots[k] \in Slot
  BY ElementOfSeq DEF Filled, Document, InOrder
<1>1. TextIs(text, e, words, m, slots, k - 1) BY DEF Filled
<1>2. NextAt(text, e, words, m, M, slots, k, i)
  <2> HIDE DEF text, e, m, M, i
  <2> QED BY <1>0, <1>1, NextMarker DEF m, M, i
<1> HIDE DEF text, e, m, M, i, value
<1>3. /\ i \in 1..Len(text) /\ e <= i - 1 /\ Len(value) \in Nat \ {0}
      /\ PutAt(text, i, value) \in Seq(Piece)
      /\ TextIs(PutAt(text, i, value), (i - 1) + Len(value), words, M, slots, k)
  BY <1>0, <1>1, <1>2, TextAfterFill DEF value
<1>4. i = Index(text, slots[k].name)
  <2>1. FirstAt(text, slots[k].name, i) BY <1>2 DEF NextAt
  <2> QED BY <1>0, <2>1, IndexIsFirst
<1>5. /\ after \in Document
      /\ after.text = PutAt(text, i, value)
      /\ after.spans = Append(document.spans, LabelOf(i, slots[k]))
      /\ LabelOf(i, slots[k]) \in Span
      /\ LabelOf(i, slots[k]) = [start |-> i - 1, end |-> (i - 1) + Len(value),
                                 type |-> slots[k].type, score |-> 0]
  <2> DEFINE slot == slots[k]
             I == Index(document.text, slot.name)
  <2>1. slot \in Slot BY <1>0
  <2> HIDE DEF slot, after, I
  <2>2. /\ Fill(document, slot) \in Document
        /\ Fill(document, slot).text = PutAt(document.text, I, slot.value)
        /\ Fill(document, slot).spans = Append(document.spans, LabelOf(I, slot))
        /\ LabelOf(I, slot) \in Span
        /\ LabelOf(I, slot) = [start |-> I - 1, end |-> (I - 1) + Len(slot.value),
                               type |-> slot.type, score |-> 0]
    BY <1>0, <2>1, FillIs DEF I
  <2>3. I = i BY <1>4 DEF I, slot, text
  <2>4. after = Fill(document, slot) /\ value = slot.value BY DEF after, slot, value
  <2> QED BY <2>2, <2>3, <2>4 DEF slot, text
<1> HIDE DEF after
<1>6. FilledAt(after.text, text, i, value)
  <2>1. value \in Seq(Token) BY <1>0 DEF Slot, value
  <2>2. value \in Seq(Piece) BY <2>1, SeqMonotonic DEF Piece
  <2> QED BY <1>0, <1>3, <1>5, <2>2, FilledAtIs
<1>7. LabelsAre(document, slots, k - 1) BY DEF Filled
<1>8. LabelsAre(after, slots, k) /\ LastEnd(after.spans) = (i - 1) + Len(value)
  BY <1>0, <1>3, <1>5, <1>6, <1>7, LabelsKeep DEF text, value, e
<1>9. Filled(after, words, slots, k) BY <1>3, <1>5, <1>8 DEF Filled, M
<1> QED BY <1>9 DEF after

\* A list of labels that come one after the other is in order already.
LEMMA OrderedNeat ==
  ASSUME NEW spans, NEW size, Neat(spans, size)
  PROVE  Ordered(spans, DOMAIN spans) = spans
<1> DEFINE c == Len(spans)
           before(i) == Cardinality({j \in DOMAIN spans : Earlier(spans, j, i)})
<1>0. spans \in Seq(Span) /\ c \in Nat /\ DOMAIN spans = 1..c
  BY LenProperties DEF Neat
<1>1. \A i \in 1..c : /\ i \in Nat /\ spans[i].start \in Int /\ spans[i].end \in Int
                      /\ spans[i].start < spans[i].end
  BY <1>0 DEF Neat, Lies, Span
<1>2. \A i, j \in 1..c : i < j => spans[i].end <= spans[j].start
  BY DEF Neat
<1>3. \A i, j \in 1..c : i < j => spans[i].start < spans[j].start
  BY <1>1, <1>2
<1>4. \A i, j \in 1..c : Earlier(spans, j, i) <=> j < i
  <2> SUFFICES ASSUME NEW i \in 1..c, NEW j \in 1..c
               PROVE  Earlier(spans, j, i) <=> j < i
    OBVIOUS
  <2>1. CASE j < i BY <1>3, <2>1 DEF Earlier
  <2>2. CASE i < j
    <3>1. spans[i].start < spans[j].start BY <1>3, <2>2
    <3>2. ~Earlier(spans, j, i) BY <1>1, <3>1 DEF Earlier
    <3>3. ~(j < i) BY <1>1, <2>2
    <3> QED BY <3>2, <3>3
  <2>3. CASE i = j BY <1>1, <2>3 DEF Earlier
  <2> QED BY <1>0, <2>1, <2>2, <2>3
<1>5. ASSUME NEW i \in 1..c PROVE before(i) = i - 1
  <2>1. {j \in DOMAIN spans : Earlier(spans, j, i)} = 1..(i - 1)
    BY <1>0, <1>4
  <2>2. Cardinality(1..(i - 1)) = i - 1
    <3> DEFINE b == i - 1
    <3>1. 1 \in Int /\ b \in Int /\ (1 > b <=> b = 0) /\ (b - 1) + 1 = b BY <1>0
    <3> HIDE DEF b
    <3>2. Cardinality(1..b) = b BY <3>1, FS_Interval
    <3> QED BY <3>2 DEF b
  <2> QED BY <2>1, <2>2
<1>6. Cardinality(DOMAIN spans) = c
  <2>1. 1 \in Int /\ c \in Int /\ (1 > c <=> c = 0) /\ (c - 1) + 1 = c BY <1>0
  <2> HIDE DEF c
  <2>2. Cardinality(1..c) = c BY <2>1, FS_Interval
  <2> QED BY <1>0, <2>2
<1> DEFINE at(n) == CHOOSE i \in DOMAIN spans : before(i) = n - 1
           o == [n \in 1..c |-> spans[at(n)]]
<1>7. Ordered(spans, DOMAIN spans) = o BY <1>6 DEF Ordered
<1> HIDE DEF before, c
<1>8. ASSUME NEW n \in 1..c PROVE at(n) = n
  <2>1. before(n) = n - 1 /\ n \in DOMAIN spans BY <1>0, <1>5
  <2>2. at(n) \in DOMAIN spans /\ before(at(n)) = n - 1 BY <2>1
  <2> HIDE DEF at
  <2>3. at(n) \in 1..c /\ at(n) - 1 = n - 1 BY <1>0, <1>5, <2>2
  <2> QED BY <1>0, <2>3
<1> HIDE DEF at
<1>9. o = [n \in 1..c |-> spans[n]] BY <1>8
<1>10. spans = [n \in 1..c |-> spans[n]] BY <1>0 DEF c
<1> QED BY <1>7, <1>9, <1>10, Zenon

\* A template that is not filled yet.
LEMMA NothingFilled ==
  ASSUME NEW words, NEW slots, InOrder(words, slots)
  PROVE  Filled([text |-> words, spans |-> <<>>], words, slots, 0)
<1> DEFINE d == [text |-> words, spans |-> <<>>]
<1>0. words \in Seq(Piece) /\ <<>> \in Seq(Span) /\ Len(<<>>) = 0 /\ Len(words) \in Nat
      /\ Len(slots) \in Nat
  BY EmptySeq, LenProperties DEF InOrder
<1>1. d \in Document /\ d.text = words /\ d.spans = <<>> BY <1>0 DEF Document
<1> HIDE DEF d
<1>2. MarkerAt(words, slots, 0) = 0 BY DEF MarkerAt
<1>3. LastEnd(<<>>) = 0 BY <1>0 DEF LastEnd
<1>4. TextIs(words, 0, words, 0, slots, 0)
  <2>1. 0 \in 0..Len(words) BY <1>0
  <2>2. \A l \in (0 + 1)..Len(slots) : \A p \in 1..0 : words[p] # slots[l].name
    OBVIOUS
  <2> QED BY <1>0, <2>1, <2>2 DEF TextIs
<1>5. Neat(<<>>, 0) BY <1>0 DEF Neat
<1>6. LabelsAre(d, slots, 0) BY <1>0, <1>1, <1>3, <1>5 DEF LabelsAre
<1>7. Filled(d, words, slots, 0) BY <1>1, <1>2, <1>3, <1>4, <1>6 DEF Filled
<1> QED BY <1>7 DEF d

\* A labelled document: its labels come one after the other in its text, and
\* each stands where the value of a slot is.
LEMMA BuildIs ==
  ASSUME NEW t \in Templates, NEW d, d = Build(t)
  PROVE  /\ d.text \in Seq(Piece)
         /\ Neat(d.spans, Len(d.text))
         /\ \A n \in 1..Len(d.spans) :
               Original(d.text, d.spans[n]) \in {t.slots[k].value : k \in DOMAIN t.slots}
<1> DEFINE words == t.words
           slots == t.slots
           n == Len(slots)
           base == [text |-> words, spans |-> <<>>]
           filled == FoldLeft(Fill, base, slots)
<1>0. InOrder(words, slots) /\ n \in Nat /\ DOMAIN slots = 1..n
  <2>1. t \in Template BY TemplateAssumption
  <2>2. words \in Seq(Piece) /\ slots \in Seq(Slot) BY <2>1 DEF Template, Piece
  <2>3. n \in Nat /\ DOMAIN slots = 1..n BY <2>2, LenProperties
  <2>4. \A k \in DOMAIN slots :
            /\ slots[k].name \in ToSet(words)
            /\ \A m \in 1..(k - 1) : Index(words, slots[m].name) < Index(words, slots[k].name)
    BY TemplateAssumption
  <2> QED BY <2>2, <2>3, <2>4 DEF InOrder
<1>1. words \in Seq(Piece) /\ slots \in Seq(Slot) BY <1>0 DEF InOrder
<1>2. d = [text |-> filled.text, spans |-> Ordered(filled.spans, DOMAIN filled.spans)]
  BY DEF Build
<1> HIDE DEF words, slots, n, filled
<1>3. PICK f : Fills(f, words, slots) /\ filled = f[n]
  BY <1>1, FillSteps DEF filled, n
<1>4. /\ f[0] = base
      /\ \A k \in 1..n : f[k] = Fill(f[k - 1], slots[k])
  BY <1>3 DEF Fills, n
<1> DEFINE T == {k \in 0..n : Filled(f[k], words, slots, k)}
<1>5. 0 \in T
  <2>1. Filled(f[0], words, slots, 0) BY <1>0, <1>4, NothingFilled
  <2> QED BY <1>0, <2>1
<1>6. ASSUME NEW k \in 1..n, k - 1 \in T PROVE k \in T
  <2>1. Filled(f[k - 1], words, slots, k - 1) BY <1>6
  <2>2. Filled(Fill(f[k - 1], slots[k]), words, slots, k)
    BY <1>0, <2>1, FillKeeps DEF n
  <2>3. k \in 0..n BY <1>0
  <2> QED BY <1>4, <2>2, <2>3
<1> HIDE DEF T
<1>7. n \in T
  <2>1. \A k \in 0..n : k \in T BY <1>0, <1>5, <1>6, UpTo
  <2> QED BY <1>0, <2>1
<1>8. Filled(filled, words, slots, n) BY <1>3, <1>7 DEF T
<1> DEFINE e == LastEnd(filled.spans)
<1>9. /\ filled.text \in Seq(Piece) /\ filled.spans \in Seq(Span)
      /\ e \in 0..Len(filled.text) /\ Len(filled.spans) = n /\ Neat(filled.spans, e)
      /\ \A k \in 1..n : Original(filled.text, filled.spans[k]) = slots[k].value
  BY <1>8 DEF Filled, Document, TextIs, LabelsAre
<1>10. Ordered(filled.spans, DOMAIN filled.spans) = filled.spans
  BY <1>9, OrderedNeat
<1>11. d.text = filled.text /\ d.spans = filled.spans BY <1>2, <1>10
<1>12. Neat(filled.spans, Len(filled.text))
  <2>1. Len(filled.text) \in Nat BY <1>9, LenProperties
  <2>2. \A k \in 1..n : filled.spans[k] \in Span BY <1>9, ElementOfSeq
  <2> HIDE DEF e
  <2>3. e \in Int /\ e <= Len(filled.text) BY <1>9, <2>1
  <2>4. ASSUME NEW k \in 1..n PROVE Lies(filled.spans[k], Len(filled.text))
    <3>1. Lies(filled.spans[k], e) BY <1>9 DEF Neat
    <3>2. filled.spans[k].end \in Int BY <2>2 DEF Span
    <3> QED BY <2>1, <2>3, <3>1, <3>2 DEF Lies
  <2> QED BY <1>9, <2>4 DEF Neat
<1> QED BY <1>0, <1>9, <1>11, <1>12 DEF slots

------------------------------------------------------------------------------
(***************************************************************************)
(* The table and the misses.                                               *)
(***************************************************************************)

\* When a detection is over its spans come one after the other in the text.
LEMMA EvaluatedIsNeat ==
  ASSUME IInv, Len(detected) = 1, NEW template \in Templates,
         NEW d, d = labeled_corpus[template], Evaluated(d)
  PROVE  /\ d = Build(template)
         /\ Len(texts[1]) \in Nat /\ texts[1] \in Seq(Token)
         /\ DOMAIN texts[1] = 1..Len(texts[1])
         /\ Neat(d.spans, Len(texts[1]))
         /\ Neat(detected[1], Len(texts[1]))
<1>1. d = Build(template) BY DEF labeled_corpus
<1>2. texts[1] \in Seq(Token) BY InvLengths
<1>3. Len(texts[1]) \in Nat /\ DOMAIN texts[1] = 1..Len(texts[1])
  BY <1>2, LenProperties
<1>4. Neat(detected[1], Len(texts[1])) BY DEF IInv, BatchIsScanned
<1>5. Neat(d.spans, Len(d.text)) BY <1>1, BuildIs
<1>6. d.text = texts[1] BY DEF Evaluated
<1> QED BY <1>1, <1>2, <1>3, <1>4, <1>5, <1>6

\* The table of a document can be checked, whatever the analyzer found in it.
THEOREM TableRight == Spec => []TableIsRight
<1>1. IInv => TableIsRight
  <2> SUFFICES ASSUME IInv, Len(detected) = 1,
                      NEW template \in Templates, NEW typed \in BOOLEAN,
                      NEW d, d = labeled_corpus[template], Evaluated(d),
                      NEW result, result = match_spans(d.spans, detected[1], typed)
               PROVE  /\ ALL(result).tp = BestMatching(d.spans, detected[1], typed)
                      /\ \A t \in EntityTypes :
                            Row(result, t).tp + Row(result, t).fn
                                = Cardinality({n \in DOMAIN d.spans : d.spans[n].type = t})
                      /\ SumFunction([t \in EntityTypes |-> Row(result, t).tp])
                             = ALL(result).tp
                      /\ SumFunction([t \in EntityTypes |-> Row(result, t).fp])
                             = ALL(result).fp
                      /\ ALL(result).tp + ALL(result).fp = Len(detected[1])
    BY DEF TableIsRight
  <2> DEFINE size == Len(texts[1])
  <2>1. size \in Nat /\ Neat(d.spans, size) /\ Neat(detected[1], size)
    BY EvaluatedIsNeat
  <2> HIDE DEF size
  <2> QED BY <2>1, TableOfRun
<1> QED BY <1>1, Inductive, PTL

\* A label that was paired shares a position with a detection.
LEMMA PairedIsCovered ==
  ASSUME IInv, Len(detected) = 1, NEW s \in Span, Lies(s, Len(texts[1])),
         NEW n \in 1..Len(detected[1]), overlaps(detected[1][n], s)
  PROVE  Positions(s) \cap Covered(1, ToSet(detected[1])) # {}
<1> DEFINE c == detected[1][n]
           a == s.start
           b == c.start
           size == Len(texts[1])
           p == IF a < b THEN b + 1 ELSE a + 1
<1>1. texts[1] \in Seq(Token) BY InvLengths
<1>2. size \in Nat /\ DOMAIN texts[1] = 1..size BY <1>1, LenProperties
<1>3. Neat(detected[1], size) BY DEF IInv, BatchIsScanned
<1>4. Lies(c, size) BY <1>3 DEF Neat
<1>5. /\ a \in Int /\ s.end \in Int /\ 0 <= a /\ a < s.end /\ s.end <= size
      /\ b \in Int /\ c.end \in Int /\ 0 <= b /\ b < c.end /\ c.end <= size
  BY <1>4 DEF Lies, Span
<1>6. b < s.end /\ a < c.end BY DEF overlaps
<1>7. c \in ToSet(detected[1])
  <2>1. DOMAIN detected[1] = 1..Len(detected[1]) BY <1>3, LenProperties DEF Neat
  <2> QED BY <2>1 DEF ToSet
<1> HIDE DEF c, a, b, size
<1>8. p \in 1..size /\ a + 1 <= p /\ p <= s.end /\ b < p /\ p <= c.end
  BY <1>2, <1>5, <1>6
<1> HIDE DEF p
<1>9. p \in Positions(s)
  <2>1. p \in (a + 1)..s.end BY <1>2, <1>5, <1>8
  <2> QED BY <2>1 DEF Positions, a
<1>10. p \in Covered(1, ToSet(detected[1]))
  BY <1>2, <1>7, <1>8 DEF Covered, b
<1> QED BY <1>9, <1>10

\* A label with a masked position overlaps a detection.
LEMMA CoveredIsOverlapped ==
  ASSUME IInv, Len(detected) = 1, NEW s \in Span, Lies(s, Len(texts[1])),
         Positions(s) \cap Covered(1, ToSet(detected[1])) # {}
  PROVE  \E n \in 1..Len(detected[1]) : overlaps(detected[1][n], s)
<1>1. PICK p : p \in Positions(s) /\ p \in Covered(1, ToSet(detected[1]))
  OBVIOUS
<1>2. PICK c \in ToSet(detected[1]) : c.start < p /\ p <= c.end
  BY <1>1 DEF Covered
<1>3. detected[1] \in Seq(Span) BY DEF IInv, BatchIsScanned, Neat
<1>4. PICK n \in 1..Len(detected[1]) : c = detected[1][n]
  BY <1>3, LenProperties DEF ToSet
<1>5. c \in Span BY <1>3, <1>4, ElementOfSeq
<1>6. c.start \in Int /\ c.end \in Int /\ s.start \in Int /\ s.end \in Int
  BY <1>5 DEF Span
<1>7. p \in Int /\ s.start + 1 <= p /\ p <= s.end BY <1>1, <1>6 DEF Positions
<1>8. c.start < s.end /\ s.start < c.end BY <1>2, <1>6, <1>7
<1> QED BY <1>4, <1>8 DEF overlaps

\* What match_spans returns, whatever it is asked.
LEMMA ResultAccounts ==
  ASSUME NEW size \in Nat, NEW expected, Neat(expected, size),
         NEW candidates, Neat(candidates, size), NEW typed
  PROVE  /\ match_spans(expected, candidates, typed) \in Result
         /\ Accounts(match_spans(expected, candidates, typed), expected, candidates,
                     typed, Len(candidates))
<1> DEFINE k == Len(candidates)
<1>0. k \in Nat /\ candidates \in Seq(Span) /\ expected \in Seq(Span) /\ k \in 0..k
  BY LenProperties DEF Neat
<1>1. PICK f : /\ Run(f, expected, candidates, typed, size)
               /\ match_spans(expected, candidates, typed) = f[k]
  BY <1>0, MatchRuns
<1>2. f[k] \in Result BY <1>0, <1>1 DEF Run
<1>3. Accounts(f[k], expected, candidates, typed, k) BY <1>0, <1>1, RunAccounts
<1> QED BY <1>1, <1>2, <1>3

\* A label of which nothing was masked is listed as missed, under the value
\* that was put there; a missed label of which something was masked shares it
\* with another label that was paired with the span.
THEOREM MissesExposed == Spec => []MissesAreExposed
<1>1. IInv => MissesAreExposed
  <2> SUFFICES ASSUME IInv, Len(detected) = 1, NEW template \in Templates,
                      NEW d, d = labeled_corpus[template], Evaluated(d),
                      NEW result, result = match_spans(d.spans, detected[1], FALSE)
               PROVE  /\ \A n \in DOMAIN d.spans :
                            Positions(d.spans[n]) \cap Covered(1, ToSet(detected[1])) = {}
                                => d.spans[n] \in ToSet(result.missed)
                      /\ \A s \in ToSet(result.missed) :
                            \/ Positions(s) \cap Covered(1, ToSet(detected[1])) = {}
                            \/ \E p \in ToSet(result.matched) :
                                   p[1] # s /\ overlaps(p[2], s)
                      /\ ToSet(detection_misses(d, detected[1]))
                            \subseteq {template.slots[k].value : k \in DOMAIN template.slots}
    BY DEF MissesAreExposed
  <2> DEFINE size == Len(texts[1])
             k == Len(detected[1])
             safe == Covered(1, ToSet(detected[1]))
             missed == ToSet(result.missed)
             values == {template.slots[i].value : i \in DOMAIN template.slots}
  <2>1. /\ d = Build(template) /\ size \in Nat
        /\ Neat(d.spans, size) /\ Neat(detected[1], size)
    BY EvaluatedIsNeat
  <2>2. /\ d.spans \in Seq(Span) /\ detected[1] \in Seq(Span) /\ k \in Nat /\ k \in 0..k
        /\ DOMAIN d.spans = 1..Len(d.spans) /\ DOMAIN detected[1] = 1..k
    BY <2>1, LenProperties DEF Neat
  <2>3. \A n \in 1..Len(d.spans) : d.spans[n] \in Span /\ Lies(d.spans[n], size)
    BY <2>1, <2>2, ElementOfSeq DEF Neat
  <2> HIDE DEF size, k
  <2>4. /\ match_spans(d.spans, detected[1], FALSE) \in Result
        /\ Accounts(match_spans(d.spans, detected[1], FALSE), d.spans, detected[1],
                    FALSE, Len(detected[1]))
    BY <2>1, ResultAccounts, Zenon
  <2>5. result \in Result BY <2>4
  <2>6. Accounts(result, d.spans, detected[1], FALSE, k) BY <2>4, Zenon DEF k
  <2>7. /\ result.matched \in Seq(Span \X Span) /\ result.missed \in Seq(Span)
        /\ DOMAIN result.missed = 1..Len(result.missed)
    BY <2>5, LenProperties DEF Result
  <2>8. ASSUME NEW n \in DOMAIN d.spans, Positions(d.spans[n]) \cap safe = {},
               d.spans[n] \notin missed
        PROVE  FALSE
    <3> DEFINE s == d.spans[n]
    <3>1. s \in ToSet(d.spans) \ ToSet(result.missed) BY <2>8 DEF ToSet
    <3>2. PICK j \in DOMAIN result.matched : result.matched[j][1] = s
      BY <2>6, <3>1 DEF Accounts
    <3>3. /\ result.matched[j][2] \in ToSet(detected[1])
          /\ Pairs(result.matched[j][2], s, FALSE)
      BY <2>6, <3>2 DEF Accounts
    <3>4. PICK i \in 1..Len(detected[1]) : detected[1][i] = result.matched[j][2]
      BY <2>2, <3>3 DEF ToSet, k
    <3>5. overlaps(detected[1][i], s) BY <3>3, <3>4 DEF Pairs
    <3>6. s \in Span /\ Lies(s, Len(texts[1])) BY <2>2, <2>3 DEF size
    <3> HIDE DEF s
    <3>7. Positions(s) \cap safe # {} BY <3>5, <3>6, PairedIsCovered
    <3> QED BY <2>8, <3>7 DEF s
  <2>9. ASSUME NEW s \in missed, Positions(s) \cap safe # {}
        PROVE  \E p \in ToSet(result.matched) : p[1] # s /\ overlaps(p[2], s)
    <3>1. s \in ToSet(d.spans) BY <2>6 DEF Accounts
    <3>2. s \in Span /\ Lies(s, Len(texts[1])) BY <2>2, <2>3, <3>1 DEF ToSet, size
    <3>3. PICK i \in 1..Len(detected[1]) : overlaps(detected[1][i], s)
      BY <2>9, <3>2, CoveredIsOverlapped
    <3>4. i \in 1..k /\ Pairs(detected[1][i], s, FALSE) BY <3>3 DEF Pairs, k
    <3>5. PICK j \in DOMAIN result.matched : result.matched[j][2] = detected[1][i]
      BY <2>6, <3>4 DEF Accounts
    <3>6. result.matched[j][1] \notin ToSet(result.missed) BY <2>6 DEF Accounts
    <3>7. result.matched[j] \in ToSet(result.matched) BY DEF ToSet
    <3> QED BY <3>3, <3>5, <3>6, <3>7
  <2>10. ToSet(detection_misses(d, detected[1])) \subseteq values
    <3> DEFINE o == [n \in DOMAIN result.missed |-> Original(d.text, result.missed[n])]
    <3>1. detection_misses(d, detected[1]) = o BY DEF detection_misses
    <3>2. \A n \in 1..Len(d.spans) : Original(d.text, d.spans[n]) \in values
      BY <2>1, BuildIs
    <3>3. ASSUME NEW n \in DOMAIN result.missed
          PROVE  Original(d.text, result.missed[n]) \in values
      <4>0. result.missed[n] \in ToSet(result.missed) BY DEF ToSet
      <4>1. result.missed[n] \in ToSet(d.spans) BY <2>6, <4>0 DEF Accounts
      <4>2. PICK j \in 1..Len(d.spans) : result.missed[n] = d.spans[j]
        BY <2>2, <4>1 DEF ToSet
      <4> QED BY <3>2, <4>2
    <3>4. ToSet(o) \subseteq values
      <4>1. DOMAIN o = DOMAIN result.missed
            /\ \A n \in DOMAIN o : o[n] = Original(d.text, result.missed[n])
        OBVIOUS
      <4> HIDE DEF o, values
      <4> QED BY <3>3, <4>1 DEF ToSet
    <3> HIDE DEF o
    <3> QED BY <3>1, <3>4
  <2> QED BY <2>8, <2>9, <2>10
<1> QED BY <1>1, Inductive, PTL
=============================================================================
