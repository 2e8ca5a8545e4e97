--------------------------- MODULE AnalysisProofs ---------------------------
(***************************************************************************)
(* What the analysis promises, for any datasets, any rows files and any    *)
(* split of the samples into halves.                                       *)
(*                                                                         *)
(* The invariant is that the files are those of the draw and everything    *)
(* that is reported was computed from them; the theorems are then facts    *)
(* about grouping, thresholds and counting. The draw has an invariant of   *)
(* its own: what was drawn is what load returns. That this is balanced is  *)
(* arithmetic: the quotas add up to the limit, and only a share that was   *)
(* rounded down is rounded up.                                             *)
(***************************************************************************)
EXTENDS Analysis, FoldTheorems

\* A rows file over the samples that were drawn.
FileOf(d) == [judge : Judges, model : Models, dataset : Datasets,
              mode : {"mask", "off"}, conf : Confs, manifest : BOOLEAN,
              labelled : BOOLEAN, score : [d -> Scores \cup {Missing}]]

FilesAreOfTheDraw ==
    /\ population \in Populations
    /\ drawn \subseteq DOMAIN population
    /\ files \in Seq(FileOf(drawn))

Unreported == reports = <<>> /\ ablations = {} /\ agreements = {} /\ cases = {}

Reported ==
    /\ reports = [s \in AllSeries(files) |-> AnalyzeJudge(files, s)]
    /\ ablations \in Ablations(files)
    /\ agreements = Agreements(files, reports)
    /\ cases = CollectErrors(files, reports)

IInv ==
    /\ FilesAreOfTheDraw
    /\ Unreported \/ Reported
    /\ stage # "over" => Unreported
    /\ stage \in {"load", "benchmark"} => files = <<>>

------------------------------------------------------------------------------
(***************************************************************************)
(* The invariant.                                                          *)
(***************************************************************************)
LEMMA DrawIsFromTheDataset ==
  ASSUME NEW samples, NEW r, NEW d \in Load(samples, r)
  PROVE  d \subseteq DOMAIN samples
<1> DEFINE from == Selected(samples, r.split)
<1>1. from \subseteq DOMAIN samples BY DEF Selected
<1>2. \A positions, n : First(positions, n) \subseteq positions BY DEF First
<1>3. \A k : Group(samples, from, k) \subseteq from BY DEF Group
<1>4. ASSUME NEW quota, NEW e,
             e = UNION {First(Group(samples, from, k), quota[k]) : k \in DOMAIN quota}
      PROVE  e \subseteq from
  BY <1>2, <1>3, <1>4
<1>5. \A e \in StratifiedSample(samples, from, r.limit) : e \subseteq from
  BY <1>4 DEF StratifiedSample
<1> HIDE DEF from
<1>6. d \in {from, First(from, r.limit)} \cup StratifiedSample(samples, from, r.limit)
  BY DEF Load, from
<1> QED BY <1>1, <1>2, <1>5, <1>6

LEMMA InitInvariant == Init => IInv
  BY EmptySeq
  DEF Init, IInv, FilesAreOfTheDraw, Unreported

LEMMA JudgeStays ==
  ASSUME UNCHANGED <<files, population, fold>>, NEW s
  PROVE  AnalyzeJudge(files, s)' = AnalyzeJudge(files, s)
  BY DEF AnalyzeJudge, Holdout, Half, BestThreshold, Metrics, Gold, BothClasses

LEMMA CasesStay ==
  ASSUME UNCHANGED <<files, population>>
  PROVE  CollectErrors(files, reports)' = CollectErrors(files, reports')
  BY DEF CollectErrors, Gold

LEMMA ReportStays ==
  ASSUME UNCHANGED <<files, population, fold>>,
         reports' = [s \in AllSeries(files) |-> AnalyzeJudge(files, s)],
         ablations' \in Ablations(files),
         agreements' = Agreements(files, reports'),
         cases' = CollectErrors(files, reports')
  PROVE  Reported'
<1>1. [s \in AllSeries(files) |-> AnalyzeJudge(files, s)]'
          = [s \in AllSeries(files) |-> AnalyzeJudge(files, s)]
  <2>1. \A s : AnalyzeJudge(files, s)' = AnalyzeJudge(files, s) BY JudgeStays
  <2>2. AllSeries(files)' = AllSeries(files) OBVIOUS
  <2> QED BY <2>1, <2>2
<1>2. (ablations \in Ablations(files))' OBVIOUS
<1>3. (agreements = Agreements(files, reports))' OBVIOUS
<1>4. (cases = CollectErrors(files, reports))' BY CasesStay
<1> QED BY <1>1, <1>2, <1>3, <1>4 DEF Reported

LEMMA StepInvariant == IInv /\ [Next]_vars => IInv'
<1> SUFFICES ASSUME IInv, [Next]_vars PROVE IInv' OBVIOUS
<1>1. CASE LoadSamples
  BY <1>1, DrawIsFromTheDataset, EmptySeq
  DEF LoadSamples, IInv, FilesAreOfTheDraw, Unreported
<1>2. CASE LoadRaises
  BY <1>2 DEF LoadRaises, IInv, FilesAreOfTheDraw, Unreported
<1>3. CASE Benchmark
  <2>1. PICK fs \in FileSeqs :
          files' = [i \in DOMAIN fs |->
              [fs[i] EXCEPT !.score = [p \in drawn |-> fs[i].score[p]]]]
    BY <1>3 DEF Benchmark
  <2>2. fs \in Seq(File) BY AnalysisAssumption
  <2>3. /\ Len(fs) \in Nat /\ DOMAIN fs = 1..Len(fs)
        /\ \A i \in 1..Len(fs) : fs[i] \in File
    BY <2>2, LenProperties, ElementOfSeq
  <2>4. drawn \subseteq Positions
    BY DEF IInv, FilesAreOfTheDraw, Positions
  <2>5. ASSUME NEW f \in File
        PROVE  [f EXCEPT !.score = [p \in drawn |-> f.score[p]]] \in FileOf(drawn)
    BY <2>4 DEF File, FileOf
  <2>6. \A i \in 1..Len(fs) : files'[i] \in FileOf(drawn)
    BY <2>1, <2>3, <2>5
  <2>7. files' \in [1..Len(fs) -> FileOf(drawn)]
    BY <2>1, <2>3, <2>6
  <2>8. files' \in Seq(FileOf(drawn)) BY <2>3, <2>7, SeqDef
  <2> QED
    BY <1>3, <2>8 DEF Benchmark, IInv, FilesAreOfTheDraw, Unreported
<1>4. CASE Analyze
  <2>1. Reported'
    BY <1>4, ReportStays DEF Analyze
  <2> QED BY <1>4, <2>1 DEF Analyze, IInv, FilesAreOfTheDraw, Unreported
<1>5. CASE UNCHANGED vars
  <2>1. ASSUME Reported PROVE Reported'
    <3>1. UNCHANGED <<files, population, fold, reports, ablations, agreements, cases>>
      BY <1>5 DEF vars
    <3>2. CollectErrors(files, reports) = CollectErrors(files, reports')
      BY <3>1
    <3>3. Agreements(files, reports) = Agreements(files, reports') BY <3>1
    <3> QED BY <2>1, <3>1, <3>2, <3>3, ReportStays DEF Reported
  <2> QED BY <1>5, <2>1 DEF vars, IInv, FilesAreOfTheDraw, Unreported
<1> QED BY <1>1, <1>2, <1>3, <1>4, <1>5 DEF Next

\* Everything reported was computed from rows files over the draw.
THEOREM Inductive == Spec => []IInv
  BY InitInvariant, StepInvariant, PTL DEF Spec

------------------------------------------------------------------------------
(***************************************************************************)
(* Series and pairs.                                                       *)
(***************************************************************************)
LEMMA AtMostOne ==
  ASSUME NEW S, IsFiniteSet(S), ~(Cardinality(S) > 1), NEW x \in S, NEW y \in S
  PROVE  x = y
<1> SUFFICES ASSUME x # y PROVE FALSE OBVIOUS
<1>1. IsFiniteSet({x}) /\ Cardinality({x}) = 1 BY FS_Singleton
<1>2. Cardinality({x} \cup {y}) = 2 BY <1>1, FS_AddElement
<1>3. {x} \cup {y} \in SUBSET S OBVIOUS
<1>4. Cardinality({x} \cup {y}) <= Cardinality(S) BY <1>3, FS_Subset
<1>5. Cardinality(S) \in Nat BY FS_CardinalityType
<1> QED BY <1>2, <1>4, <1>5

LEMMA FilesAreTyped ==
  ASSUME NEW d, NEW fs \in Seq(FileOf(d))
  PROVE  /\ IsFiniteSet(DOMAIN fs) /\ DOMAIN fs = 1..Len(fs) /\ Len(fs) \in Nat
         /\ \A i \in DOMAIN fs :
                /\ fs[i] \in FileOf(d) /\ fs[i].score \in [d -> Scores \cup {Missing}]
                /\ fs[i].model \in Models /\ fs[i].dataset \in Datasets
                /\ fs[i].mode \in {"mask", "off"} /\ fs[i].manifest \in BOOLEAN
                /\ fs[i].manifest => Run(fs[i]) \in Runs
<1>1. Len(fs) \in Nat /\ DOMAIN fs = 1..Len(fs) BY LenProperties
<1>2. \A i \in 1..Len(fs) : fs[i] \in FileOf(d) BY ElementOfSeq
<1>3. IsFiniteSet(1..Len(fs)) BY <1>1, FS_Interval
<1>4. \A f \in FileOf(d) :
          /\ f.score \in [d -> Scores \cup {Missing}]
          /\ f.model \in Models /\ f.dataset \in Datasets
          /\ f.mode \in {"mask", "off"} /\ f.manifest \in BOOLEAN
          /\ f.manifest => Run(f) \in Runs
  BY DEF FileOf, Run, Runs
<1> QED BY <1>1, <1>2, <1>3, <1>4

LEMMA ImageIsFinite ==
  ASSUME NEW S, IsFiniteSet(S), NEW f, DOMAIN f = S, f = [x \in S |-> f[x]],
         NEW T, \A t \in T : \E x \in S : t = f[x]
  PROVE  IsFiniteSet(T)
<1> DEFINE U == {f[x] : x \in S}
<1>1. f \in [S -> U] /\ \A t \in U : \E x \in S : f[x] = t OBVIOUS
<1>2. f \in Surjection(S, U) BY <1>1 DEF Surjection
<1>3. T \subseteq U OBVIOUS
<1> HIDE DEF U
<1>4. IsFiniteSet(U) BY <1>2, FS_Surjection
<1> QED BY <1>3, <1>4, FS_Subset

\* The files of one judge say finitely many things.
LEMMA PeersAreFinite ==
  ASSUME NEW d, NEW fs \in Seq(FileOf(d)), NEW judge
  PROVE  IsFiniteSet(OfJudge(fs, judge))
<1> DEFINE idx == {j \in DOMAIN fs : fs[j].judge = judge}
           f == [i \in idx |-> fs[i]]
<1>1. IsFiniteSet(idx) BY FilesAreTyped, FS_Subset
<1>2. \A g \in OfJudge(fs, judge) : \E i \in idx : g = f[i] BY DEF OfJudge
<1>3. DOMAIN f = idx /\ f = [i \in idx |-> f[i]] OBVIOUS
<1> HIDE DEF idx, f
<1> QED BY <1>1, <1>2, <1>3, ImageIsFinite

LEMMA ValuesAreFinite ==
  ASSUME NEW S, IsFiniteSet(S)
  PROVE  /\ IsFiniteSet({g.model : g \in S}) /\ IsFiniteSet({g.dataset : g \in S})
         /\ IsFiniteSet({Run(g) : g \in S})
<1>1. IsFiniteSet({g.model : g \in S})
  <2> DEFINE f == [g \in S |-> g.model]
             T == {g.model : g \in S}
  <2>1. \A t \in T : \E g \in S : t = f[g] OBVIOUS
  <2>2. DOMAIN f = S /\ f = [g \in S |-> f[g]] OBVIOUS
  <2> HIDE DEF f, T
  <2>3. IsFiniteSet(T) BY <2>1, <2>2, ImageIsFinite
  <2> QED BY <2>3 DEF T
<1>2. IsFiniteSet({g.dataset : g \in S})
  <2> DEFINE f == [g \in S |-> g.dataset]
             T == {g.dataset : g \in S}
  <2>1. \A t \in T : \E g \in S : t = f[g] OBVIOUS
  <2>2. DOMAIN f = S /\ f = [g \in S |-> f[g]] OBVIOUS
  <2> HIDE DEF f, T
  <2>3. IsFiniteSet(T) BY <2>1, <2>2, ImageIsFinite
  <2> QED BY <2>3 DEF T
<1>3. IsFiniteSet({Run(g) : g \in S})
  <2> DEFINE f == [g \in S |-> Run(g)]
             T == {Run(g) : g \in S}
  <2>1. \A t \in T : \E g \in S : t = f[g] OBVIOUS
  <2>2. DOMAIN f = S /\ f = [g \in S |-> f[g]] OBVIOUS
  <2> HIDE DEF f, T
  <2>3. IsFiniteSet(T) BY <2>1, <2>2, ImageIsFinite
  <2> QED BY <2>3 DEF T
<1> QED BY <1>1, <1>2, <1>3

\* A value that does not tell the files of a judge apart is the same in all.
LEMMA NotSeveral ==
  ASSUME NEW values, IsFiniteSet(values), ~Several(values),
         NEW x \in values \ {Missing}, NEW y \in values \ {Missing}
  PROVE  x = y
<1>1. IsFiniteSet(values \ {Missing}) BY FS_Difference
<1> QED BY <1>1, AtMostOne DEF Several

LEMMA SeriesAreOfOneRun ==
  ASSUME NEW d, NEW fs \in Seq(FileOf(d)), NEW i \in DOMAIN fs,
         NEW j \in DOMAIN fs, Series(fs, fs[i]) = Series(fs, fs[j])
  PROVE  /\ fs[i].judge = fs[j].judge
         /\ fs[i].model = fs[j].model
         /\ fs[i].dataset = fs[j].dataset
         /\ fs[i].manifest /\ fs[j].manifest => Run(fs[i]) = Run(fs[j])
<1> DEFINE peers == OfJudge(fs, fs[i].judge)
           ms == {g.model : g \in peers}
           ds == {g.dataset : g \in peers}
           rs == {Run(g) : g \in peers}
<1>1. fs[i].judge = fs[j].judge BY DEF Series
<1>2. fs[i] \in peers /\ fs[j] \in peers BY <1>1 DEF OfJudge
<1>3. IsFiniteSet(peers) BY PeersAreFinite
<1>4. \A f \in {fs[i], fs[j]} :
          /\ Series(fs, f).model = IF Several(ms) THEN f.model ELSE Missing
          /\ Series(fs, f).dataset = IF Several(ds) THEN f.dataset ELSE Missing
          /\ Series(fs, f).run = IF Several(rs) THEN Run(f) ELSE Missing
  BY <1>1 DEF Series
<1>5. /\ fs[i].model \in ms /\ fs[j].model \in ms
      /\ fs[i].dataset \in ds /\ fs[j].dataset \in ds
      /\ Run(fs[i]) \in rs /\ Run(fs[j]) \in rs
  BY <1>2
<1>6. IsFiniteSet(ms) /\ IsFiniteSet(ds) /\ IsFiniteSet(rs)
  BY <1>3, ValuesAreFinite
<1> HIDE DEF peers, ms, ds, rs
<1>7. fs[i].model = fs[j].model
  <2>1. CASE Several(ms) BY <1>4, <2>1
  <2>2. CASE ~Several(ms)
    <3>1. fs[i].model # Missing /\ fs[j].model # Missing
      BY FilesAreTyped, AnalysisAssumption
    <3> QED BY <1>5, <1>6, <2>2, <3>1, NotSeveral
  <2> QED BY <2>1, <2>2
<1>8. fs[i].dataset = fs[j].dataset
  <2>1. CASE Several(ds) BY <1>4, <2>1
  <2>2. CASE ~Several(ds)
    <3>1. fs[i].dataset # Missing /\ fs[j].dataset # Missing
      BY FilesAreTyped, AnalysisAssumption
    <3> QED BY <1>5, <1>6, <2>2, <3>1, NotSeveral
  <2> QED BY <2>1, <2>2
<1>9. ASSUME fs[i].manifest, fs[j].manifest PROVE Run(fs[i]) = Run(fs[j])
  <2>1. CASE Several(rs) BY <1>4, <2>1
  <2>2. CASE ~Several(rs)
    <3>1. Run(fs[i]) \in Runs /\ Run(fs[j]) \in Runs BY <1>9, FilesAreTyped
    <3>2. Run(fs[i]) # Missing /\ Run(fs[j]) # Missing
      BY <3>1, AnalysisAssumption
    <3> QED BY <1>5, <1>6, <2>2, <3>2, NotSeveral
  <2> QED BY <2>1, <2>2
<1> QED BY <1>1, <1>7, <1>8, <1>9

\* The two sides of a masking ablation.
LEMMA PairsAreAlike ==
  ASSUME NEW d, NEW fs \in Seq(FileOf(d)), NEW pair \in Pairable(fs),
         NEW i \in FilesOf(fs, pair[1]), NEW j \in FilesOf(fs, pair[2])
  PROVE  /\ fs[i].judge = fs[j].judge
         /\ fs[i].model = fs[j].model
         /\ fs[i].dataset = fs[j].dataset
         /\ fs[i].manifest => fs[i].mode = "mask"
         /\ fs[j].manifest => fs[j].mode = "off"
<1>1. /\ Modes(fs, pair[1]) = {"mask"} /\ Modes(fs, pair[2]) = {"off"}
      /\ Key(fs, pair[1]) = Key(fs, pair[2])
  BY DEF Pairable
<1>2. /\ i \in DOMAIN fs /\ Series(fs, fs[i]) = pair[1]
      /\ j \in DOMAIN fs /\ Series(fs, fs[j]) = pair[2]
  BY DEF FilesOf
<1>3. fs[i].judge = fs[j].judge
  <2>1. pair[1].judge = fs[i].judge /\ pair[2].judge = fs[j].judge
    BY <1>2 DEF Series
  <2>2. pair[1].judge = pair[2].judge BY <1>1 DEF Key
  <2> QED BY <2>1, <2>2
<1>4. \A n \in FilesOf(fs, pair[2]) :
          fs[n].model = fs[j].model /\ fs[n].dataset = fs[j].dataset
  BY <1>2, SeriesAreOfOneRun DEF FilesOf
<1>5. {fs[n].model : n \in FilesOf(fs, pair[1])}
          = {fs[n].model : n \in FilesOf(fs, pair[2])}
      /\ {fs[n].dataset : n \in FilesOf(fs, pair[1])}
          = {fs[n].dataset : n \in FilesOf(fs, pair[2])}
  BY <1>1 DEF Key
<1>6. fs[i].model = fs[j].model /\ fs[i].dataset = fs[j].dataset
  <2>1. PICK n \in FilesOf(fs, pair[2]) : fs[i].model = fs[n].model BY <1>5
  <2>2. PICK m \in FilesOf(fs, pair[2]) : fs[i].dataset = fs[m].dataset BY <1>5
  <2> QED BY <1>4, <2>1, <2>2
<1>7. ASSUME NEW s, NEW n \in FilesOf(fs, s), fs[n].manifest
      PROVE  fs[n].mode \in Modes(fs, s)
  <2>1. PrivacyMode(fs[n]) = fs[n].mode /\ fs[n].mode # Missing
    BY <1>7, FilesAreTyped, AnalysisAssumption DEF PrivacyMode, FilesOf
  <2> QED BY <1>7, <2>1 DEF Modes
<1>8. fs[i].manifest => fs[i].mode = "mask" BY <1>1, <1>7
<1>9. fs[j].manifest => fs[j].mode = "off" BY <1>1, <1>7
<1> QED BY <1>3, <1>6, <1>8, <1>9

\* Rows are grouped and paired with their like (assign_series,
\* analyze_privacy_ablation), whatever files the analysis is given.
THEOREM LikeWithLike == Spec => []ComparedLikeWithLike
<1>1. IInv => ComparedLikeWithLike
  <2> SUFFICES ASSUME IInv PROVE ComparedLikeWithLike OBVIOUS
  <2>1. files \in Seq(FileOf(drawn)) BY DEF IInv, FilesAreOfTheDraw
  <2>2. ablations \subseteq Pairable(files)
    BY DEF IInv, Unreported, Reported, Ablations
  <2> QED
    BY <2>1, <2>2, SeriesAreOfOneRun, PairsAreAlike DEF ComparedLikeWithLike
<1> QED BY <1>1, Inductive, PTL

------------------------------------------------------------------------------
(***************************************************************************)
(* Agreement.                                                              *)
(***************************************************************************)

\* A finite, non-empty set of numbers up to n has a largest one.
LEMMA LargestOf ==
  ASSUME NEW n \in Nat, NEW S \in SUBSET (1..n), S # {}
  PROVE  Max(S) \in S
<1> DEFINE R == {n - x : x \in S}
<1>1. R \in SUBSET Nat /\ R # {}
  <2>1. \A x \in S : x \in 1..n OBVIOUS
  <2>2. \A x \in 1..n : n - x \in Nat OBVIOUS
  <2> QED BY <2>1, <2>2
<1>2. PICK m \in R : \A k \in R : ~(<<k, m>> \in OpToRel(<, Nat))
  BY <1>1, NatLessThanWellFounded, WFMin
<1>3. \A k \in R : ~(k < m) BY <1>1, <1>2 DEF OpToRel
<1>4. PICK x \in S : m = n - x OBVIOUS
<1>5. \A y \in S : x >= y
  <2> TAKE y \in S
  <2>1. n - y \in R OBVIOUS
  <2>2. ~(n - y < n - x) BY <1>3, <1>4, <2>1
  <2> QED BY <2>2
<1> QED BY <1>5 DEF Max

LEMMA RowsOfSeries ==
  ASSUME NEW d, NEW fs \in Seq(FileOf(d)), NEW s
  PROVE  /\ \A row \in RowsOf(fs, s) :
                /\ row = <<row[1], row[2]>>
                /\ row[1] \in FilesOf(fs, s) /\ row[2] \in d
         /\ \A i \in FilesOf(fs, s), p \in d : <<i, p>> \in RowsOf(fs, s)
         /\ FilesOf(fs, s) \subseteq DOMAIN fs
<1>1. FilesOf(fs, s) \subseteq DOMAIN fs BY DEF FilesOf
<1>2. \A i \in FilesOf(fs, s) : DOMAIN fs[i].score = d BY <1>1, FilesAreTyped
<1>3. ASSUME NEW row \in RowsOf(fs, s)
      PROVE  \E i \in FilesOf(fs, s) : row \in {i} \X d
  BY <1>2 DEF RowsOf
<1>4. ASSUME NEW i \in FilesOf(fs, s), NEW p \in d
      PROVE  <<i, p>> \in RowsOf(fs, s)
  <2>1. <<i, p>> \in {i} \X (DOMAIN fs[i].score) BY <1>2
  <2> QED BY <2>1 DEF RowsOf
<1> QED BY <1>1, <1>3, <1>4

\* What a series says of a sample of one dataset: the score of one of its rows.
LEMMA OneScorePerSample ==
  ASSUME NEW d, NEW fs \in Seq(FileOf(d)), NEW s
  PROVE  /\ \A k \in DOMAIN ScoredBySample(fs, s) :
                \E i \in FilesOf(fs, s) :
                    /\ k[2] \in d /\ k = SampleKey(fs[i], k[2])
                    /\ fs[i].score[k[2]] # Missing
                    /\ ScoredBySample(fs, s)[k] = fs[i].score[k[2]]
         /\ \A i \in FilesOf(fs, s), p \in d :
                fs[i].score[p] # Missing =>
                    SampleKey(fs[i], p) \in DOMAIN ScoredBySample(fs, s)
<1> DEFINE key(row) == SampleKey(fs[row[1]], row[2])
           keys == {key(row) : row \in Scored(fs, s)}
           from(k) == {row[1] : row \in {r \in Scored(fs, s) : key(r) = k}}
<1>1. DOMAIN ScoredBySample(fs, s) = keys BY DEF ScoredBySample
<1>2. \A k \in keys : ScoredBySample(fs, s)[k] = fs[Max(from(k))].score[k[2]]
  BY DEF ScoredBySample
<1>3. \A row \in Scored(fs, s) :
          /\ row[1] \in FilesOf(fs, s) /\ row[2] \in d
          /\ fs[row[1]].score[row[2]] # Missing
  BY RowsOfSeries DEF Scored, Score
<1>4. ASSUME NEW k \in keys
      PROVE  \E row \in Scored(fs, s) : key(row) = k /\ row[1] = Max(from(k))
  <2>1. from(k) # {} OBVIOUS
  <2>2. from(k) \subseteq 1..Len(fs)
    BY <1>3, FilesAreTyped, RowsOfSeries
  <2> HIDE DEF keys
  <2>3. Max(from(k)) \in from(k) BY <2>1, <2>2, LargestOf, FilesAreTyped
  <2> QED BY <2>3
<1>5. ASSUME NEW k \in keys
      PROVE  \E i \in FilesOf(fs, s) :
                 /\ k[2] \in d /\ k = SampleKey(fs[i], k[2])
                 /\ fs[i].score[k[2]] # Missing
                 /\ ScoredBySample(fs, s)[k] = fs[i].score[k[2]]
  <2>1. PICK row \in Scored(fs, s) : key(row) = k /\ row[1] = Max(from(k))
    BY <1>4
  <2>2. k[2] = row[2] BY <2>1 DEF SampleKey
  <2> QED BY <1>2, <1>3, <2>1, <2>2
<1>6. ASSUME NEW i \in FilesOf(fs, s), NEW p \in d, fs[i].score[p] # Missing
      PROVE  SampleKey(fs[i], p) \in keys
  <2>1. <<i, p>> \in Scored(fs, s) BY <1>6, RowsOfSeries DEF Scored, Score
  <2>2. key(<<i, p>>) = SampleKey(fs[i], p) OBVIOUS
  <2> QED BY <2>1, <2>2
<1> HIDE DEF keys
<1> QED BY <1>1, <1>5, <1>6

\* Whether a score is below the threshold is a yes or a no.
LEMMA CallsAreBoolean == \A x, y : (x < y) \in BOOLEAN
  OBVIOUS

\* The samples two series are compared on, and those they differ on.
Shared(fs, a, b) == DOMAIN ScoredBySample(fs, a) \cap DOMAIN ScoredBySample(fs, b)
Differ(fs, rs, a, b, k) ==
    (ScoredBySample(fs, a)[k] < rs[a].best) # (ScoredBySample(fs, b)[k] < rs[b].best)

LEMMA AgreementsAreOfPairs ==
  ASSUME NEW fs, NEW rs, NEW g \in Agreements(fs, rs)
  PROVE  \E a, b \in DOMAIN rs :
             /\ a # b /\ g.judges = {a, b} /\ g.shared = Shared(fs, a, b)
             /\ \A k \in g.differ : k \in g.shared /\ Differ(fs, rs, a, b, k)
<1> DEFINE calls(s, shared) ==
               [k \in shared |-> ScoredBySample(fs, s)[k] < rs[s].best]
           comparable(a, b) == rs[a].best # Missing /\ rs[b].best # Missing
           shared(a, b) ==
               DOMAIN ScoredBySample(fs, a) \cap DOMAIN ScoredBySample(fs, b)
           agreement(a, b) ==
               [judges |-> {a, b}, shared |-> shared(a, b),
                differ |-> IF comparable(a, b)
                           THEN {k \in shared(a, b) :
                                    calls(a, shared(a, b))[k] # calls(b, shared(a, b))[k]}
                           ELSE {},
                kappa |-> comparable(a, b) /\ \E s \in {a, b} :
                              Cardinality(Range(calls(s, shared(a, b)))) > 1]
<1>1. \E p \in (DOMAIN rs) \X (DOMAIN rs) : p[1] # p[2] /\ g = agreement(p[1], p[2])
  BY DEF Agreements
<1>2. PICK a \in DOMAIN rs, b \in DOMAIN rs : a # b /\ g = agreement(a, b)
  BY <1>1
<1>3. g.judges = {a, b} /\ g.shared = Shared(fs, a, b)
  BY <1>2 DEF Shared
<1>4. ASSUME NEW k \in g.differ PROVE k \in g.shared /\ Differ(fs, rs, a, b, k)
  <2>1. k \in {n \in shared(a, b) :
                  calls(a, shared(a, b))[n] # calls(b, shared(a, b))[n]}
    BY <1>2, <1>4
  <2> QED BY <1>3, <2>1 DEF Shared, Differ
<1> QED BY <1>2, <1>3, <1>4

\* A sample in the agreement was scored in a row of either side.
LEMMA SharedIsScored ==
  ASSUME NEW d, NEW fs \in Seq(FileOf(d)), NEW a, NEW b, NEW k \in Shared(fs, a, b)
  PROVE  \E i \in FilesOf(fs, a), j \in FilesOf(fs, b) :
             /\ k = SampleKey(fs[i], k[2]) /\ fs[i].dataset = fs[j].dataset
             /\ fs[i].score[k[2]] # Missing /\ fs[j].score[k[2]] # Missing
             /\ ScoredBySample(fs, a)[k] = fs[i].score[k[2]]
             /\ ScoredBySample(fs, b)[k] = fs[j].score[k[2]]
<1>1. PICK i \in FilesOf(fs, a) :
          /\ k = SampleKey(fs[i], k[2]) /\ fs[i].score[k[2]] # Missing
          /\ ScoredBySample(fs, a)[k] = fs[i].score[k[2]]
  BY OneScorePerSample DEF Shared
<1>2. PICK j \in FilesOf(fs, b) :
          /\ k = SampleKey(fs[j], k[2]) /\ fs[j].score[k[2]] # Missing
          /\ ScoredBySample(fs, b)[k] = fs[j].score[k[2]]
  BY OneScorePerSample DEF Shared
<1>3. fs[i].dataset = fs[j].dataset BY <1>1, <1>2 DEF SampleKey
<1> QED BY <1>1, <1>2, <1>3

\* A sample that both sides scored is in the agreement.
LEMMA ScoredIsShared ==
  ASSUME NEW d, NEW fs \in Seq(FileOf(d)), NEW a, NEW b,
         NEW i \in FilesOf(fs, a), NEW j \in FilesOf(fs, b), NEW p \in d,
         fs[i].dataset = fs[j].dataset,
         Missing \notin {fs[i].score[p], fs[j].score[p]}
  PROVE  SampleKey(fs[i], p) \in Shared(fs, a, b)
<1>1. SampleKey(fs[i], p) = SampleKey(fs[j], p) BY DEF SampleKey
<1>2. SampleKey(fs[i], p) \in DOMAIN ScoredBySample(fs, a)
  BY OneScorePerSample
<1>3. SampleKey(fs[j], p) \in DOMAIN ScoredBySample(fs, b)
  BY OneScorePerSample
<1> QED BY <1>1, <1>2, <1>3 DEF Shared

\* The calls of the files of a series on a sample.
CallsOf(fs, s, best, p) ==
    {fs[i].score[p] < best :
        i \in {n \in FilesOf(fs, s) : fs[n].score[p] # Missing}}

LEMMA TwoCalls ==
  ASSUME NEW S \in SUBSET BOOLEAN, NEW T \in SUBSET BOOLEAN,
         NEW x \in S, NEW y \in T, x # y
  PROVE  S \cup T = BOOLEAN
<1>1. x \in BOOLEAN /\ y \in BOOLEAN OBVIOUS
<1>2. CASE x = TRUE
  <2>1. y = FALSE BY <1>1, <1>2
  <2>2. TRUE \in S /\ FALSE \in T BY <1>2, <2>1
  <2> QED BY <2>2
<1>3. CASE x = FALSE
  <2>1. y = TRUE BY <1>1, <1>3
  <2>2. FALSE \in S /\ TRUE \in T BY <1>3, <2>1
  <2> QED BY <2>2
<1> QED BY <1>1, <1>2, <1>3

LEMMA CallsDiffer ==
  ASSUME NEW d, NEW fs \in Seq(FileOf(d)), NEW rs, NEW a, NEW b,
         NEW k \in Shared(fs, a, b), Differ(fs, rs, a, b, k)
  PROVE  CallsOf(fs, a, rs[a].best, k[2]) \cup CallsOf(fs, b, rs[b].best, k[2])
             = BOOLEAN
<1> DEFINE p == k[2]
           S == CallsOf(fs, a, rs[a].best, p)
           T == CallsOf(fs, b, rs[b].best, p)
<1>1. PICK i \in FilesOf(fs, a), j \in FilesOf(fs, b) :
          /\ fs[i].score[p] # Missing /\ fs[j].score[p] # Missing
          /\ ScoredBySample(fs, a)[k] = fs[i].score[p]
          /\ ScoredBySample(fs, b)[k] = fs[j].score[p]
  BY SharedIsScored
<1> DEFINE x == fs[i].score[p] < rs[a].best
           y == fs[j].score[p] < rs[b].best
<1>2. x # y BY <1>1 DEF Differ
<1>3. x \in S /\ y \in T BY <1>1 DEF CallsOf
<1>4. S \in SUBSET BOOLEAN /\ T \in SUBSET BOOLEAN
  BY CallsAreBoolean DEF CallsOf
<1> HIDE DEF x, y, S, T
<1>5. S \cup T = BOOLEAN BY <1>2, <1>3, <1>4, TwoCalls
<1> QED BY <1>5 DEF S, T

LEMMA AgreementOfPair ==
  ASSUME NEW d, NEW fs \in Seq(FileOf(d)), NEW rs, NEW g \in Agreements(fs, rs)
  PROVE  \E a, b \in g.judges :
             /\ a # b
             /\ \A k \in g.shared :
                   \E i \in FilesOf(fs, a), j \in FilesOf(fs, b) :
                       /\ fs[i].dataset = fs[j].dataset
                       /\ k \in {SampleKey(fs[i], k[2]), SampleKey(fs[j], k[2])}
                       /\ Missing \notin {fs[i].score[k[2]], fs[j].score[k[2]]}
             /\ \A i \in FilesOf(fs, a), j \in FilesOf(fs, b), p \in d :
                   (/\ fs[i].dataset = fs[j].dataset
                    /\ Missing \notin {fs[i].score[p], fs[j].score[p]})
                       => SampleKey(fs[i], p) \in g.shared
             /\ \A k \in g.differ :
                   CallsOf(fs, a, rs[a].best, k[2])
                       \cup CallsOf(fs, b, rs[b].best, k[2]) = BOOLEAN
<1>1. PICK a \in DOMAIN rs, b \in DOMAIN rs :
          /\ a # b /\ g.judges = {a, b} /\ g.shared = Shared(fs, a, b)
          /\ \A k \in g.differ : k \in g.shared /\ Differ(fs, rs, a, b, k)
  BY AgreementsAreOfPairs
<1>2. ASSUME NEW k \in g.shared
      PROVE  \E i \in FilesOf(fs, a), j \in FilesOf(fs, b) :
                 /\ fs[i].dataset = fs[j].dataset
                 /\ k \in {SampleKey(fs[i], k[2]), SampleKey(fs[j], k[2])}
                 /\ Missing \notin {fs[i].score[k[2]], fs[j].score[k[2]]}
  <2>1. k \in Shared(fs, a, b) BY <1>1
  <2>2. PICK i \in FilesOf(fs, a), j \in FilesOf(fs, b) :
            /\ k = SampleKey(fs[i], k[2]) /\ fs[i].dataset = fs[j].dataset
            /\ fs[i].score[k[2]] # Missing /\ fs[j].score[k[2]] # Missing
    BY <2>1, SharedIsScored
  <2> QED BY <2>2
<1>3. ASSUME NEW i \in FilesOf(fs, a), NEW j \in FilesOf(fs, b), NEW p \in d,
             fs[i].dataset = fs[j].dataset,
             Missing \notin {fs[i].score[p], fs[j].score[p]}
      PROVE  SampleKey(fs[i], p) \in g.shared
  BY <1>1, <1>3, ScoredIsShared
<1>4. ASSUME NEW k \in g.differ
      PROVE  CallsOf(fs, a, rs[a].best, k[2])
                 \cup CallsOf(fs, b, rs[b].best, k[2]) = BOOLEAN
  <2>1. k \in Shared(fs, a, b) /\ Differ(fs, rs, a, b, k) BY <1>1
  <2> QED BY <2>1, CallsDiffer
<1> QED BY <1>1, <1>2, <1>3, <1>4

\* Two series are compared on exactly the samples both have scored, dataset by
\* dataset, and differ only where their own rows do (analyze_agreement,
\* _scored_by_sample).
THEOREM AgreementPaired == Spec => []AgreementIsPaired
<1>1. IInv => AgreementIsPaired
  <2> SUFFICES ASSUME IInv PROVE AgreementIsPaired OBVIOUS
  <2>1. files \in Seq(FileOf(drawn)) BY DEF IInv, FilesAreOfTheDraw
  <2>2. agreements \subseteq Agreements(files, reports)
    BY DEF IInv, Unreported, Reported
  <2> QED BY <2>1, <2>2, AgreementOfPair DEF AgreementIsPaired, CallsOf
<1> QED BY <1>1, Inductive, PTL

------------------------------------------------------------------------------
(***************************************************************************)
(* Error rates.                                                            *)
(***************************************************************************)

\* Without a labelled, scored row there is no threshold.
LEMMA ThresholdNeedsScores ==
  ASSUME NEW fs, NEW s, DecisionThreshold(AnalyzeJudge(fs, s)) # Missing
  PROVE  \E row \in RowsOf(fs, s) : Score(fs, row) # Missing
<1> DEFINE rows == LabeledScored(fs, RowsOf(fs, s))
<1>1. rows # {}
  <2> SUFFICES ASSUME rows = {} PROVE FALSE OBVIOUS
  <2>1. Half(fs, rows, 0) = {} BY DEF Half
  <2>2. ~BothClasses(Half(fs, rows, 0)) BY <2>1 DEF BothClasses
  <2>3. Holdout(fs, rows) = Missing BY <2>2 DEF Holdout
  <2>4. AnalyzeJudge(fs, s) = [best |-> Missing, holdout |-> Missing]
    BY <2>3 DEF AnalyzeJudge
  <2> QED BY <2>4 DEF DecisionThreshold
<1> QED BY <1>1 DEF LabeledScored

LEMMA ErrorsAreCounted ==
  ASSUME NEW fs, NEW rs, rs = [s \in AllSeries(fs) |-> AnalyzeJudge(fs, s)]
  PROVE  CollectErrors(fs, rs) \subseteq Counted(fs)
<1> SUFFICES ASSUME NEW row \in CollectErrors(fs, rs) PROVE row \in Counted(fs)
  OBVIOUS
<1>1. PICK s \in AllSeries(fs) :
          /\ row \in RowsOf(fs, s) /\ fs[row[1]].labelled
          /\ DecisionThreshold(rs[s]) # Missing
  BY DEF CollectErrors
<1>2. DecisionThreshold(AnalyzeJudge(fs, s)) # Missing BY <1>1
<1>3. PICK r \in RowsOf(fs, s) : Score(fs, r) # Missing
  BY <1>2, ThresholdNeedsScores
<1> DEFINE rows == UNION {RowsOf(fs, q) : q \in AllSeries(fs)}
<1>4. row \in rows /\ r \in rows BY <1>1, <1>3
<1>5. row \in {n \in rows : /\ fs[n[1]].labelled
                            /\ \E m \in rows : Score(fs, m) # Missing}
  BY <1>1, <1>3, <1>4
<1> QED BY <1>5 DEF Counted

LEMMA RowsAreFinite ==
  ASSUME NEW d, IsFiniteSet(d), NEW fs \in Seq(FileOf(d)), NEW S,
         \A row \in S : \E s : row \in RowsOf(fs, s)
  PROVE  IsFiniteSet(S)
<1>1. IsFiniteSet((DOMAIN fs) \X d) BY FilesAreTyped, FS_Product
<1>2. ASSUME NEW row \in S PROVE row \in (DOMAIN fs) \X d
  <2>1. PICK s : row \in RowsOf(fs, s) OBVIOUS
  <2> QED BY <2>1, RowsOfSeries
<1> QED BY <1>1, <1>2, FS_Subset

LEMMA DrawIsFinite == IInv => IsFiniteSet(drawn)
<1> SUFFICES ASSUME IInv PROVE IsFiniteSet(drawn) OBVIOUS
<1>1. population \in Seq(Sample)
  BY AnalysisAssumption DEF IInv, FilesAreOfTheDraw
<1>2. DOMAIN population = 1..Len(population) /\ Len(population) \in Nat
  BY <1>1, LenProperties
<1>3. IsFiniteSet(1..Len(population)) BY <1>2, FS_Interval
<1>4. drawn \subseteq 1..Len(population)
  BY <1>2 DEF IInv, FilesAreOfTheDraw
<1> QED BY <1>3, <1>4, FS_Subset

\* An error rate never exceeds one, in any bucket and for any number of judges
\* (bucket_totals, collect_errors).
THEOREM ErrorRates == Spec => []ErrorRatesAreShares
<1>1. IInv => ErrorRatesAreShares
  <2> SUFFICES ASSUME IInv, NEW b \in Structure \cup {"plain"}
               PROVE  Cardinality({row \in cases : b \in Buckets(row)})
                          <= BucketTotals(files)[b]
    BY DEF ErrorRatesAreShares
  <2> DEFINE counted == {row \in Counted(files) : b \in Buckets(row)}
             errors == {row \in cases : b \in Buckets(row)}
  <2>1. files \in Seq(FileOf(drawn)) BY DEF IInv, FilesAreOfTheDraw
  <2>2. cases \subseteq Counted(files)
    BY ErrorsAreCounted DEF IInv, Unreported, Reported
  <2>3. \A row \in Counted(files) : \E s : row \in RowsOf(files, s)
    BY DEF Counted
  <2>4. IsFiniteSet(Counted(files))
    BY <2>1, <2>3, DrawIsFinite, RowsAreFinite
  <2>5. IsFiniteSet(counted) BY <2>4, FS_Subset
  <2>6. errors \subseteq counted BY <2>2
  <2>7. BucketTotals(files)[b] = Cardinality(counted) BY DEF BucketTotals
  <2> HIDE DEF counted, errors
  <2>8. Cardinality(errors) <= Cardinality(counted)
    BY <2>5, <2>6, FS_Subset
  <2> QED BY <2>7, <2>8 DEF errors
<1> QED BY <1>1, Inductive, PTL

------------------------------------------------------------------------------
(***************************************************************************)
(* The held-out half.                                                      *)
(***************************************************************************)

\* Rows files that differ in scores only.
SameButScores(gs, fs) ==
    /\ DOMAIN gs = DOMAIN fs
    /\ \A i \in DOMAIN fs :
          /\ gs[i].judge = fs[i].judge /\ gs[i].model = fs[i].model
          /\ gs[i].dataset = fs[i].dataset /\ Run(gs[i]) = Run(fs[i])
          /\ gs[i].labelled = fs[i].labelled
          /\ DOMAIN gs[i].score = DOMAIN fs[i].score

WithScore(fs, n, q, score) == [fs EXCEPT ![n].score[q] = score]

LEMMA OtherScore ==
  ASSUME NEW d, NEW fs \in Seq(FileOf(d)), NEW n \in DOMAIN fs, NEW q \in d,
         NEW score
  PROVE  /\ SameButScores(WithScore(fs, n, q, score), fs)
         /\ \A i \in DOMAIN fs, p \in d :
                WithScore(fs, n, q, score)[i].score[p] =
                    IF i = n /\ p = q THEN score ELSE fs[i].score[p]
<1> DEFINE gs == [fs EXCEPT ![n].score[q] = score]
<1>1. DOMAIN gs = DOMAIN fs OBVIOUS
<1>2. \A i \in DOMAIN fs : fs[i] \in FileOf(d) BY FilesAreTyped
<1>3. ASSUME NEW i \in DOMAIN fs
      PROVE  /\ gs[i].judge = fs[i].judge /\ gs[i].model = fs[i].model
             /\ gs[i].dataset = fs[i].dataset /\ Run(gs[i]) = Run(fs[i])
             /\ gs[i].labelled = fs[i].labelled
             /\ DOMAIN gs[i].score = DOMAIN fs[i].score
             /\ \A p \in d : gs[i].score[p] =
                    IF i = n /\ p = q THEN score ELSE fs[i].score[p]
  <2>1. gs[i] = IF i = n THEN [fs[i] EXCEPT !.score[q] = score] ELSE fs[i]
    OBVIOUS
  <2>2. fs[i] \in FileOf(d) BY <1>2
  <2>3. CASE i = n
    <3>1. gs[i] = [fs[i] EXCEPT !.score = [fs[i].score EXCEPT ![q] = score]]
      BY <2>1, <2>3
    <3> QED BY <2>2, <2>3, <3>1 DEF FileOf, Run
  <2>4. CASE i # n BY <2>1, <2>4
  <2> QED BY <2>3, <2>4
<1> QED BY <1>1, <1>3 DEF SameButScores, WithScore

ModelsOf(fs, j) == {g.model : g \in OfJudge(fs, j)}
DatasetsOf(fs, j) == {g.dataset : g \in OfJudge(fs, j)}
RunsOf(fs, j) == {Run(g) : g \in OfJudge(fs, j)}

LEMMA SameValues ==
  ASSUME NEW gs, NEW fs, SameButScores(gs, fs), NEW j
  PROVE  /\ ModelsOf(gs, j) = ModelsOf(fs, j)
         /\ DatasetsOf(gs, j) = DatasetsOf(fs, j)
         /\ RunsOf(gs, j) = RunsOf(fs, j)
<1> DEFINE idx == {i \in DOMAIN fs : fs[i].judge = j}
<1>1. idx = {i \in DOMAIN gs : gs[i].judge = j} BY DEF SameButScores
<1>2. ASSUME NEW g \in OfJudge(gs, j)
      PROVE  \E f \in OfJudge(fs, j) :
                 g.model = f.model /\ g.dataset = f.dataset /\ Run(g) = Run(f)
  <2>1. PICK i \in idx : g = gs[i] BY <1>1 DEF OfJudge
  <2>2. fs[i] \in OfJudge(fs, j) BY DEF OfJudge
  <2>3. g.model = fs[i].model /\ g.dataset = fs[i].dataset /\ Run(g) = Run(fs[i])
    BY <2>1 DEF SameButScores
  <2> QED BY <2>2, <2>3
<1>3. ASSUME NEW f \in OfJudge(fs, j)
      PROVE  \E g \in OfJudge(gs, j) :
                 g.model = f.model /\ g.dataset = f.dataset /\ Run(g) = Run(f)
  <2>1. PICK i \in idx : f = fs[i] BY DEF OfJudge
  <2>2. gs[i] \in OfJudge(gs, j) BY <1>1 DEF OfJudge
  <2>3. gs[i].model = f.model /\ gs[i].dataset = f.dataset /\ Run(gs[i]) = Run(f)
    BY <2>1 DEF SameButScores
  <2> QED BY <2>2, <2>3
<1>4. ModelsOf(gs, j) = ModelsOf(fs, j)
  BY <1>2, <1>3 DEF ModelsOf
<1>5. DatasetsOf(gs, j) = DatasetsOf(fs, j)
  BY <1>2, <1>3 DEF DatasetsOf
<1>6. RunsOf(gs, j) = RunsOf(fs, j)
  BY <1>2, <1>3 DEF RunsOf
<1> QED BY <1>4, <1>5, <1>6

\* Series do not depend on scores.
LEMMA SameRows ==
  ASSUME NEW gs, NEW fs, SameButScores(gs, fs), NEW s
  PROVE  RowsOf(gs, s) = RowsOf(fs, s)
<1>1. ASSUME NEW i \in DOMAIN fs PROVE Series(gs, gs[i]) = Series(fs, fs[i])
  <2>1. /\ gs[i].judge = fs[i].judge /\ gs[i].model = fs[i].model
        /\ gs[i].dataset = fs[i].dataset /\ Run(gs[i]) = Run(fs[i])
    BY DEF SameButScores
  <2> DEFINE j == fs[i].judge
  <2>2. ModelsOf(gs, j) = ModelsOf(fs, j)
    BY SameValues
  <2>3. DatasetsOf(gs, j) = DatasetsOf(fs, j)
    BY SameValues
  <2>4. RunsOf(gs, j) = RunsOf(fs, j)
    BY SameValues
  <2> QED BY <2>1, <2>2, <2>3, <2>4 DEF Series, ModelsOf, DatasetsOf, RunsOf
<1>2. FilesOf(gs, s) = FilesOf(fs, s) BY <1>1 DEF FilesOf, SameButScores
<1>3. \A i \in FilesOf(fs, s) :
          {i} \X (DOMAIN gs[i].score) = {i} \X (DOMAIN fs[i].score)
  BY DEF FilesOf, SameButScores
<1> QED BY <1>2, <1>3 DEF RowsOf

\* The chosen threshold is a function of the counts on the rows it is chosen on.
LEMMA SameCountsSameThreshold ==
  ASSUME NEW fs, NEW gs, NEW rows,
         \A row \in rows : Score(gs, row) = Score(fs, row)
  PROVE  BestThreshold(gs, rows) = BestThreshold(fs, rows)
<1>1. \A t : Metrics(gs, rows, t) = Metrics(fs, rows, t)
  <2> SUFFICES ASSUME NEW t PROVE Metrics(gs, rows, t) = Metrics(fs, rows, t)
    OBVIOUS
  <2> DEFINE of(hs, predicted, gold) ==
                 {row \in rows : /\ (Score(hs, row) < t) = predicted
                                 /\ Gold(row) = gold}
  <2>1. \A predicted, gold : of(gs, predicted, gold) = of(fs, predicted, gold)
    OBVIOUS
  <2>2. \A hs : Metrics(hs, rows, t) =
          [tp |-> Cardinality(of(hs, TRUE, TRUE)), fp |-> Cardinality(of(hs, TRUE, FALSE)),
           fn |-> Cardinality(of(hs, FALSE, TRUE)), tn |-> Cardinality(of(hs, FALSE, FALSE))]
    BY DEF Metrics
  <2> HIDE DEF of
  <2> QED BY <2>1, <2>2
<1> QED BY <1>1 DEF BestThreshold

\* Another score in the reporting half, and the same threshold.
LEMMA ThresholdIsBlind ==
  ASSUME IInv, NEW s, NEW score \in Scores,
         Holdout(files, LabeledScored(files, RowsOf(files, s))) # Missing,
         NEW row \in Half(files, LabeledScored(files, RowsOf(files, s)), 1)
  PROVE  AnalyzeJudge(Rescored(row, score), s).holdout.threshold
             = AnalyzeJudge(files, s).holdout.threshold
<1> DEFINE gs == Rescored(row, score)
           all == RowsOf(files, s)
           rows == LabeledScored(files, all)
           fit == Half(files, rows, 0)
           test == Half(files, rows, 1)
<1>1. files \in Seq(FileOf(drawn)) BY DEF IInv, FilesAreOfTheDraw
<1>2. /\ row \in all /\ Score(files, row) # Missing /\ files[row[1]].labelled
      /\ fold[<<files[row[1]].dataset, row[2]>>] = 1
  BY DEF Half, LabeledScored
<1>3. \A r \in all : r = <<r[1], r[2]>> /\ r[1] \in DOMAIN files /\ r[2] \in drawn
  BY <1>1, RowsOfSeries
<1>4. gs = WithScore(files, row[1], row[2], score) BY DEF Rescored, WithScore
<1>5. row[1] \in DOMAIN files /\ row[2] \in drawn BY <1>2, <1>3
<1> HIDE DEF gs
<1>6. SameButScores(gs, files) BY <1>1, <1>4, <1>5, OtherScore
<1>7. \A i \in DOMAIN files, p \in drawn : gs[i].score[p] =
          IF i = row[1] /\ p = row[2] THEN score ELSE files[i].score[p]
  BY <1>1, <1>4, <1>5, OtherScore
<1>8. RowsOf(gs, s) = all BY <1>6, SameRows
<1>9. \A r \in all :
          /\ gs[r[1]].dataset = files[r[1]].dataset
          /\ gs[r[1]].labelled = files[r[1]].labelled
          /\ Score(gs, r) = IF r[1] = row[1] /\ r[2] = row[2]
                            THEN score ELSE Score(files, r)
  <2> SUFFICES ASSUME NEW r \in all
               PROVE  /\ gs[r[1]].dataset = files[r[1]].dataset
                      /\ gs[r[1]].labelled = files[r[1]].labelled
                      /\ Score(gs, r) = IF r[1] = row[1] /\ r[2] = row[2]
                                        THEN score ELSE Score(files, r)
    OBVIOUS
  <2>1. r[1] \in DOMAIN files /\ r[2] \in drawn BY <1>3
  <2>2. gs[r[1]].dataset = files[r[1]].dataset
        /\ gs[r[1]].labelled = files[r[1]].labelled
    BY <1>6, <2>1 DEF SameButScores
  <2>3. gs[r[1]].score[r[2]] = IF r[1] = row[1] /\ r[2] = row[2]
                               THEN score ELSE files[r[1]].score[r[2]]
    BY <1>7, <2>1
  <2> QED BY <2>2, <2>3 DEF Score
<1>10. score # Missing BY AnalysisAssumption
<1>11. LabeledScored(gs, all) = rows
  <2>1. \A r \in all : Score(gs, r) # Missing <=> Score(files, r) # Missing
    BY <1>2, <1>9, <1>10 DEF Score
  <2> QED BY <1>9, <2>1 DEF LabeledScored
<1>12. rows \subseteq all BY DEF LabeledScored
<1>13. \A n : Half(gs, rows, n) = Half(files, rows, n)
  BY <1>9, <1>12 DEF Half
<1>14. ASSUME NEW r \in fit PROVE Score(gs, r) = Score(files, r)
  <2>1. r \in all /\ fold[<<files[r[1]].dataset, r[2]>>] = 0
    BY <1>12 DEF Half
  <2>2. ~(r[1] = row[1] /\ r[2] = row[2]) BY <1>2, <2>1
  <2> QED BY <1>9, <2>1, <2>2
<1>15. BestThreshold(gs, fit) = BestThreshold(files, fit)
  BY <1>14, SameCountsSameThreshold
<1>16. BothClasses(fit) /\ BothClasses(test) BY DEF Holdout
<1>17. Holdout(gs, rows).threshold = Holdout(files, rows).threshold
  BY <1>13, <1>15, <1>16 DEF Holdout
<1>18. AnalyzeJudge(gs, s).holdout = Holdout(gs, rows)
  BY <1>8, <1>11 DEF AnalyzeJudge
<1>19. AnalyzeJudge(files, s).holdout = Holdout(files, rows)
  BY DEF AnalyzeJudge
<1> QED BY <1>17, <1>18, <1>19 DEF gs

LEMMA Halves ==
  ASSUME NEW S, IsFiniteSet(S), NEW T \in SUBSET S
  PROVE  Cardinality(S) = Cardinality(T) + Cardinality(S \ T)
<1>1. IsFiniteSet(T) BY FS_Subset
<1>2. S \cap T = T OBVIOUS
<1>3. Cardinality(S \ T) = Cardinality(S) - Cardinality(T)
  BY <1>2, FS_Difference
<1>4. Cardinality(S) \in Nat /\ Cardinality(T) \in Nat
  BY <1>1, FS_CardinalityType
<1> QED BY <1>3, <1>4

\* The rows of a class, and those of them on one side of a threshold.
Class(rows, gold) == {row \in rows : Gold(row) = gold}
Side(fs, rows, t, predicted, gold) ==
    {row \in rows : /\ (Score(fs, row) < t) = predicted
                    /\ Gold(row) = gold}

\* Every row of a class is counted once, below the threshold or not.
LEMMA CountedOnce ==
  ASSUME NEW fs, NEW rows, IsFiniteSet(rows), NEW t, NEW gold
  PROVE  Cardinality(Class(rows, gold))
             = Cardinality(Side(fs, rows, t, TRUE, gold))
                   + Cardinality(Side(fs, rows, t, FALSE, gold))
<1>1. IsFiniteSet(Class(rows, gold)) BY FS_Subset DEF Class
<1>2. Side(fs, rows, t, TRUE, gold) \in SUBSET Class(rows, gold)
  BY DEF Class, Side
<1>3. Side(fs, rows, t, FALSE, gold)
          = Class(rows, gold) \ Side(fs, rows, t, TRUE, gold)
  <2>1. \A row : (Score(fs, row) < t) \in BOOLEAN BY CallsAreBoolean
  <2> QED BY <2>1 DEF Class, Side
<1> QED BY <1>1, <1>2, <1>3, Halves

LEMMA ClassIsCounted ==
  ASSUME NEW rows, IsFiniteSet(rows), BothClasses(rows), NEW gold \in BOOLEAN
  PROVE  Cardinality(Class(rows, gold)) > 0
<1>1. IsFiniteSet(Class(rows, gold)) BY FS_Subset DEF Class
<1>2. Class(rows, gold) # {}
  <2>1. gold \in {Gold(row) : row \in rows} BY DEF BothClasses
  <2> QED BY <2>1 DEF Class
<1>3. Cardinality(Class(rows, gold)) \in Nat BY <1>1, FS_CardinalityType
<1>4. Cardinality(Class(rows, gold)) # 0 BY <1>1, <1>2, FS_EmptySet
<1> QED BY <1>3, <1>4

\* Held-out metrics count the rows of both classes.
LEMMA MetricsAddUp ==
  ASSUME NEW fs, NEW rows, IsFiniteSet(rows), NEW t, BothClasses(rows),
         NEW m, m = Metrics(fs, rows, t)
  PROVE  /\ m.tp + m.fn = Cardinality({row \in rows : Gold(row)})
         /\ m.fp + m.tn = Cardinality({row \in rows : ~Gold(row)})
         /\ m.tp + m.fn > 0
         /\ m.fp + m.tn > 0
<1>1. /\ m.tp = Cardinality(Side(fs, rows, t, TRUE, TRUE))
      /\ m.fn = Cardinality(Side(fs, rows, t, FALSE, TRUE))
      /\ m.fp = Cardinality(Side(fs, rows, t, TRUE, FALSE))
      /\ m.tn = Cardinality(Side(fs, rows, t, FALSE, FALSE))
  BY DEF Metrics, Side
<1>2. Cardinality(Class(rows, TRUE)) = m.tp + m.fn
  <2>1. Cardinality(Class(rows, TRUE))
            = Cardinality(Side(fs, rows, t, TRUE, TRUE))
                  + Cardinality(Side(fs, rows, t, FALSE, TRUE))
    BY CountedOnce, Zenon
  <2> QED BY <1>1, <2>1
<1>3. Cardinality(Class(rows, FALSE)) = m.fp + m.tn
  <2>1. Cardinality(Class(rows, FALSE))
            = Cardinality(Side(fs, rows, t, TRUE, FALSE))
                  + Cardinality(Side(fs, rows, t, FALSE, FALSE))
    BY CountedOnce, Zenon
  <2> QED BY <1>1, <2>1
<1>4. \A row \in rows : Gold(row) \in BOOLEAN BY DEF BothClasses
<1>5. Class(rows, TRUE) = {row \in rows : Gold(row)} BY <1>4 DEF Class
<1>6. Class(rows, FALSE) = {row \in rows : ~Gold(row)} BY <1>4 DEF Class
<1>7. Cardinality(Class(rows, TRUE)) > 0 BY ClassIsCounted
<1>8. Cardinality(Class(rows, FALSE)) > 0 BY ClassIsCounted
<1>9. m.tp + m.fn > 0 BY <1>2, <1>7
<1>10. m.fp + m.tn > 0 BY <1>3, <1>8
<1>11. m.tp + m.fn = Cardinality({row \in rows : Gold(row)}) BY <1>2, <1>5
<1>12. m.fp + m.tn = Cardinality({row \in rows : ~Gold(row)}) BY <1>3, <1>6
<1> QED BY <1>9, <1>10, <1>11, <1>12

\* What the report says of the reporting half was not tuned on it, and counts
\* each of its rows (select_threshold_holdout), for any split into halves.
THEOREM HeldOut == Spec => []HeldOutIsHonest
<1>1. IInv => HeldOutIsHonest
  <2> SUFFICES ASSUME IInv, NEW s \in DOMAIN reports,
                      reports[s].holdout # Missing
               PROVE  LET held == reports[s].holdout
                          rows == LabeledScored(files, RowsOf(files, s))
                          test == Half(files, rows, 1)
                      IN  /\ \A row \in test, score \in Scores :
                                AnalyzeJudge(Rescored(row, score), s).holdout.threshold
                                    = held.threshold
                          /\ held.metrics.tp + held.metrics.fn
                                = Cardinality({row \in test : Gold(row)})
                          /\ held.metrics.fp + held.metrics.tn
                                = Cardinality({row \in test : ~Gold(row)})
                          /\ held.metrics.tp + held.metrics.fn > 0
                          /\ held.metrics.fp + held.metrics.tn > 0
    BY DEF HeldOutIsHonest
  <2> DEFINE held == reports[s].holdout
             rows == LabeledScored(files, RowsOf(files, s))
             fit == Half(files, rows, 0)
             test == Half(files, rows, 1)
  <2>1. files \in Seq(FileOf(drawn)) BY DEF IInv, FilesAreOfTheDraw
  <2>2. reports[s] = AnalyzeJudge(files, s)
    BY DEF IInv, Unreported, Reported
  <2>3. held = Holdout(files, rows) /\ Holdout(files, rows) # Missing
    BY <2>2 DEF AnalyzeJudge
  <2>4. \A row \in test, score \in Scores :
            AnalyzeJudge(Rescored(row, score), s).holdout.threshold = held.threshold
    BY <2>2, <2>3, ThresholdIsBlind
  <2>5. BothClasses(test)
        /\ held.metrics = Metrics(files, test, BestThreshold(files, fit))
    BY <2>3 DEF Holdout
  <2>6. IsFiniteSet(test)
    <3>1. \A row \in test : row \in RowsOf(files, s) BY DEF Half, LabeledScored
    <3> HIDE DEF test
    <3> QED BY <2>1, <3>1, DrawIsFinite, RowsAreFinite
  <2> HIDE DEF held, test, fit, rows
  <2>7. /\ held.metrics.tp + held.metrics.fn = Cardinality({row \in test : Gold(row)})
        /\ held.metrics.fp + held.metrics.tn = Cardinality({row \in test : ~Gold(row)})
        /\ held.metrics.tp + held.metrics.fn > 0
        /\ held.metrics.fp + held.metrics.tn > 0
    BY <2>5, <2>6, MetricsAddUp
  <2> QED BY <2>4, <2>7 DEF held, test, rows
<1> QED BY <1>1, Inductive, PTL


------------------------------------------------------------------------------
(***************************************************************************)
(* The draw.                                                               *)
(***************************************************************************)

\* positions[:n] has n members, or all there are, and leaves out none before
\* one it has.
LEMMA FirstOnes ==
  ASSUME NEW P \in SUBSET Nat, IsFiniteSet(P), NEW n \in Nat
  PROVE  /\ First(P, n) \subseteq P
         /\ Cardinality(First(P, n)) = IF n <= Cardinality(P) THEN n ELSE Cardinality(P)
         /\ \A i \in First(P, n), j \in P : j < i => j \in First(P, n)
<1> DEFINE R == {p \in P \X P : p[1] < p[2]}
           r == Places(P, R)
           c == Cardinality(P)
           F == First(P, n)
           m == IF n <= c THEN n ELSE c
<1>1. \A i, j \in P : <<i, j>> \in R <=> i < j OBVIOUS
<1> HIDE DEF R
<1>2. /\ \A i, j \in P : i # j => <<i, j>> \in R \/ <<j, i>> \in R
      /\ \A i \in P : <<i, i>> \notin R
      /\ \A i, j, k \in P : <<i, j>> \in R /\ <<j, k>> \in R => <<i, k>> \in R
  BY <1>1
<1>3. /\ c \in Nat
      /\ \A i, j \in P : <<i, j>> \in R => r[i] < r[j]
      /\ r \in [P -> 0..(c - 1)]
      /\ \A k \in 0..(c - 1) : \E i \in P : r[i] = k
  <2> DEFINE Q == P
  <2>1. /\ IsFiniteSet(Q)
        /\ \A i, j \in Q : i # j => <<i, j>> \in R \/ <<j, i>> \in R
        /\ \A i \in Q : <<i, i>> \notin R
        /\ \A i, j, k \in Q : <<i, j>> \in R /\ <<j, k>> \in R => <<i, k>> \in R
    BY <1>2
  <2> HIDE DEF r, c, F, m, Q
  <2>2. /\ Cardinality(Q) \in Nat
        /\ \A i, j \in Q : <<i, j>> \in R => Places(Q, R)[i] < Places(Q, R)[j]
        /\ Places(Q, R) \in [Q -> 0..(Cardinality(Q) - 1)]
        /\ \A k \in 0..(Cardinality(Q) - 1) : \E i \in Q : Places(Q, R)[i] = k
    BY <2>1, PlacesAreABijection
  <2> QED BY <2>2 DEF Q, r, c
<1>4. F = {i \in P : r[i] < n}
  <2>1. \A i \in P : {j \in P : <<j, i>> \in R} = {j \in P : j < i} BY <1>1
  <2> QED BY <2>1 DEF First, Places
<1> HIDE DEF r, F, c
<1>5. \A i \in P : r[i] \in Int BY <1>3
<1>6. ASSUME NEW i \in F, NEW j \in P, j < i PROVE j \in F
  <2>1. r[j] < r[i] BY <1>1, <1>3, <1>4, <1>6
  <2> QED BY <1>4, <1>5, <2>1
<1> DEFINE f == [i \in F |-> r[i]]
<1>7. f \in [F -> 0..(m - 1)]
  <2>1. \A i \in F : r[i] \in 0..(m - 1) BY <1>3, <1>4
  <2> QED BY <2>1
<1>8. \A i, j \in F : f[i] = f[j] => i = j
  <2>1. ASSUME NEW i \in P, NEW j \in P, r[i] = r[j] PROVE i = j
    <3>1. ~(r[i] < r[j]) /\ ~(r[j] < r[i]) BY <1>5, <2>1
    <3> QED BY <1>2, <1>3, <3>1
  <2> QED BY <1>4, <2>1
<1>9. \A k \in 0..(m - 1) : \E i \in F : f[i] = k
  <2> SUFFICES ASSUME NEW k \in 0..(m - 1) PROVE \E i \in F : f[i] = k
    OBVIOUS
  <2>1. k \in 0..(c - 1) /\ k < n BY <1>3
  <2>2. PICK i \in P : r[i] = k BY <1>3, <2>1
  <2>3. i \in F BY <1>4, <2>1, <2>2
  <2> QED BY <2>2, <2>3
<1>10. IsFiniteSet(0..(m - 1)) /\ Cardinality(0..(m - 1)) = m
  <2>1. m \in Nat BY <1>3
  <2> HIDE DEF m
  <2>2. 0 \in Int /\ m - 1 \in Int /\ (0 > m - 1 <=> m = 0) /\ (m - 1) - 0 + 1 = m
    BY <2>1
  <2> QED BY <2>2, FS_Interval
<1> HIDE DEF f, m
<1>11. f \in Injection(F, 0..(m - 1)) /\ f \in Surjection(F, 0..(m - 1))
  BY <1>7, <1>8, <1>9 DEF Injection, IsInjective, Surjection
<1>12. Cardinality(F) = m BY <1>10, <1>11, FS_Injection
<1>13. F \subseteq P BY <1>4
<1> QED BY <1>6, <1>12, <1>13 DEF F, m, c

\* The samples that are drawn, as the property counts them.
Balanced(samples, from, d, limit) ==
    LET total == Cardinality(from) IN
    \A k \in Strata(samples, from) :
        LET share == Cardinality(Group(samples, from, k)) * limit
            got == Cardinality(Group(samples, d, k)) * total
        IN  got - share \in (1 - total)..(total - 1)

InOrder(samples, from, d) ==
    \A i \in d, j \in from :
        (j < i /\ Stratum(samples, j) = Stratum(samples, i)) => j \in d

\* Finitely many strata, and a sample belongs to its own.
LEMMA StrataAreFinite ==
  ASSUME NEW samples, NEW from, IsFiniteSet(from)
  PROVE  /\ IsFiniteSet(Strata(samples, from))
         /\ [i \in from |-> Stratum(samples, i)] \in [from -> Strata(samples, from)]
         /\ \A k : Group(samples, from, k) \in SUBSET from
                   /\ IsFiniteSet(Group(samples, from, k))
                   /\ Cardinality(Group(samples, from, k)) \in Nat
         /\ \A k \in Strata(samples, from) : Cardinality(Group(samples, from, k)) # 0
<1> DEFINE key == [i \in from |-> Stratum(samples, i)]
<1>1. key \in [from -> Strata(samples, from)] BY DEF Strata
<1>2. IsFiniteSet(Strata(samples, from))
  <2>1. \A t \in Strata(samples, from) : \E i \in from : t = key[i] BY DEF Strata
  <2>2. DOMAIN key = from /\ key = [i \in from |-> key[i]] OBVIOUS
  <2> HIDE DEF key
  <2> QED BY <2>1, <2>2, ImageIsFinite
<1>3. \A k : Group(samples, from, k) \in SUBSET from BY DEF Group
<1>4. \A k : /\ IsFiniteSet(Group(samples, from, k))
             /\ Cardinality(Group(samples, from, k)) \in Nat
  BY <1>3, FS_Subset, FS_CardinalityType
<1>5. \A k \in Strata(samples, from) : Cardinality(Group(samples, from, k)) # 0
  <2>1. \A k \in Strata(samples, from) : Group(samples, from, k) # {}
    BY DEF Strata, Group
  <2> QED BY <1>4, <2>1, FS_EmptySet
<1> QED BY <1>1, <1>2, <1>3, <1>4, <1>5

\* What a stratum gets before the remainders are made up, and the sum of them.
Whole(samples, from, limit, total, k) ==
    (Cardinality(Group(samples, from, k)) * limit) \div total

RoundedDown(samples, from, limit, total, S) ==
    MapThenSumSet(LAMBDA k :
        (Cardinality(Group(samples, from, k)) * limit) \div total, S)

\* The sum in Quotas is taken over the strata one by one.
LEMMA RoundedDownAddUp ==
  ASSUME NEW S, IsFiniteSet(S), NEW samples, NEW from, NEW limit, NEW total,
         NEW whole \in [S -> Nat],
         \A k \in S : whole[k] = Whole(samples, from, limit, total, k)
  PROVE  \E sum : /\ Adds(sum, S, whole)
                  /\ RoundedDown(samples, from, limit, total, S) = sum[S]
<1> DEFINE g == [p \in S \X Nat |-> whole[p[1]] + p[2]]
           op(k) == (Cardinality(Group(samples, from, k)) * limit) \div total
           Iter(f) == [s \in SUBSET S |->
                        IF s = {} THEN 0 ELSE op(One(s)) + f[s \ {One(s)}]]
<1>1. g \in [S \X Nat -> Nat]
  OBVIOUS
<1>2. \A k \in S, n \in Nat : g[<<k, n>>] = whole[k] + n
  OBVIOUS
<1>3. \A k \in S : op(k) = whole[k] BY DEF Whole
<1> HIDE DEF g, op
<1>4. PICK f \in [SUBSET S -> Nat] : ByMembers(f, S, 0, g)
  BY <1>1, MemberByMember
<1>5. ASSUME NEW s \in SUBSET S, s # {}
      PROVE  /\ f[s] = whole[One(s)] + f[s \ {One(s)}]
             /\ f[s] = op(One(s)) + f[s \ {One(s)}]
  <2>1. One(s) \in S /\ s \ {One(s)} \in SUBSET S BY <1>5, OneLess
  <2>2. f[s] = g[<<One(s), f[s \ {One(s)}]>>] BY <1>4, <1>5 DEF ByMembers
  <2>3. f[s \ {One(s)}] \in Nat BY <1>4, <2>1
  <2>4. f[s] = whole[One(s)] + f[s \ {One(s)}] BY <1>2, <2>1, <2>2, <2>3
  <2> QED BY <1>3, <2>1, <2>4
<1>6. f[{}] = 0 BY <1>4 DEF ByMembers
<1>7. f = Iter(f)
  <2>1. f = [s \in SUBSET S |-> f[s]] BY <1>4
  <2> QED BY <1>5, <1>6, <2>1
<1> DEFINE it == CHOOSE h : h = Iter(h)
<1>8. it = Iter(it) BY <1>7
<1>9. RoundedDown(samples, from, limit, total, S) = it[S]
  BY DEF RoundedDown, MapThenSumSet, MapThenFoldSet, op, One
<1> HIDE DEF it
<1> DEFINE T == {s \in SUBSET S : it[s] = f[s]}
<1>10. {} \in T BY <1>6, <1>8
<1>11. ASSUME NEW s \in SUBSET S, s # {}, s \ {One(s)} \in T PROVE s \in T
  <2>1. it[s] = op(One(s)) + it[s \ {One(s)}] BY <1>8, <1>11
  <2>2. it[s \ {One(s)}] = f[s \ {One(s)}] BY <1>11
  <2> QED BY <1>5, <1>11, <2>1, <2>2
<1>12. \A s \in SUBSET S : s \in T
  <2> HIDE DEF T
  <2> QED BY <1>10, <1>11, BySubset
<1>13. it[S] = f[S] BY <1>12
<1>14. Adds(f, S, whole) BY <1>4, <1>5, <1>6 DEF Adds
<1> QED BY <1>9, <1>13, <1>14

\* Every sample is counted in its own stratum.
LEMMA GroupsAddUp ==
  ASSUME NEW samples, NEW from, IsFiniteSet(from), NEW S, IsFiniteSet(S),
         \A i \in from : Stratum(samples, i) \in S
  PROVE  \E all : /\ Adds(all, S, [k \in S |-> Cardinality(Group(samples, from, k))])
                  /\ all[S] = Cardinality(from)
<1> DEFINE key == [i \in from |-> Stratum(samples, i)]
           all == [s \in SUBSET S |-> Cardinality({i \in from : key[i] \in s})]
<1>1. key \in [from -> S] OBVIOUS
<1>2. \A k \in S : {i \in from : key[i] = k} = Group(samples, from, k) BY DEF Group
<1>3. {i \in from : key[i] \in S} = from BY <1>1
<1> HIDE DEF key
<1>4. all[S] = Cardinality(from) BY <1>3
<1>5. Adds(all, S, [k \in S |-> Cardinality({i \in from : key[i] = k})])
  BY <1>1, CountsAdd
<1>6. [k \in S |-> Cardinality({i \in from : key[i] = k})]
        = [k \in S |-> Cardinality(Group(samples, from, k))]
  BY <1>2
<1> HIDE DEF all
<1> QED BY <1>4, <1>5, <1>6

\* stratified_sample, where it has to choose.
Chosen(samples, from, limit, quota, d) ==
    /\ samples \in Seq(Sample) /\ from \in SUBSET DOMAIN samples /\ from # {}
    /\ limit \in Nat \ {0} /\ limit < Cardinality(from)
    /\ quota \in Quotas(samples, from, limit)
    /\ d = UNION {First(Group(samples, from, k), quota[k]) : k \in DOMAIN quota}

\* Every stratum gets its share rounded down, or one more where something was lost.
LEMMA QuotasAreBalanced ==
  ASSUME NEW samples, NEW from, NEW limit, NEW quota, NEW d,
         Chosen(samples, from, limit, quota, d)
  PROVE  /\ d \subseteq from /\ Cardinality(d) = limit
         /\ InOrder(samples, from, d)
         /\ Balanced(samples, from, d, limit)
<1> DEFINE S == Strata(samples, from)
           total == Cardinality(from)
           size == [k \in S |-> Cardinality(Group(samples, from, k))]
           whole == [k \in S |-> (Cardinality(Group(samples, from, k)) * limit) \div total]
           lost == [k \in S |-> (Cardinality(Group(samples, from, k)) * limit) % total]
<1>1. /\ from \in SUBSET Nat /\ IsFiniteSet(from) /\ total \in Nat \ {0}
      /\ limit \in Nat /\ limit <= total - 1
  <2> USE DEF Chosen
  <2>1. DOMAIN samples = 1..Len(samples) /\ Len(samples) \in Nat BY LenProperties
  <2>2. IsFiniteSet(DOMAIN samples) BY <2>1, FS_Interval
  <2>3. IsFiniteSet(from) /\ total \in Nat BY <2>2, FS_Subset, FS_CardinalityType
  <2>4. total # 0 BY <2>3, FS_EmptySet
  <2> QED BY <2>1, <2>3, <2>4
<1>2. /\ IsFiniteSet(S)
      /\ [i \in from |-> Stratum(samples, i)] \in [from -> S]
      /\ \A k : Group(samples, from, k) \in SUBSET from
                /\ IsFiniteSet(Group(samples, from, k))
                /\ Cardinality(Group(samples, from, k)) \in Nat
      /\ \A k \in S : Cardinality(Group(samples, from, k)) # 0
  BY <1>1, StrataAreFinite
<1> HIDE DEF total, S
<1>3. ASSUME NEW k \in S
      PROVE  /\ size[k] = Cardinality(Group(samples, from, k)) /\ size[k] \in Nat \ {0}
             /\ whole[k] \in Nat /\ lost[k] \in 0..(total - 1)
             /\ whole[k] = (Cardinality(Group(samples, from, k)) * limit) \div total
             /\ lost[k] = (Cardinality(Group(samples, from, k)) * limit) % total
             /\ limit * size[k] = total * whole[k] + lost[k]
  <2> DEFINE c == Cardinality(Group(samples, from, k))
             a == c * limit
             q == a \div total
             r == a % total
  <2>1. c \in Nat \ {0} BY <1>2
  <2>2. size[k] = c /\ whole[k] = q /\ lost[k] = r OBVIOUS
  <2> HIDE DEF size, whole, lost, c
  <2>3. a \in Nat /\ a = limit * c BY <1>1, <2>1
  <2> HIDE DEF a
  <2>4. a = total * q + r /\ r \in 0..(total - 1) /\ q \in Nat BY <1>1, <2>3, DivMod
  <2> HIDE DEF q, r
  <2>5. limit * size[k] = total * whole[k] + lost[k] BY <2>2, <2>3, <2>4
  <2> QED BY <2>1, <2>2, <2>4, <2>5 DEF a, q, r, c
<1>4. size \in [S -> Nat] /\ whole \in [S -> Nat] /\ lost \in [S -> 0..(total - 1)]
  <2>1. size = [k \in S |-> size[k]] /\ whole = [k \in S |-> whole[k]]
        /\ lost = [k \in S |-> lost[k]]
    OBVIOUS
  <2>2. /\ \A k \in S : size[k] \in Nat
        /\ \A k \in S : whole[k] \in Nat
        /\ \A k \in S : lost[k] \in 0..(total - 1)
    <3> HIDE DEF size, whole, lost
    <3> QED BY <1>3
  <2> HIDE DEF size, whole, lost
  <2>3. ASSUME NEW f, NEW R, f = [k \in S |-> f[k]], \A k \in S : f[k] \in R
        PROVE  f \in [S -> R]
    BY <2>3, Zenon
  <2> QED BY <2>1, <2>2, <2>3
<1>5. InShares(S, total, limit, size, whole, lost)
  <2> HIDE DEF size, whole, lost
  <2> QED BY <1>3 DEF InShares
<1>6. \A k \in S : whole[k] = Whole(samples, from, limit, total, k)
  BY DEF Whole
<1>7. PICK sum :
          /\ Adds(sum, S, whole)
          /\ RoundedDown(samples, from, limit, total, S) = sum[S]
  <2> HIDE DEF size, whole, lost
  <2> DEFINE Q == from
  <2>1. IsFiniteSet(S) BY <1>2
  <2>2. \A k \in S : whole[k] = Whole(samples, Q, limit, total, k) BY <1>6
  <2> HIDE DEF Q
  <2>3. \E f : /\ Adds(f, S, whole)
               /\ RoundedDown(samples, Q, limit, total, S) = f[S]
    BY <1>4, <2>1, <2>2, RoundedDownAddUp
  <2> QED BY <2>3 DEF Q
<1>8. PICK more :
          /\ more \in SUBSET S
          /\ Cardinality(more) = limit - sum[S]
          /\ \A k \in more, l \in S \ more : lost[k] >= lost[l]
          /\ quota = [k \in S |-> whole[k] + (IF k \in more THEN 1 ELSE 0)]
  <2>1. PICK more \in kSubset(limit - RoundedDown(samples, from, limit, total, S), S) :
          /\ \A k \in more, l \in S \ more :
                (Cardinality(Group(samples, from, k)) * limit) % total
                    >= (Cardinality(Group(samples, from, l)) * limit) % total
          /\ quota = [k \in S |->
                (Cardinality(Group(samples, from, k)) * limit) \div total
                    + (IF k \in more THEN 1 ELSE 0)]
    BY DEF Chosen, Quotas, RoundedDown, S, total
  <2>2. more \in SUBSET S /\ Cardinality(more) = limit - sum[S]
    BY <1>7, <2>1 DEF kSubset
  <2>3. \A k \in more, l \in S \ more : lost[k] >= lost[l]
    <3> SUFFICES ASSUME NEW k \in more, NEW l \in S \ more PROVE lost[k] >= lost[l]
      OBVIOUS
    <3>1. k \in S /\ l \in S BY <2>2
    <3> HIDE DEF lost
    <3> QED BY <1>3, <2>1, <3>1
  <2>4. quota = [k \in S |-> whole[k] + (IF k \in more THEN 1 ELSE 0)]
    <3> HIDE DEF whole
    <3> QED BY <1>3, <2>1
  <2> QED BY <2>2, <2>3, <2>4
<1> HIDE DEF size, whole, lost
<1>9. PICK all : Adds(all, S, size) /\ all[S] = total
  <2>1. size = [k \in S |-> Cardinality(Group(samples, from, k))] BY DEF size
  <2>2. IsFiniteSet(from) /\ IsFiniteSet(S) BY <1>1, <1>2
  <2>3. \A i \in from : Stratum(samples, i) \in S BY DEF S, Strata
  <2> QED BY <2>1, <2>2, <2>3, GroupsAddUp DEF total
<1>10. \A k \in more : lost[k] # 0
  <2>1. /\ IsFiniteSet(S) /\ total \in Nat \ {0} /\ limit \in Nat
        /\ Adds(sum, S, whole) /\ Cardinality(more) = limit - sum[S]
        /\ \A k \in more, l \in S \ more : lost[k] >= lost[l]
        /\ more \in SUBSET S
    BY <1>1, <1>2, <1>7, <1>8
  <2>2. ASSUME NEW k \in more PROVE lost[k] # 0
    <3>1. size \in [S -> Nat] /\ whole \in [S -> Nat] /\ lost \in [S -> 0..(total - 1)]
      BY <1>4
    <3> QED BY <1>5, <1>9, <2>1, <2>2, <3>1, OnlyLostIsMadeUp, SMTT(60)
  <2> QED BY <2>2
<1>11. ASSUME NEW k \in S
       PROVE  /\ quota[k] = whole[k] + (IF k \in more THEN 1 ELSE 0)
              /\ quota[k] \in Nat /\ quota[k] <= size[k]
  <2>1. /\ size[k] \in Nat \ {0} /\ whole[k] \in Nat /\ lost[k] \in Nat
        /\ limit * size[k] = total * whole[k] + lost[k]
    BY <1>1, <1>3
  <2>2. quota[k] = whole[k] + (IF k \in more THEN 1 ELSE 0) BY <1>8
  <2> DEFINE s == size[k]
             w == whole[k]
  <2>3. s \in Nat \ {0} /\ w \in Nat /\ total * w <= limit * s
    <3>1. total * w \in Int /\ limit * s \in Int BY <1>1, <2>1
    <3> QED BY <2>1, <3>1
  <2> HIDE DEF s, w
  <2>4. w < s
    <3> SUFFICES ASSUME w >= s PROVE FALSE BY <2>3
    <3>1. total * s <= total * w BY <1>1, <2>3
    <3>2. limit * s <= (total - 1) * s BY <1>1, <2>3
    <3>3. (total - 1) * s = total * s - s BY <1>1, <2>3
    <3>4. total * s \in Int /\ total * w \in Int /\ limit * s \in Int BY <1>1, <2>3
    <3> QED BY <2>3, <3>1, <3>2, <3>3, <3>4
  <2> QED BY <2>2, <2>3, <2>4 DEF s, w
<1> DEFINE F(k) == First(Group(samples, from, k), quota[k])
<1>12. ASSUME NEW k \in S
       PROVE  /\ F(k) \in SUBSET Group(samples, from, k)
              /\ Cardinality(F(k)) = quota[k]
              /\ \A i \in F(k), j \in Group(samples, from, k) : j < i => j \in F(k)
  <2> DEFINE G == Group(samples, from, k)
             n == quota[k]
  <2>1. G \in SUBSET Nat /\ IsFiniteSet(G) /\ Cardinality(G) \in Nat BY <1>1, <1>2
  <2>2. n \in Nat /\ n <= Cardinality(G) BY <1>3, <1>11
  <2> HIDE DEF G, n
  <2>3. /\ First(G, n) \subseteq G
        /\ Cardinality(First(G, n)) = IF n <= Cardinality(G) THEN n ELSE Cardinality(G)
        /\ \A i \in First(G, n), j \in G : j < i => j \in First(G, n)
    BY <2>1, <2>2, FirstOnes
  <2> QED BY <2>2, <2>3 DEF G, n
<1> HIDE DEF F
<1>13. d = UNION {F(k) : k \in S}
  <2>1. DOMAIN quota = S BY <1>8
  <2> QED BY <2>1 DEF F, Chosen
<1>14. \A k \in S : Group(samples, d, k) = F(k)
  <2>1. \A k, l \in S : \A i \in F(l) : Stratum(samples, i) = l /\ i \in from
    BY <1>12 DEF Group
  <2>2. \A k \in S : F(k) \subseteq Group(samples, d, k)
    BY <1>13, <2>1 DEF Group
  <2>3. \A k \in S : Group(samples, d, k) \subseteq F(k)
    <3> SUFFICES ASSUME NEW k \in S, NEW i \in d, Stratum(samples, i) = k
                 PROVE  i \in F(k)
      BY DEF Group
    <3>1. PICK l \in S : i \in F(l) BY <1>13
    <3> QED BY <2>1, <3>1
  <2> QED BY <2>2, <2>3
<1>15. d \subseteq from BY <1>2, <1>12, <1>13
<1>16. InOrder(samples, from, d)
  <2> SUFFICES ASSUME NEW i \in d, NEW j \in from, j < i,
                      Stratum(samples, j) = Stratum(samples, i)
               PROVE  j \in d
    BY DEF InOrder
  <2>1. PICK k \in S : i \in F(k) BY <1>13
  <2>2. i \in Group(samples, from, k) BY <1>12, <2>1
  <2>3. j \in Group(samples, from, k) BY <2>2 DEF Group
  <2> QED BY <1>12, <1>13, <2>1, <2>3
<1>17. Cardinality(d) = limit
  <2>1. IsFiniteSet(d) /\ IsFiniteSet(S) BY <1>1, <1>2, <1>15, FS_Subset
  <2>2. \A i \in d : Stratum(samples, i) \in S BY <1>15 DEF S, Strata
  <2> DEFINE value == [k \in S |-> Cardinality(Group(samples, d, k))]
  <2>3. PICK all2 : Adds(all2, S, value) /\ all2[S] = Cardinality(d)
    BY <2>1, <2>2, GroupsAddUp
  <2>4. \A k \in S : value[k] = whole[k] + (IF k \in more THEN 1 ELSE 0)
    BY <1>11, <1>12, <1>14
  <2> HIDE DEF value
  <2>5. all2[S] = sum[S] + Cardinality(more)
    <3>1. whole \in [S -> Nat] /\ Adds(sum, S, whole) /\ more \in SUBSET S
      BY <1>4, <1>7, <1>8
    <3> QED BY <2>1, <2>3, <2>4, <3>1, QuotasAddUp
  <2>6. sum[S] \in Nat BY <1>7 DEF Adds
  <2> QED BY <1>1, <1>8, <2>3, <2>5, <2>6
<1>18. Balanced(samples, from, d, limit)
  <2> SUFFICES ASSUME NEW k \in S
               PROVE  Cardinality(Group(samples, d, k)) * total
                        - Cardinality(Group(samples, from, k)) * limit
                          \in (1 - total)..(total - 1)
    BY DEF Balanced, S, total
  <2>1. Cardinality(Group(samples, d, k)) = quota[k] BY <1>12, <1>14
  <2> DEFINE s == size[k]
             w == whole[k]
             r == lost[k]
             q == quota[k]
             u == IF k \in more THEN 1 ELSE 0
  <2>2. s \in Nat /\ w \in Nat /\ r \in 0..(total - 1) /\ limit * s = total * w + r
    BY <1>3
  <2>3. q = w + u /\ u \in {0, 1} /\ (u = 1 => r # 0) BY <1>10, <1>11
  <2>4. s = Cardinality(Group(samples, from, k)) BY <1>3
  <2> HIDE DEF s, w, r, q, u
  <2>5. q * total = total * w + total * u BY <1>1, <2>2, <2>3
  <2>6. s * limit = total * w + r BY <1>1, <2>2
  <2>7. total * w \in Int /\ (u = 0 => total * u = 0) /\ (u = 1 => total * u = total)
    BY <1>1, <2>2
  <2>8. q * total - s * limit \in (1 - total)..(total - 1)
    BY <1>1, <2>2, <2>3, <2>5, <2>6, <2>7
  <2> QED BY <2>1, <2>4, <2>8 DEF q
<1> QED BY <1>15, <1>16, <1>17, <1>18

\* What the property asks of a draw d for the request r.
BalancedDraw(samples, r, d) ==
    LET from == Selected(samples, r.split)
        total == Cardinality(from)
        taken == Cardinality(d)
    IN  /\ d \subseteq from
        /\ taken = IF r.limit = NoLimit THEN total ELSE Min({r.limit, total})
        /\ InOrder(samples, from, d)
        /\ r.stratify => Balanced(samples, from, d, taken)

LEMMA MinOfTwo ==
  ASSUME NEW a \in Nat, NEW b \in Nat
  PROVE  Min({a, b}) = IF a <= b THEN a ELSE b
<1>1. \E x \in {a, b} : \A y \in {a, b} : x <= y OBVIOUS
<1>2. Min({a, b}) \in {a, b} /\ \A y \in {a, b} : Min({a, b}) <= y
  BY <1>1 DEF Min
<1> QED BY <1>2

\* A draw of everything is as balanced as can be.
LEMMA AllIsBalanced ==
  ASSUME NEW samples, NEW from, IsFiniteSet(from), from # {}
  PROVE  /\ InOrder(samples, from, from)
         /\ Balanced(samples, from, from, Cardinality(from))
<1> DEFINE total == Cardinality(from)
<1>1. total \in Nat \ {0} BY FS_CardinalityType, FS_EmptySet
<1>2. ASSUME NEW k
      PROVE  Cardinality(Group(samples, from, k)) * total
               - Cardinality(Group(samples, from, k)) * total \in (1 - total)..(total - 1)
  <2> DEFINE c == Cardinality(Group(samples, from, k))
  <2>1. c \in Nat BY StrataAreFinite
  <2> HIDE DEF c, total
  <2>2. c * total \in Int BY <1>1, <2>1
  <2>3. c * total - c * total = 0 BY <2>2
  <2>4. 0 \in (1 - total)..(total - 1) BY <1>1
  <2> QED BY <2>3, <2>4 DEF c
<1>3. Balanced(samples, from, from, total)
  <2> HIDE DEF total
  <2> QED BY <1>2 DEF Balanced, total
<1>4. InOrder(samples, from, from) BY DEF InOrder
<1> QED BY <1>3, <1>4

\* load.
LEMMA LoadIsBalanced ==
  ASSUME NEW samples \in Seq(Sample), NEW r \in Request, NEW d \in Load(samples, r)
  PROVE  BalancedDraw(samples, r, d)
<1> DEFINE from == Selected(samples, r.split)
           total == Cardinality(from)
<1>1. from \in SUBSET DOMAIN samples BY DEF Selected
<1>2. from \in SUBSET Nat /\ IsFiniteSet(from) /\ total \in Nat
  <2>1. DOMAIN samples = 1..Len(samples) /\ Len(samples) \in Nat BY LenProperties
  <2>2. IsFiniteSet(DOMAIN samples) BY <2>1, FS_Interval
  <2> QED BY <1>1, <2>1, <2>2, FS_Subset, FS_CardinalityType
<1>3. from # {} BY DEF Load
<1>4. InOrder(samples, from, from) /\ Balanced(samples, from, from, total)
  <2> HIDE DEF from
  <2> QED BY <1>2, <1>3, AllIsBalanced
<1>5. r.limit # NoLimit => /\ r.limit \in Nat \ {0}
                          /\ Min({r.limit, total})
                               = IF r.limit <= total THEN r.limit ELSE total
  <2>1. r.limit # NoLimit => r.limit \in Nat \ {0} BY DEF Request
  <2> HIDE DEF total
  <2> QED BY <1>2, <2>1, MinOfTwo
<1>6. CASE r.limit = NoLimit
  <2>1. d = from BY <1>3, <1>6 DEF Load
  <2> QED BY <1>4, <1>6, <2>1 DEF BalancedDraw
<1>7. CASE r.limit # NoLimit /\ r.stratify
  <2>1. d \in StratifiedSample(samples, from, r.limit) BY <1>3, <1>7 DEF Load
  <2>2. CASE r.limit >= total
    <3>1. d = from BY <2>1, <2>2 DEF StratifiedSample
    <3>2. total = Min({r.limit, total}) BY <1>2, <1>5, <1>7, <2>2
    <3> QED BY <1>4, <1>7, <3>1, <3>2 DEF BalancedDraw
  <2>3. CASE ~(r.limit >= total)
    <3>1. PICK quota \in Quotas(samples, from, r.limit) :
              d = UNION {First(Group(samples, from, k), quota[k]) : k \in DOMAIN quota}
      BY <2>1, <2>3 DEF StratifiedSample
    <3>2. r.limit \in Nat \ {0} /\ r.limit < total BY <1>2, <1>5, <1>7, <2>3
    <3> DEFINE n == r.limit
    <3>3. Chosen(samples, from, n, quota, d)
      <4> HIDE DEF from
      <4> QED BY <1>1, <1>3, <3>1, <3>2 DEF Chosen
    <3>4. /\ d \subseteq from /\ Cardinality(d) = n
          /\ InOrder(samples, from, d) /\ Balanced(samples, from, d, n)
      <4> HIDE DEF from, n
      <4> QED BY <3>3, QuotasAreBalanced
    <3>5. n = Min({r.limit, total}) BY <1>2, <1>5, <1>7, <3>2
    <3> QED BY <1>7, <3>4, <3>5 DEF BalancedDraw
  <2> QED BY <2>2, <2>3
<1>8. CASE r.limit # NoLimit /\ ~r.stratify
  <2> DEFINE n == r.limit
  <2>1. d = First(from, n) BY <1>3, <1>8 DEF Load
  <2>2. n \in Nat BY <1>5, <1>8
  <2>3. /\ First(from, n) \subseteq from
        /\ Cardinality(First(from, n)) = IF n <= total THEN n ELSE total
        /\ \A i \in First(from, n), j \in from : j < i => j \in First(from, n)
    <3> HIDE DEF from, n
    <3> QED BY <1>2, <2>2, FirstOnes DEF total
  <2>4. InOrder(samples, from, d) BY <2>1, <2>3 DEF InOrder
  <2>5. Cardinality(d) = Min({r.limit, total}) BY <1>5, <1>8, <2>1, <2>3
  <2>6. d \subseteq from BY <2>1, <2>3
  <2> HIDE DEF n
  <2> QED BY <1>8, <2>4, <2>5, <2>6 DEF BalancedDraw
<1>9. r.stratify \in BOOLEAN BY DEF Request
<1> QED BY <1>6, <1>7, <1>8, <1>9

\* What was drawn is what was asked for.
DrawnAsAsked ==
    /\ population \in Populations
    /\ request \in Requests
    /\ stage = "benchmark" => drawn \in Load(population, request)

LEMMA DrawnAsAskedHolds == Spec => []DrawnAsAsked
<1>1. Init => DrawnAsAsked BY DEF Init, DrawnAsAsked
<1>2. DrawnAsAsked /\ [Next]_vars => DrawnAsAsked'
  <2> SUFFICES ASSUME DrawnAsAsked, [Next]_vars PROVE DrawnAsAsked'
    OBVIOUS
  <2>1. CASE LoadSamples BY <2>1 DEF LoadSamples, DrawnAsAsked
  <2>2. CASE LoadRaises BY <2>2 DEF LoadRaises, DrawnAsAsked
  <2>3. CASE Benchmark BY <2>3 DEF Benchmark, DrawnAsAsked
  <2>4. CASE Analyze BY <2>4 DEF Analyze, DrawnAsAsked
  <2>5. CASE UNCHANGED vars BY <2>5 DEF vars, DrawnAsAsked
  <2> QED BY <2>1, <2>2, <2>3, <2>4, <2>5 DEF Next
<1> QED BY <1>1, <1>2, PTL DEF Spec

\* stratified_sample: "Take `limit` samples keeping the label balance of the
\* full set as closely as possible". Whatever the dataset, the split and the
\* limit, a draw has the asked size and every stratum its share but for less
\* than one sample.
THEOREM DrawBalanced == Spec => []DrawIsBalanced
<1>1. DrawnAsAsked => DrawIsBalanced
  <2> SUFFICES ASSUME DrawnAsAsked, stage = "benchmark"
               PROVE  DrawIsBalanced
    BY DEF DrawIsBalanced
  <2>1. /\ population \in Seq(Sample) /\ request \in Request
        /\ drawn \in Load(population, request)
    BY AnalysisAssumption DEF DrawnAsAsked
  <2>2. BalancedDraw(population, request, drawn) BY <2>1, LoadIsBalanced
  <2> QED BY <2>2 DEF BalancedDraw, InOrder, Balanced, DrawIsBalanced
<1> QED BY <1>1, DrawnAsAskedHolds, PTL
=============================================================================
