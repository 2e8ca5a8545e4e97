------------------------------ MODULE Analysis ------------------------------
(***************************************************************************)
(* From a dataset to the numbers of the report: a draw is scored into rows *)
(* files, analyze.py groups the rows into series, tunes a threshold for    *)
(* each on one half of its samples, measures it on the other, pairs masked *)
(* series with unmasked ones and compares the series two by two; errors.py *)
(* lists the rows on which a series disagrees with the labels, by the      *)
(* structure of their samples.                                             *)
(*                                                                         *)
(* A rows file is what BenchRun leaves: one row per sample, and a manifest *)
(* that gives the file its run id, or none. Scores and thresholds are on a *)
(* grid, F1 is compared exactly (the code compares floats). Of kappa       *)
(* there is what it is computed from; correlations, ROC curves, intervals, *)
(* figures and tables are left out.                                        *)
(***************************************************************************)
EXTENDS Sampling

CONSTANTS
    Populations,  \* datasets that may be drawn from
    Requests,     \* arguments of load
    Benchmarks,   \* the draws that are scored, as <<dataset, request>>
    Judges, Models, Datasets,
    Confs,        \* everything else a run's fingerprint covers
    Scores,       \* faithfulness scores
    Thresholds,   \* THRESHOLDS
    FileSeqs,     \* what judges may make of a draw, as sequences of files
    Folds,        \* what the hash of holdout_fold may be
    Shape,        \* Shape[p]: the structural properties of sample p
    Missing       \* None

Positions == UNION {DOMAIN population : population \in Populations}

\* The buckets of errors.py other than "plain".
Structure == {"long_context", "multi_passage", "numeric_claim",
              "conjoined_claims", "short_answer"}

\* A rows file. Files of rageval batch have no labels.
File == [judge : Judges, model : Models, dataset : Datasets,
         mode : {"mask", "off"}, conf : Confs, manifest : BOOLEAN,
         labelled : BOOLEAN, score : [Positions -> Scores \cup {Missing}]]

\* What a manifest says of its run.
Runs == Judges \X Models \X Datasets \X {"mask", "off"} \X Confs

ASSUME AnalysisAssumption ==
    /\ Populations \subseteq Seq(Sample) \ {<<>>}
    /\ Requests \subseteq Request
    /\ Benchmarks \subseteq Populations \X Requests
    /\ Scores \subseteq Nat /\ Thresholds \subseteq Nat /\ Thresholds # {}
    /\ Missing \notin Scores \cup Thresholds \cup Models \cup Datasets
    /\ Missing \notin Runs \cup {"mask", "off"}
    /\ FileSeqs \subseteq Seq(File) \ {<<>>}
    /\ Folds \subseteq [Datasets \X Positions -> {0, 1}]
    /\ Shape \in [Positions -> SUBSET Structure]

VARIABLES
    stage,
    population, request,  \* what load is asked for
    drawn,                \* the samples it returned
    files,                \* the rows files, in the order given to analyze
    fold,                 \* holdout_fold
    reports,              \* reports[s]: the JudgeReport of series s
    ablations,            \* pairs of series, <<masked, unmasked>>
    agreements,           \* the AgreementReports
    cases                 \* the error cases, as <<file, sample>>

vars == <<stage, population, request, drawn, files, fold, reports, ablations,
          agreements, cases>>

(***************************************************************************)
(* load_rows, assign_series.                                               *)
(***************************************************************************)
Run(f) == IF f.manifest THEN <<f.judge, f.model, f.dataset, f.mode, f.conf>>
                        ELSE Missing
PrivacyMode(f) == IF f.manifest THEN f.mode ELSE Missing

OfJudge(fs, judge) == {fs[i] : i \in {j \in DOMAIN fs : fs[j].judge = judge}}
Several(values) == Cardinality(values \ {Missing}) > 1

\* Mutant: the series is qualified by model and dataset only.
SeriesWithoutRuns(fs, f) ==
    LET peers == OfJudge(fs, f.judge) IN
    [judge |-> f.judge,
     model |-> IF Several({g.model : g \in peers}) THEN f.model ELSE Missing,
     dataset |-> IF Several({g.dataset : g \in peers}) THEN f.dataset ELSE Missing,
     run |-> Missing]

\* The label of the series that the rows of file f belong to.
Series(fs, f) ==
    LET peers == OfJudge(fs, f.judge) IN
    [judge |-> f.judge,
     model |-> IF Several({g.model : g \in peers}) THEN f.model ELSE Missing,
     dataset |-> IF Several({g.dataset : g \in peers}) THEN f.dataset ELSE Missing,
     run |-> IF Several({Run(g) : g \in peers}) THEN Run(f) ELSE Missing]

AllSeries(fs) == {Series(fs, fs[i]) : i \in DOMAIN fs}
FilesOf(fs, s) == {i \in DOMAIN fs : Series(fs, fs[i]) = s}
RowsOf(fs, s) == UNION {{i} \X (DOMAIN fs[i].score) : i \in FilesOf(fs, s)}

(***************************************************************************)
(* analyze_judge.                                                          *)
(***************************************************************************)
Gold(row) == population[row[2]].label
Score(fs, row) == fs[row[1]].score[row[2]]
Half(fs, rows, n) ==
    {row \in rows : fold[<<fs[row[1]].dataset, row[2]>>] = n}

\* _labeled_scored
LabeledScored(fs, rows) ==
    {row \in rows : fs[row[1]].labelled /\ Score(fs, row) # Missing}

\* threshold_metrics
Metrics(fs, rows, threshold) ==
    LET count(predicted, gold) ==
            Cardinality({row \in rows : /\ (Score(fs, row) < threshold) = predicted
                                        /\ Gold(row) = gold})
    IN  [tp |-> count(TRUE, TRUE), fp |-> count(TRUE, FALSE),
         fn |-> count(FALSE, TRUE), tn |-> count(FALSE, FALSE)]

\* F1 of a is at least that of b; without positives and predictions it is 0.
NoWorse(a, b) ==
    LET over(m) == Max({1, 2 * m.tp + m.fp + m.fn}) IN
    a.tp * over(b) >= b.tp * over(a)

\* Ties go to the lower threshold.
BestThreshold(fs, rows) ==
    CHOOSE t \in Thresholds : \A u \in Thresholds :
        LET mt == Metrics(fs, rows, t)
            mu == Metrics(fs, rows, u)
        IN  NoWorse(mt, mu) /\ (NoWorse(mu, mt) => t <= u)

BothClasses(rows) == {Gold(row) : row \in rows} = BOOLEAN

\* Mutant: the threshold is tuned on all rows.
HoldoutTunedOnAll(fs, rows) ==
    LET fit == Half(fs, rows, 0)
        test == Half(fs, rows, 1)
        threshold == BestThreshold(fs, rows)
    IN  IF BothClasses(fit) /\ BothClasses(test)
        THEN [threshold |-> threshold, metrics |-> Metrics(fs, test, threshold)]
        ELSE Missing

\* select_threshold_holdout
Holdout(fs, rows) ==
    LET fit == Half(fs, rows, 0)
        test == Half(fs, rows, 1)
        threshold == BestThreshold(fs, fit)
    IN  IF BothClasses(fit) /\ BothClasses(test)
        THEN [threshold |-> threshold, metrics |-> Metrics(fs, test, threshold)]
        ELSE Missing

AnalyzeJudge(fs, s) ==
    LET rows == LabeledScored(fs, RowsOf(fs, s)) IN
    [best |-> IF rows = {} THEN Missing ELSE BestThreshold(fs, rows),
     holdout |-> Holdout(fs, rows)]

(***************************************************************************)
(* analyze_privacy_ablation.                                               *)
(***************************************************************************)
Modes(fs, s) == {PrivacyMode(fs[i]) : i \in FilesOf(fs, s)} \ {Missing}

\* (judge, model, datasets) of a report.
Key(fs, s) == <<s.judge, {fs[i].model : i \in FilesOf(fs, s)},
                {fs[i].dataset : i \in FilesOf(fs, s)}>>

Pairable(fs) ==
    {p \in AllSeries(fs) \X AllSeries(fs) :
        /\ Modes(fs, p[1]) = {"mask"}
        /\ Modes(fs, p[2]) = {"off"}
        /\ Key(fs, p[1]) = Key(fs, p[2])}

\* One pair for a key; of several runs in one mode the last one by its label,
\* a hash, replaces the others.
Ablations(fs) ==
    {pairs \in SUBSET Pairable(fs) :
        \A p \in Pairable(fs) :
            Cardinality({q \in pairs : Key(fs, q[1]) = Key(fs, p[1])}) = 1}

(***************************************************************************)
(* analyze_agreement: every two series over the samples both have scored.  *)
(***************************************************************************)

\* Mutant: scores are keyed by the sample id only.
IdOnly(f, p) == <<Missing, p>>

\* "The same id in two datasets is two samples".
SampleKey(f, p) == <<f.dataset, p>>

Scored(fs, s) == {row \in RowsOf(fs, s) : Score(fs, row) # Missing}

\* Of two rows of one sample the later one counts.
ScoredBySample(fs, s) ==
    LET key(row) == SampleKey(fs[row[1]], row[2]) IN
    [k \in {key(row) : row \in Scored(fs, s)} |->
        LET last == Max({row[1] : row \in {r \in Scored(fs, s) : key(r) = k}})
        IN  fs[last].score[k[2]]]

\* The binary calls are made at the threshold that is best over all rows.
Agreements(fs, rs) ==
    LET calls(s, shared) ==
            [k \in shared |-> ScoredBySample(fs, s)[k] < rs[s].best]
        agreement(a, b) ==
            LET shared == DOMAIN ScoredBySample(fs, a) \cap DOMAIN ScoredBySample(fs, b)
                comparable == rs[a].best # Missing /\ rs[b].best # Missing
            IN  [judges |-> {a, b}, shared |-> shared,
                 differ |-> IF comparable
                            THEN {k \in shared : calls(a, shared)[k] # calls(b, shared)[k]}
                            ELSE {},
                 kappa |-> comparable /\ \E s \in {a, b} :
                               Cardinality(Range(calls(s, shared))) > 1]
    IN  {agreement(p[1], p[2]) :
            p \in {q \in (DOMAIN rs) \X (DOMAIN rs) :
                     /\ q[1] # q[2]
                     /\ DOMAIN ScoredBySample(fs, q[1])
                            \cap DOMAIN ScoredBySample(fs, q[2]) # {}}}

(***************************************************************************)
(* errors.py. The rows come out of the frame, where a missing score is NaN *)
(* as soon as any row has one: it is not None, and not below a threshold.  *)
(***************************************************************************)
DecisionThreshold(report) ==
    IF report.holdout # Missing THEN report.holdout.threshold ELSE report.best

Predicted(fs, row, threshold) ==
    Score(fs, row) # Missing /\ Score(fs, row) < threshold

CollectErrors(fs, rs) ==
    UNION {LET threshold == DecisionThreshold(rs[s]) IN
           {row \in RowsOf(fs, s) :
               /\ threshold # Missing
               /\ fs[row[1]].labelled
               /\ Predicted(fs, row, threshold) # Gold(row)} : s \in DOMAIN rs}

\* sample_buckets; the rows are joined to their samples by the id.
Buckets(row) == IF Shape[row[2]] = {} THEN {"plain"} ELSE Shape[row[2]]

\* The rows both guards for None let through.
Counted(fs) ==
    LET rows == UNION {RowsOf(fs, s) : s \in AllSeries(fs)} IN
    {row \in rows : /\ fs[row[1]].labelled
                    /\ \E r \in rows : Score(fs, r) # Missing}

\* Mutant: a bucket has as many rows as it has samples.
SamplesPerBucket(fs) ==
    [b \in Structure \cup {"plain"} |->
        Cardinality({row[2] : row \in {r \in Counted(fs) : b \in Buckets(r)}})]

BucketTotals(fs) ==
    [b \in Structure \cup {"plain"} |->
        Cardinality({row \in Counted(fs) : b \in Buckets(row)})]

------------------------------------------------------------------------------
Init ==
    /\ stage = "load"
    /\ population \in Populations
    /\ request \in Requests
    /\ drawn = {}
    /\ files = <<>>
    /\ fold \in Folds
    /\ reports = <<>> /\ ablations = {} /\ agreements = {} /\ cases = {}

LoadSamples ==
    /\ stage = "load"
    /\ drawn' \in Load(population, request)
    /\ stage' = "benchmark"
    /\ UNCHANGED <<population, request, files, fold, reports, ablations,
                   agreements, cases>>

\* The split is not there.
LoadRaises ==
    /\ stage = "load"
    /\ Load(population, request) = {}
    /\ stage' = "over"
    /\ UNCHANGED <<population, request, drawn, files, fold, reports, ablations,
                   agreements, cases>>

\* The runs, each over the whole draw; Missing is an error row, or a sample
\* with nothing to verify.
Benchmark ==
    /\ stage = "benchmark"
    /\ <<population, request>> \in Benchmarks
    /\ \E fs \in FileSeqs :
        files' = [i \in DOMAIN fs |->
            [fs[i] EXCEPT !.score = [p \in drawn |-> fs[i].score[p]]]]
    /\ stage' = "analyze"
    /\ UNCHANGED <<population, request, drawn, fold, reports, ablations,
                   agreements, cases>>

Analyze ==
    /\ stage = "analyze"
    /\ reports' = [s \in AllSeries(files) |-> AnalyzeJudge(files, s)]
    /\ ablations' \in Ablations(files)
    /\ agreements' = Agreements(files, reports')
    /\ cases' = CollectErrors(files, reports')
    /\ stage' = "over"
    /\ UNCHANGED <<population, request, drawn, files, fold>>

Next == LoadSamples \/ LoadRaises \/ Benchmark \/ Analyze

Spec == Init /\ [][Next]_vars

------------------------------------------------------------------------------
(***************************************************************************)
(* Properties.                                                             *)
(***************************************************************************)
\* stratified_sample: "Take `limit` samples keeping the label balance of the
\* full set as closely as possible". A draw has exactly the asked size, is
\* from the asked split, every stratum has its exact share but for less than
\* one sample, and none was taken before another of its stratum that the
\* shuffle put first.
DrawIsBalanced ==
    stage = "benchmark" =>
        LET from == Selected(population, request.split)
            total == Cardinality(from)
            taken == Cardinality(drawn)
        IN  /\ drawn \subseteq from
            /\ taken = IF request.limit = NoLimit THEN total
                       ELSE Min({request.limit, total})
            /\ \A i \in drawn, j \in from :
                  (j < i /\ Stratum(population, j) = Stratum(population, i))
                     => j \in drawn
            /\ request.stratify => \A k \in Strata(population, from) :
                  LET share == Cardinality(Group(population, from, k)) * taken
                      got == Cardinality(Group(population, drawn, k)) * total
                  IN  got - share \in (1 - total)..(total - 1)

\* assign_series: "Pooling a masked run with an unmasked one would average the
\* ablation away instead of measuring it". The rows of a series are of one
\* judge, model and dataset and of one run, as far as manifests tell; the two
\* series of an ablation are of one judge, model and dataset, and masked on
\* one side only.
ComparedLikeWithLike ==
    /\ \A i, j \in DOMAIN files :
          Series(files, files[i]) = Series(files, files[j]) =>
              /\ files[i].judge = files[j].judge
              /\ files[i].model = files[j].model
              /\ files[i].dataset = files[j].dataset
              /\ files[i].manifest /\ files[j].manifest
                     => Run(files[i]) = Run(files[j])
    /\ \A pair \in ablations :
          \A i \in FilesOf(files, pair[1]), j \in FilesOf(files, pair[2]) :
              /\ files[i].judge = files[j].judge
              /\ files[i].model = files[j].model
              /\ files[i].dataset = files[j].dataset
              /\ files[i].manifest => files[i].mode = "mask"
              /\ files[j].manifest => files[j].mode = "off"

\* The row with another score.
Rescored(row, score) == [files EXCEPT ![row[1]].score[row[2]] = score]

\* HoldoutResult: "chosen blind to the rows it is measured on". Other scores in
\* the reporting half would have given the same threshold, every row of that
\* half is counted once and no other, and both classes are among them.
HeldOutIsHonest ==
    \A s \in DOMAIN reports :
        LET held == reports[s].holdout
            rows == LabeledScored(files, RowsOf(files, s))
            test == Half(files, rows, 1)
        IN  held # Missing =>
              /\ \A row \in test, score \in Scores :
                    AnalyzeJudge(Rescored(row, score), s).holdout.threshold
                        = held.threshold
              /\ held.metrics.tp + held.metrics.fn
                    = Cardinality({row \in test : Gold(row)})
              /\ held.metrics.fp + held.metrics.tn
                    = Cardinality({row \in test : ~Gold(row)})
              /\ held.metrics.tp + held.metrics.fn > 0
              /\ held.metrics.fp + held.metrics.tn > 0

\* _scored_by_sample: two judges are compared on exactly the samples of one
\* dataset that both have scored, and they are said to differ on a sample only
\* if both have a row of it that says so at their own thresholds.
AgreementIsPaired ==
    \A agreement \in agreements : \E a, b \in agreement.judges :
        LET both(k, p) ==
                \E i \in FilesOf(files, a), j \in FilesOf(files, b) :
                    /\ files[i].dataset = files[j].dataset
                    /\ k \in {SampleKey(files[i], p), SampleKey(files[j], p)}
                    /\ Missing \notin {files[i].score[p], files[j].score[p]}
            calls(s, p) == {files[i].score[p] < reports[s].best :
                              i \in {n \in FilesOf(files, s) : files[n].score[p] # Missing}}
        IN  /\ a # b
            /\ \A k \in agreement.shared : both(k, k[2])
            /\ \A i \in FilesOf(files, a), j \in FilesOf(files, b), p \in drawn :
                  (/\ files[i].dataset = files[j].dataset
                   /\ Missing \notin {files[i].score[p], files[j].score[p]})
                      => SampleKey(files[i], p) \in agreement.shared
            /\ \A k \in agreement.differ :
                  calls(a, k[2]) \cup calls(b, k[2]) = BOOLEAN

\* bucket_totals: dividing the errors of several judges by the number of
\* samples would report "a rate up to four times too high". An error rate is a
\* share: in every bucket the errors are among the rows it is divided by.
ErrorRatesAreShares ==
    \A b \in Structure \cup {"plain"} :
        Cardinality({row \in cases : b \in Buckets(row)}) <= BucketTotals(files)[b]

\* collect_errors: "Every disagreement with the human label, at each series'
\* own decision threshold". In the reporting half these are the false
\* negatives and false positives of the held-out metrics.
ErrorsAddUp ==
    \A s \in DOMAIN reports :
        LET held == reports[s].holdout IN
        held # Missing =>
            Cardinality(cases \cap Half(files, RowsOf(files, s), 1))
                = held.metrics.fp + held.metrics.fn
=============================================================================
