----------------------- MODULE MetricEvaluationProofs -----------------------
(***************************************************************************)
(* What holds of an evaluation for any batch size, number of runs, claims  *)
(* and retry limits: the cost of a question, the alignment of verdicts and *)
(* claims, the vote and the score, the cost of it all, and that every step *)
(* brings it nearer to its end.                                            *)
(***************************************************************************)
EXTENDS MetricEvaluation, FiniteSetTheorems, TLAPS

------------------------------------------------------------------------------
(***************************************************************************)
(* The invariant. Faithfulness runs once, so what it leaves in claims and  *)
(* runs stays as its result was computed from it.                          *)
(***************************************************************************)

Faithful == {"extract", "reextract", "verify", "reverify"}

\* Faithfulness has been selected before the current position.
Ran == \E j \in 1..(at - 1) : metrics[j] = "faithfulness"

\* A question of faithfulness is asked only in its turn.
InTurn ==
    /\ stage \in Faithful \cup {"generate", "rate"} =>
           at <= Len(metrics) /\ ~Repeated
    /\ stage \in Faithful => metrics[at] = "faithfulness"
    /\ stage \in {"generate", "rate"} => metrics[at] # "faithfulness"

\* Nothing is recorded before its verification starts.
Untouched ==
    ~Ran /\ stage \notin {"verify", "reverify", "failed"} =>
        /\ start = 1 /\ run = <<>> /\ runs = <<>>
        /\ result.verdicts = <<>>

\* While verifying: the run covers what is before start, and runs are missing.
Progress ==
    stage \in {"verify", "reverify"} =>
        /\ start <= Len(claims)
        /\ Len(run) = start - 1
        /\ Len(runs) < k
        /\ result.verdicts = <<>>

\* A vote was taken over all k runs.
VotedOnAll ==
    result.verdicts \notin {<<>>, NothingToVerify} =>
        Len(runs) = k /\ result.verdicts = Vote(runs)

\* What is known of a question: its type, its cost and, while it waits, that
\* it is on its first completion or a later one.
CallInv == CallTypeOK /\ PostsBounded /\ (call = "waiting" => attempt >= 1)

\* The score was computed from the verdicts it is returned with.
Scored ==
    /\ result.verdicts = NothingToVerify => result.faithfulness = NoScore
    /\ result.verdicts \notin {<<>>, NothingToVerify} =>
           /\ result.verdicts \in Seq(Items)
           /\ result.faithfulness = Score(result.verdicts, strict)

IInv ==
    TypeOK /\ CallInv /\ InTurn /\ Untouched /\ Progress /\ VotedOnAll
           /\ Scored /\ RunsLineUp

------------------------------------------------------------------------------
(***************************************************************************)
(* Batches, votes and scores.                                              *)
(***************************************************************************)

BatchEnd == start + Len(Batch) - 1

\* _verify_claims slices claims: the batch is claims start to BatchEnd, it is
\* not empty, and the last one ends where the claims do.
LEMMA BatchFacts ==
    ASSUME TypeOK, start <= Len(claims)
    PROVE  /\ Batch \in Seq(Texts)
           /\ BatchEnd \in start..Len(claims)
           /\ start + BatchSize <= Len(claims) => BatchEnd = start + BatchSize - 1
           /\ start + BatchSize > Len(claims) => BatchEnd = Len(claims)
           /\ \A j \in DOMAIN Batch : Batch[j] = claims[start + j - 1]
BY EvaluationAssumption DEF TypeOK, Batch, BatchEnd

\* What a judge may answer is a list of items.
LEMMA ReplyType ==
    ASSUME NEW items \in Replies
    PROVE  items \in Seq(Items)
BY DEF Replies

\* A batch that lines up extends a run that does.
LEMMA Extended ==
    ASSUME TypeOK, RunsLineUp, Progress, stage \in {"verify", "reverify"},
           NEW items \in Replies, LinesUp(items)
    PROVE  /\ run \o items \in Seq(Items)
           /\ Len(run \o items) = BatchEnd
           /\ \A i \in DOMAIN (run \o items) :
                  (run \o items)[i].claim = claims[i]
<1>1. items \in Seq(Items) /\ run \in Seq(Items)
  BY ReplyType DEF TypeOK
<1>2. start \in Nat \ {0} /\ Len(run) = start - 1 /\ start <= Len(claims)
  BY DEF TypeOK, Progress
<1>3. /\ Len(items) = Len(Batch)
      /\ \A j \in 1..Len(items) : items[j].claim = claims[start + j - 1]
  <2>1. Batch \in Seq(Texts) /\ \A j \in DOMAIN Batch : Batch[j] = claims[start + j - 1]
    BY <1>2, BatchFacts
  <2>2. Len(items) = Len(Batch) /\ \A j \in DOMAIN Batch : items[j].claim = Batch[j]
    BY DEF LinesUp
  <2>3. DOMAIN Batch = 1..Len(items)
    BY <2>1, <2>2
  <2> QED
    BY <2>1, <2>2, <2>3
<1>4. \A i \in 1..Len(run) : run[i].claim = claims[i]
  BY <1>1 DEF RunsLineUp
<1>5. run \o items \in Seq(Items) /\ Len(run \o items) = BatchEnd
  <2>1. run \o items \in Seq(Items) /\ Len(run \o items) = Len(run) + Len(items)
    BY <1>1
  <2>2. Len(items) \in Nat
    BY <1>1
  <2> QED
    BY <1>2, <1>3, <2>1, <2>2 DEF BatchEnd
<1>6. ASSUME NEW i \in 1..Len(run \o items)
      PROVE  (run \o items)[i].claim = claims[i]
  <2>1. CASE i <= Len(run)
    BY <1>1, <1>4, <2>1
  <2>2. CASE i > Len(run)
    <3>1. i - Len(run) \in 1..Len(items)
      BY <1>1, <2>2
    <3>2. (run \o items)[i] = items[i - Len(run)]
      BY <1>1, <2>2
    <3>3. start + (i - Len(run)) - 1 = i
      BY <1>1, <1>2
    <3> QED
      BY <1>3, <3>1, <3>2, <3>3
  <2> QED
    BY <1>1, <2>1, <2>2
<1> QED
  BY <1>5, <1>6

\* The number of runs that gave a claim a verdict.
LEMMA CountType ==
    ASSUME NEW all, NEW i, NEW v, IsFiniteSet(DOMAIN all)
    PROVE  Count(all, i, v) \in Nat
BY FS_Subset, FS_CardinalityType DEF Count

LEMMA HowManyType ==
    ASSUME NEW verdicts \in Seq(Items), NEW names
    PROVE  HowMany(verdicts, names) \in 0..Len(verdicts)
<1>1. IsFiniteSet(1..Len(verdicts)) /\ Cardinality(1..Len(verdicts)) = Len(verdicts)
  BY FS_Interval, Len(verdicts) \in Nat
<1>2. {i \in DOMAIN verdicts : verdicts[i].verdict \in names} \subseteq 1..Len(verdicts)
  OBVIOUS
<1> QED
  BY <1>1, <1>2, FS_Subset, FS_CardinalityType DEF HowMany

\* The vote is a list of verdicts on the claims.
LEMMA VoteType ==
    ASSUME claims \in Seq(Texts), NEW all
    PROVE  Vote(all) \in Seq(Items)
<1>1. \A i : Winner(all, i) \in VerdictNames
  BY DEF Winner, VerdictNames
<1> QED
  <2>1. ASSUME NEW i \in 1..Len(claims)
        PROVE  [claim |-> claims[i], verdict |-> Winner(all, i)] \in Items
    BY <1>1, claims[i] \in Texts DEF Items
  <2> QED
    BY <2>1 DEF Vote

LEMMA NothingIsNoVote == NothingToVerify \notin Seq(Items) /\ NothingToVerify # <<>>
BY EvaluationAssumption DEF NothingToVerify, Items, EvaluationAssumption

LEMMA ScoreType ==
    ASSUME NEW verdicts \in Seq(Items), NEW isStrict \in BOOLEAN
    PROVE  Score(verdicts, isStrict) \in [num : Nat, den : Nat]
<1>1. /\ HowMany(verdicts, {"supported"}) \in Nat
      /\ HowMany(verdicts, {"supported", "unsupported"}) \in Nat
  BY HowManyType
<1> QED
  BY <1>1 DEF Score, NoScore

------------------------------------------------------------------------------
(***************************************************************************)
(* The cost of one question.                                               *)
(***************************************************************************)

LEMMA TimesMonotone ==
    ASSUME NEW x \in Nat, NEW y \in Nat, NEW z \in Nat, x <= y
    PROVE  x * z <= y * z
OBVIOUS

LEMMA TimesSuccessor ==
    ASSUME NEW x \in Nat \ {0}, NEW z \in Nat
    PROVE  (x - 1) * z + z = x * z
OBVIOUS

\* A question that is waiting has spent less than the two loops allow.
LEMMA Spent ==
    ASSUME CallAssumption, NEW x \in 1..MaxAttempts, NEW y \in 0..MaxRetries
    PROVE  (x - 1) * MaxRetries + y <= MaxRetries * MaxAttempts
<1>1. (x - 1) * MaxRetries + MaxRetries = x * MaxRetries
  BY TimesSuccessor DEF CallAssumption
<1>2. x * MaxRetries <= MaxAttempts * MaxRetries
  BY TimesMonotone DEF CallAssumption
<1>3. MaxAttempts * MaxRetries = MaxRetries * MaxAttempts
  BY DEF CallAssumption
<1>4. /\ x * MaxRetries \in Nat /\ (x - 1) * MaxRetries \in Nat
      /\ MaxAttempts * MaxRetries \in Nat /\ y \in Nat /\ y <= MaxRetries
  BY DEF CallAssumption
<1> QED
  BY <1>1, <1>2, <1>3, <1>4 DEF CallAssumption

LEMMA StartCallInv == StartCall => CallInv'
<1> SUFFICES ASSUME StartCall PROVE CallInv'
  OBVIOUS
<1>1. CallTypeOK' /\ attempt' >= 1
  BY CallAssumption DEF StartCall, CallTypeOK, CallAssumption
<1>2. (attempt' - 1) * MaxRetries + tries' <= MaxRetries * MaxAttempts
  BY CallAssumption, Spent DEF StartCall, CallAssumption
<1>3. posts' = 1 /\ (attempt' - 1) * MaxRetries + tries' = 1
  BY CallAssumption, (1 - 1) * MaxRetries = 0 DEF StartCall, CallAssumption
<1> QED
  BY <1>1, <1>2, <1>3 DEF CallInv, PostsBounded

LEMMA EndCallInv == EndCall => CallInv'
<1>1. MaxRetries * MaxAttempts >= 0
  BY CallAssumption DEF CallAssumption
<1> QED
  BY <1>1, CallAssumption DEF EndCall, CallInv, CallTypeOK, PostsBounded, CallAssumption

LEMMA CallStepInv == CallInv /\ CallStep => CallInv'
<1> SUFFICES ASSUME CallInv, CallStep PROVE CallInv'
  OBVIOUS
<1> USE CallAssumption DEF CallAssumption
<1>1. /\ call = "waiting" /\ attempt \in 1..MaxAttempts /\ tries \in 0..MaxRetries
      /\ posts \in Nat /\ posts <= (attempt - 1) * MaxRetries + tries
  BY DEF CallInv, CallTypeOK, PostsBounded, CallStep, Transient, Unusable,
         Invalid, Valid
<1>2. CASE call' # "waiting" /\ UNCHANGED <<attempt, tries, posts>>
           /\ call' \in {"failed", "answered"}
  BY <1>2 DEF CallInv, CallTypeOK, PostsBounded
<1>3. CASE Transient /\ call' = "waiting"
  <2>1. tries' = tries + 1 /\ posts' = posts + 1 /\ attempt' = attempt /\ tries < MaxRetries
    BY <1>1, <1>3 DEF Transient, MayRetry
  <2>2. (attempt' - 1) * MaxRetries = (attempt - 1) * MaxRetries
        /\ (attempt - 1) * MaxRetries \in Nat
    BY <1>1, <2>1
  <2>3. posts' <= (attempt' - 1) * MaxRetries + tries'
    BY <1>1, <2>1, <2>2
  <2>4. (attempt' - 1) * MaxRetries + tries' <= MaxRetries * MaxAttempts
    BY <1>1, <2>1, Spent
  <2>5. posts' <= MaxRetries * MaxAttempts
    BY <1>1, <2>1, <2>2, <2>3, <2>4
  <2> QED
    BY <1>1, <1>3, <2>1, <2>3, <2>5 DEF CallInv, CallTypeOK, PostsBounded
<1>4. CASE Invalid /\ call' = "waiting"
  <2>1. attempt' = attempt + 1 /\ posts' = posts + 1 /\ tries' = 1 /\ attempt < MaxAttempts
    BY <1>1, <1>4 DEF Invalid
  <2>2. (attempt - 1) * MaxRetries + MaxRetries = (attempt' - 1) * MaxRetries
        /\ (attempt - 1) * MaxRetries \in Nat
    BY <1>1, <2>1, TimesSuccessor
  <2>3. posts' <= (attempt' - 1) * MaxRetries + tries'
    BY <1>1, <2>1, <2>2
  <2>4. (attempt' - 1) * MaxRetries + tries' <= MaxRetries * MaxAttempts
    BY <1>1, <2>1, Spent
  <2>5. posts' <= MaxRetries * MaxAttempts
    BY <1>1, <2>1, <2>2, <2>3, <2>4
  <2> QED
    BY <1>1, <1>4, <2>1, <2>3, <2>5 DEF CallInv, CallTypeOK, PostsBounded
<1> QED
  BY <1>1, <1>2, <1>3, <1>4 DEF CallStep, Transient, Unusable, Invalid, Valid

------------------------------------------------------------------------------
(***************************************************************************)
(* The steps.                                                              *)
(***************************************************************************)

LEMMA InitIInv == Init => IInv
<1> SUFFICES ASSUME Init PROVE IInv
  OBVIOUS
<1> USE DEF Init, NoResult, NoScore
<1>1. CallInv
  BY CallAssumption DEF CallInit, CallInv, CallTypeOK, PostsBounded, CallAssumption
<1>2. TypeOK
  <2>1. NoResult \in Result /\ <<>> \in Seq(Items)
    BY DEF Result
  <2>2. at \in 1..(Len(metrics) + 1)
    BY EvaluationAssumption DEF EvaluationAssumption
  <2> QED
    BY <1>1, <2>1, <2>2 DEF TypeOK, CallInv, Stages
<1>3. RunsLineUp /\ InTurn /\ Untouched /\ Progress /\ VotedOnAll /\ Scored
  BY NothingIsNoVote
     DEF RunsLineUp, InTurn, Untouched, Progress, VotedOnAll, Scored, Faithful
<1> QED
  BY <1>1, <1>2, <1>3 DEF IInv

LEMMA AskType ==
    ASSUME TypeOK, NEW next \in Stages, Ask(next)
    PROVE  CallInv' /\ stage' = next /\ asks' \in Nat
BY StartCallInv DEF TypeOK, Ask

LEMMA MergeType ==
    ASSUME TypeOK, NEW field \in MetricNames,
           NEW value \in [num : Nat, den : Nat],
           NEW verdicts \in Seq(Items) \cup {NothingToVerify},
           Merge(field, value, verdicts), metrics' = metrics, at <= Len(metrics)
    PROVE  /\ CallInv' /\ stage' = "next" /\ asks' = asks
           /\ result' \in Result /\ result'.verdicts = verdicts
           /\ at' = at + 1 /\ at' \in 1..(Len(metrics') + 1)
           /\ result'.faithfulness = IF field = "faithfulness" THEN value
                                     ELSE result.faithfulness
<1>1. result \in Result /\ at \in 1..(Len(metrics) + 1) /\ Len(metrics) \in Nat
  BY EvaluationAssumption DEF TypeOK, EvaluationAssumption
<1> QED
  <2>1. /\ result' \in Result /\ result'.verdicts = verdicts
        /\ result'.faithfulness = IF field = "faithfulness" THEN value
                                  ELSE result.faithfulness
    BY <1>1 DEF Merge, Result, MetricNames
  <2>2. CallInv' /\ stage' = "next" /\ asks' = asks /\ at' = at + 1
    BY EndCallInv DEF Merge
  <2> QED
    BY <1>1, <2>1, <2>2

\* A metric that ends in its turn: the invariant for the next position.
LEMMA TurnOver ==
    ASSUME IInv, at' = at + 1, metrics' = metrics, at <= Len(metrics)
    PROVE  Ran' <=> (Ran \/ metrics[at] = "faithfulness")
<1>1. at \in Nat \ {0}
  BY DEF IInv, TypeOK
<1>2. 1..(at' - 1) = 1..(at - 1) \cup {at}
  BY <1>1
<1> QED
  BY <1>2 DEF Ran

LEMMA NextMetricKeeps == IInv /\ NextMetric => IInv'
<1> SUFFICES ASSUME IInv, NextMetric PROVE IInv'
  OBVIOUS
<1>1. /\ stage = "next" /\ UNCHANGED <<request, work>>
  BY DEF NextMetric
<1>2. Len(metrics) \in Nat /\ at \in 1..(Len(metrics) + 1) /\ metrics \in Seq(MetricNames)
  BY EvaluationAssumption DEF IInv, TypeOK, EvaluationAssumption
<1> USE DEF request, work
<1>3. CASE at > Len(metrics) /\ stage' = "done"
           /\ UNCHANGED <<callVars, at, result, asks>>
  <2> USE <1>1, <1>3 DEF callVars
  <2>1. TypeOK' /\ CallInv'
    BY DEF IInv, TypeOK, CallInv, CallTypeOK, PostsBounded, Stages
  <2>2. RunsLineUp' /\ InTurn' /\ Untouched' /\ Progress' /\ VotedOnAll' /\ Scored'
    BY DEF IInv, RunsLineUp, InTurn, Untouched, Progress, VotedOnAll, Scored, Faithful,
           Ran, Vote
  <2> QED
    BY <2>1, <2>2 DEF IInv
<1>4. CASE at <= Len(metrics) /\ Repeated /\ at' = at + 1
           /\ UNCHANGED <<callVars, stage, result, asks>>
  <2> USE <1>1, <1>4 DEF callVars
  <2>1. TypeOK' /\ CallInv'
    BY <1>2 DEF IInv, TypeOK, CallInv, CallTypeOK, PostsBounded, Stages
  <2>2. Ran' <=> Ran
    BY TurnOver DEF Repeated, Ran
  <2>3. RunsLineUp' /\ InTurn' /\ Untouched' /\ Progress' /\ VotedOnAll' /\ Scored'
    BY <2>2 DEF IInv, RunsLineUp, InTurn, Untouched, Progress, VotedOnAll, Scored,
                Faithful, Vote
  <2> QED
    BY <2>1, <2>3 DEF IInv
<1>5. CASE /\ at <= Len(metrics) /\ ~Repeated /\ blank
           /\ Merge(metrics[at], NoScore,
                    IF metrics[at] = "faithfulness" THEN NothingToVerify
                                                    ELSE result.verdicts)
  <2> DEFINE verdicts == IF metrics[at] = "faithfulness" THEN NothingToVerify
                                                         ELSE result.verdicts
  <2>1. /\ verdicts \in Seq(Items) \cup {NothingToVerify}
        /\ NoScore \in [num : Nat, den : Nat] /\ metrics[at] \in MetricNames
    BY <1>2, <1>5 DEF IInv, TypeOK, Result, NoScore
  <2> HIDE DEF verdicts
  <2>2. /\ CallInv' /\ stage' = "next" /\ asks' = asks
        /\ result' \in Result /\ result'.verdicts = verdicts
        /\ at' = at + 1 /\ at' \in 1..(Len(metrics') + 1)
        /\ result'.faithfulness = IF metrics[at] = "faithfulness" THEN NoScore
                                  ELSE result.faithfulness
    BY <1>1, <1>5, <2>1, MergeType DEF IInv, verdicts
  <2>3. TypeOK'
    BY <1>1, <2>2 DEF IInv, TypeOK, Stages, CallInv
  <2>4. Ran' <=> (Ran \/ metrics[at] = "faithfulness")
    BY <1>1, <1>5, <2>2, TurnOver
  <2>5. RunsLineUp' /\ InTurn' /\ Progress'
    BY <1>1, <2>2 DEF IInv, RunsLineUp, InTurn, Progress, Faithful
  <2>6. Untouched' /\ VotedOnAll' /\ Scored'
    BY <1>1, <2>2, <2>4, NothingIsNoVote
       DEF IInv, Untouched, VotedOnAll, Scored, Vote, verdicts
  <2> QED
    BY <2>2, <2>3, <2>5, <2>6 DEF IInv
<1>6. CASE /\ at <= Len(metrics) /\ ~Repeated /\ ~blank
           /\ Ask(IF metrics[at] = "faithfulness" THEN "extract" ELSE "generate")
           /\ UNCHANGED <<at, result>>
  <2>1. /\ CallInv' /\ asks' \in Nat
        /\ stage' = IF metrics[at] = "faithfulness" THEN "extract" ELSE "generate"
    BY <1>6, AskType DEF IInv, Stages
  <2>2. TypeOK'
    BY <1>1, <1>6, <2>1 DEF IInv, TypeOK, Stages, CallInv
  <2>3. RunsLineUp' /\ Progress' /\ VotedOnAll' /\ Scored'
    BY <1>1, <1>6, <2>1 DEF IInv, RunsLineUp, Progress, VotedOnAll, Scored, Vote
  <2>4. InTurn' /\ Untouched'
    BY <1>1, <1>6, <2>1 DEF IInv, InTurn, Untouched, Faithful, Ran, Repeated
  <2> QED
    BY <2>1, <2>2, <2>3, <2>4 DEF IInv
<1> QED
  BY <1>3, <1>4, <1>5, <1>6 DEF NextMetric

LEMMA AskingKeeps == IInv /\ Asking => IInv'
<1> SUFFICES ASSUME IInv, Asking PROVE IInv'
  OBVIOUS
<1> USE DEF Asking, request, work
<1>1. CallInv'
  BY CallStepInv DEF IInv
<1>2. TypeOK'
  BY <1>1 DEF IInv, TypeOK, CallInv
<1>3. RunsLineUp' /\ InTurn' /\ Untouched' /\ Progress' /\ VotedOnAll' /\ Scored'
  BY DEF IInv, RunsLineUp, InTurn, Untouched, Progress, VotedOnAll, Scored, Ran,
         Repeated, Vote
<1> QED
  BY <1>1, <1>2, <1>3 DEF IInv

LEMMA RaiseKeeps == IInv /\ Raise => IInv'
<1> SUFFICES ASSUME IInv, Raise PROVE IInv'
  OBVIOUS
<1> USE DEF Raise, request, work, NoResult, NoScore
<1>1. CallInv'
  BY EndCallInv
<1>2. result' \in Result /\ result'.verdicts = <<>>
  BY DEF Result
<1>3. TypeOK'
  BY <1>1, <1>2 DEF IInv, TypeOK, CallInv, Stages
<1>4. RunsLineUp' /\ InTurn' /\ Untouched' /\ Progress' /\ VotedOnAll' /\ Scored'
  BY <1>2 DEF IInv, RunsLineUp, InTurn, Untouched, Progress, VotedOnAll, Scored, Faithful
<1> QED
  BY <1>1, <1>3, <1>4 DEF IInv

\* The claims an extraction may return.
LEMMA ClaimsType ==
    ASSUME TypeOK, NEW c \in Extractions[k]
    PROVE  c \in Seq(Texts)
BY EvaluationAssumption DEF TypeOK, EvaluationAssumption

\* While claims are extracted nothing has been recorded.
LEMMA FreshExtraction ==
    ASSUME IInv, stage \in {"extract", "reextract"}
    PROVE  /\ start = 1 /\ run = <<>> /\ runs = <<>> /\ result.verdicts = <<>>
           /\ at <= Len(metrics) /\ metrics[at] = "faithfulness" /\ ~Repeated
BY DEF IInv, InTurn, Untouched, Faithful, Ran, Repeated

LEMMA ExtractedKeeps ==
    ASSUME IInv, NEW c \in Extractions[k], Extracted(c)
    PROVE  IInv'
<1> USE DEF request, work
<1>1. /\ stage = "extract" /\ claims' = c /\ c \in Seq(Texts)
      /\ UNCHANGED <<request, at, start, run, runs, result>>
  BY ClaimsType DEF IInv, Extracted, Answered
<1>2. /\ CallInv' /\ asks' \in Nat
      /\ stage' = IF c = <<>> THEN "reextract" ELSE "verify"
  BY AskType DEF IInv, Extracted, Stages
<1>3. TypeOK'
  BY <1>1, <1>2 DEF IInv, TypeOK, CallInv, Stages
<1>4. /\ start = 1 /\ run = <<>> /\ runs = <<>> /\ result.verdicts = <<>>
  BY <1>1, FreshExtraction
<1>5. RunsLineUp' /\ VotedOnAll' /\ Scored'
  BY <1>1, <1>4, NothingIsNoVote DEF RunsLineUp, VotedOnAll, Scored
<1>6. InTurn' /\ Untouched'
  BY <1>1, <1>2, <1>4 DEF IInv, InTurn, Untouched, Faithful, Repeated
<1>7. Progress'
  <2>1. c # <<>> => Len(c) >= 1
    BY <1>1
  <2>2. k \in Nat \ {0}
    BY EvaluationAssumption DEF IInv, TypeOK, EvaluationAssumption
  <2> QED
    BY <1>1, <1>2, <1>4, <2>1, <2>2 DEF Progress
<1> QED
  BY <1>2, <1>3, <1>5, <1>6, <1>7 DEF IInv

LEMMA ReextractedKeeps ==
    ASSUME IInv, NEW c \in Extractions[k], Reextracted(c)
    PROVE  IInv'
<1> USE DEF request, work
<1>1. /\ stage = "reextract" /\ claims' = c /\ c \in Seq(Texts)
      /\ UNCHANGED <<request, start, run, runs>>
  BY ClaimsType DEF IInv, Reextracted, Answered
<1>2. /\ start = 1 /\ run = <<>> /\ runs = <<>> /\ result.verdicts = <<>>
      /\ at <= Len(metrics) /\ metrics[at] = "faithfulness" /\ ~Repeated
  BY <1>1, FreshExtraction
<1>3. RunsLineUp'
  BY <1>1, <1>2 DEF RunsLineUp
<1>4. CASE c = <<>> /\ Merge("faithfulness", NoScore, NothingToVerify)
  <2>1. /\ CallInv' /\ stage' = "next" /\ asks' = asks
        /\ result' \in Result /\ result'.verdicts = NothingToVerify
        /\ result'.faithfulness = NoScore
        /\ at' = at + 1 /\ at' \in 1..(Len(metrics') + 1)
    BY <1>1, <1>2, <1>4, MergeType DEF IInv, NoScore, MetricNames
  <2>2. TypeOK'
    BY <1>1, <2>1 DEF IInv, TypeOK, CallInv, Stages
  <2>3. Ran'
    BY <1>1, <1>2, <2>1, TurnOver
  <2>4. InTurn' /\ Untouched' /\ Progress' /\ VotedOnAll' /\ Scored'
    BY <2>1, <2>3, NothingIsNoVote
       DEF InTurn, Untouched, Progress, VotedOnAll, Scored, Faithful
  <2> QED
    BY <1>3, <2>1, <2>2, <2>4 DEF IInv
<1>5. CASE c # <<>> /\ Ask("verify") /\ UNCHANGED <<at, result>>
  <2>1. CallInv' /\ asks' \in Nat /\ stage' = "verify"
    BY <1>5, AskType DEF IInv, Stages
  <2>2. TypeOK'
    BY <1>1, <1>5, <2>1 DEF IInv, TypeOK, CallInv, Stages
  <2>3. InTurn' /\ Untouched' /\ VotedOnAll' /\ Scored'
    BY <1>1, <1>2, <1>5, <2>1, NothingIsNoVote DEF InTurn, Untouched, VotedOnAll, Scored, Faithful,
                                  Repeated
  <2>4. Progress'
    <3>1. Len(c) >= 1
      BY <1>1, <1>5
    <3>2. k \in Nat \ {0}
      BY EvaluationAssumption DEF IInv, TypeOK, EvaluationAssumption
    <3> QED
      BY <1>1, <1>2, <1>5, <2>1, <3>1, <3>2 DEF Progress
  <2> QED
    BY <1>3, <2>1, <2>2, <2>3, <2>4 DEF IInv
<1> QED
  BY <1>4, <1>5 DEF Reextracted

LEMMA RecordKeeps ==
    ASSUME IInv, stage \in {"verify", "reverify"}, NEW items \in Replies,
           LinesUp(items), Record(items), UNCHANGED <<request, claims>>
    PROVE  IInv'
<1> USE DEF request
<1> DEFINE extended == run \o items
           finished == Append(runs, extended)
<1>1. /\ extended \in Seq(Items) /\ Len(extended) = BatchEnd
      /\ \A i \in DOMAIN extended : extended[i].claim = claims[i]
  BY Extended DEF IInv
<1>2. /\ start <= Len(claims) /\ Len(runs) < k /\ result.verdicts = <<>>
      /\ start \in Nat \ {0} /\ BatchSize \in Nat \ {0} /\ k \in Nat \ {0}
      /\ claims \in Seq(Texts) /\ runs \in Seq(Seq(Items))
  BY EvaluationAssumption DEF IInv, Progress, TypeOK, EvaluationAssumption
<1>3. /\ start + BatchSize <= Len(claims) => BatchEnd = start + BatchSize - 1
      /\ start + BatchSize > Len(claims) => BatchEnd = Len(claims)
  BY <1>2, BatchFacts DEF IInv
<1>4. at <= Len(metrics) /\ metrics[at] = "faithfulness" /\ ~Repeated
  BY DEF IInv, InTurn, Faithful
<1>5. finished \in Seq(Seq(Items)) /\ Len(finished) = Len(runs) + 1
  BY <1>1, <1>2
<1>6. start + BatchSize > Len(claims) =>
          \A r \in DOMAIN finished :
              /\ Len(finished[r]) = Len(claims)
              /\ \A i \in DOMAIN claims : finished[r][i].claim = claims[i]
  <2> SUFFICES ASSUME start + BatchSize > Len(claims), NEW r \in DOMAIN finished
               PROVE  /\ Len(finished[r]) = Len(claims)
                      /\ \A i \in DOMAIN claims : finished[r][i].claim = claims[i]
    OBVIOUS
  <2>1. CASE r = Len(runs) + 1
    <3>1. finished[r] = extended
      BY <1>1, <1>2, <2>1
    <3>2. Len(extended) = Len(claims) /\ DOMAIN extended = DOMAIN claims
      BY <1>1, <1>2, <1>3
    <3> QED
      BY <1>1, <3>1, <3>2
  <2>2. CASE r \in DOMAIN runs
    <3>1. finished[r] = runs[r]
      BY <1>1, <1>2, <2>2
    <3> QED
      BY <2>2, <3>1 DEF IInv, RunsLineUp
  <2> QED
    BY <1>2, <1>5, <2>1, <2>2
<1> HIDE DEF finished, extended
<1>7. CASE /\ start + BatchSize <= Len(claims)
           /\ start' = start + BatchSize /\ run' = extended
           /\ Ask("verify") /\ UNCHANGED <<runs, at, result>>
  <2>1. CallInv' /\ asks' \in Nat /\ stage' = "verify"
    BY <1>7, AskType DEF IInv, Stages
  <2>2. TypeOK'
    BY <1>1, <1>2, <1>7, <2>1 DEF IInv, TypeOK, CallInv, Stages
  <2>3. RunsLineUp'
    <3>1. \A i \in DOMAIN run' : i < start' /\ run'[i].claim = claims'[i]
      BY <1>1, <1>2, <1>3, <1>7
    <3> QED
      BY <1>7, <3>1 DEF IInv, RunsLineUp
  <2>4. Progress'
    BY <1>1, <1>2, <1>3, <1>7, <2>1 DEF Progress
  <2>5. InTurn' /\ Untouched' /\ VotedOnAll' /\ Scored'
    BY <1>2, <1>4, <1>7, <2>1, NothingIsNoVote DEF InTurn, Untouched, VotedOnAll, Scored, Faithful, Repeated
  <2> QED
    BY <2>1, <2>2, <2>3, <2>4, <2>5 DEF IInv
<1>8. CASE /\ start + BatchSize > Len(claims)
           /\ start' = 1 /\ run' = <<>> /\ runs' = finished
           /\ MoreRuns(finished)
           /\ Ask("verify") /\ UNCHANGED <<at, result>>
  <2>1. CallInv' /\ asks' \in Nat /\ stage' = "verify"
    BY <1>8, AskType DEF IInv, Stages
  <2>2. TypeOK'
    BY <1>5, <1>8, <2>1 DEF IInv, TypeOK, CallInv, Stages
  <2>3. RunsLineUp'
    BY <1>6, <1>8 DEF RunsLineUp
  <2>4. Progress'
    BY <1>2, <1>8, <2>1 DEF Progress, MoreRuns
  <2>5. InTurn' /\ Untouched' /\ VotedOnAll' /\ Scored'
    BY <1>2, <1>4, <1>8, <2>1, NothingIsNoVote DEF InTurn, Untouched, VotedOnAll, Scored, Faithful, Repeated
  <2> QED
    BY <2>1, <2>2, <2>3, <2>4, <2>5 DEF IInv
<1>9. CASE /\ start + BatchSize > Len(claims)
           /\ start' = 1 /\ run' = <<>> /\ runs' = finished
           /\ ~MoreRuns(finished)
           /\ Merge("faithfulness", Score(Vote(finished), strict), Vote(finished))
  <2>1. /\ Vote(finished) \in Seq(Items)
        /\ Score(Vote(finished), strict) \in [num : Nat, den : Nat]
    BY <1>2, VoteType, ScoreType DEF IInv, TypeOK
  <2>2. /\ CallInv' /\ stage' = "next" /\ asks' = asks
        /\ result' \in Result /\ result'.verdicts = Vote(finished)
        /\ result'.faithfulness = Score(Vote(finished), strict)
        /\ at' = at + 1 /\ at' \in 1..(Len(metrics') + 1)
    BY <1>4, <1>9, <2>1, MergeType DEF IInv, MetricNames
  <2>3. TypeOK'
    BY <1>5, <1>9, <2>2 DEF IInv, TypeOK, CallInv, Stages
  <2>4. Ran'
    BY <1>4, <2>2, TurnOver
  <2>5. RunsLineUp'
    BY <1>6, <1>9 DEF RunsLineUp
  <2>6. Len(runs') = k'
    BY <1>2, <1>5, <1>9 DEF MoreRuns
  <2>7. VotedOnAll' /\ Scored'
    <3>1. Vote(runs') = Vote(finished) /\ Vote(runs)' = Vote(finished)
      BY <1>9 DEF Vote, Winner, Leaders, Count
    <3> QED
      BY <1>9, <2>1, <2>2, <2>6, <3>1, NothingIsNoVote
         DEF VotedOnAll, Scored
  <2>8. InTurn' /\ Untouched' /\ Progress'
    BY <2>2, <2>4 DEF InTurn, Untouched, Progress, Faithful
  <2> QED
    BY <2>2, <2>3, <2>5, <2>7, <2>8 DEF IInv
<1> QED
  BY <1>7, <1>8, <1>9 DEF Record, finished, extended

LEMMA VerifiedKeeps ==
    ASSUME IInv, NEW items \in Replies, Verified(items)
    PROVE  IInv'
<1>1. stage = "verify"
  BY DEF Verified, Answered
<1>2. CASE LinesUp(items) /\ Record(items) /\ UNCHANGED <<request, claims>>
  BY <1>1, <1>2, RecordKeeps
<1>3. CASE Ask("reverify") /\ UNCHANGED <<request, at, work, result>>
  <2> USE <1>3 DEF request, work
  <2>1. CallInv' /\ asks' \in Nat /\ stage' = "reverify"
    BY AskType DEF IInv, Stages
  <2>2. TypeOK'
    BY <2>1 DEF IInv, TypeOK, CallInv, Stages
  <2>3. Progress' /\ InTurn' /\ Untouched'
    BY <1>1, <2>1 DEF IInv, Progress, InTurn, Untouched, Faithful, Repeated
  <2>4. RunsLineUp' /\ VotedOnAll' /\ Scored'
    BY DEF IInv, RunsLineUp, VotedOnAll, Vote, Scored
  <2> QED
    BY <2>1, <2>2, <2>3, <2>4 DEF IInv
<1> QED
  BY <1>2, <1>3 DEF Verified

LEMMA ReverifiedKeeps ==
    ASSUME IInv, NEW items \in Replies, Reverified(items)
    PROVE  IInv'
<1>1. stage = "reverify"
  BY DEF Reverified, Answered
<1> QED
  BY <1>1, RecordKeeps, RaiseKeeps DEF Reverified

LEMMA GeneratedKeeps == IInv /\ Generated => IInv'
<1> SUFFICES ASSUME IInv, Generated PROVE IInv'
  OBVIOUS
<1> USE DEF request, work
<1>1. /\ stage = "generate" /\ UNCHANGED <<request, at, work, result>>
  BY DEF Generated, Answered
<1>2. CallInv' /\ asks' \in Nat /\ stage' = "rate"
  BY AskType DEF IInv, Generated, Stages
<1>3. TypeOK'
  BY <1>1, <1>2 DEF IInv, TypeOK, CallInv, Stages
<1>4. Progress' /\ InTurn' /\ Untouched'
  BY <1>1, <1>2 DEF IInv, Progress, InTurn, Untouched, Faithful, Repeated, Ran
<1>5. RunsLineUp' /\ VotedOnAll' /\ Scored'
  BY <1>1 DEF IInv, RunsLineUp, VotedOnAll, Vote, Scored
<1> QED
  BY <1>2, <1>3, <1>4, <1>5 DEF IInv

LEMMA RatedKeeps ==
    ASSUME IInv, NEW points \in 0..(2 * QuestionCount), Rated(points)
    PROVE  IInv'
<1> USE DEF request, work
<1>1. /\ stage = "rate" /\ UNCHANGED <<request, work>>
      /\ at <= Len(metrics) /\ metrics[at] # "faithfulness"
  BY DEF IInv, Rated, Answered, InTurn
<1>2. /\ [num |-> points, den |-> 2 * QuestionCount] \in [num : Nat, den : Nat]
      /\ result.verdicts \in Seq(Items) \cup {NothingToVerify}
  BY EvaluationAssumption DEF IInv, TypeOK, Result, EvaluationAssumption
<1>3. /\ CallInv' /\ stage' = "next" /\ asks' = asks
      /\ result' \in Result /\ result'.verdicts = result.verdicts
      /\ at' = at + 1 /\ at' \in 1..(Len(metrics') + 1)
  BY <1>1, <1>2, MergeType DEF IInv, Rated, MetricNames
<1>4. TypeOK'
  BY <1>1, <1>3 DEF IInv, TypeOK, CallInv, Stages
<1>5. Ran' <=> Ran
  BY <1>1, <1>3, TurnOver
<1>6. Progress' /\ InTurn' /\ Untouched'
  BY <1>1, <1>3, <1>5 DEF IInv, Progress, InTurn, Untouched, Faithful
<1>7. result'.faithfulness = result.faithfulness
  BY DEF IInv, TypeOK, Result, Rated, Merge
<1>8. RunsLineUp' /\ VotedOnAll' /\ Scored'
  BY <1>1, <1>3, <1>7 DEF IInv, RunsLineUp, VotedOnAll, Vote, Scored
<1> QED
  BY <1>3, <1>4, <1>6, <1>8 DEF IInv

LEMMA NextIInv == IInv /\ [Next]_vars => IInv'
<1> SUFFICES ASSUME IInv, [Next]_vars PROVE IInv'
  OBVIOUS
<1>1. CASE NextMetric
  BY <1>1, NextMetricKeeps
<1>2. CASE Asking
  BY <1>2, AskingKeeps
<1>3. CASE CallFailed
  BY <1>3, RaiseKeeps DEF CallFailed
<1>4. CASE \E c \in Extractions[k] : Extracted(c) \/ Reextracted(c)
  BY <1>4, ExtractedKeeps, ReextractedKeeps
<1>5. CASE \E items \in Replies : Verified(items) \/ Reverified(items)
  BY <1>5, VerifiedKeeps, ReverifiedKeeps
<1>6. CASE Generated
  BY <1>6, GeneratedKeeps
<1>7. CASE \E points \in 0..(2 * QuestionCount) : Rated(points)
  BY <1>7, RatedKeeps
<1>8. CASE UNCHANGED vars
  <2> USE <1>8 DEF vars, callVars, request, work
  <2>1. TypeOK' /\ CallInv'
    BY DEF IInv, TypeOK, CallInv, CallTypeOK, PostsBounded
  <2>2. Progress' /\ InTurn' /\ Untouched' /\ RunsLineUp' /\ VotedOnAll' /\ Scored'
    BY DEF IInv, RunsLineUp, VotedOnAll, Vote, Progress, InTurn, Untouched,
           Faithful, Repeated, Ran, Scored
  <2> QED
    BY <2>1, <2>2 DEF IInv
<1> QED
  BY <1>1, <1>2, <1>3, <1>4, <1>5, <1>6, <1>7, <1>8 DEF Next

\* The inductive invariant holds in every state of an evaluation.
THEOREM Inductive == Spec => []IInv
<1> QED
  BY InitIInv, NextIInv, PTL DEF Spec

------------------------------------------------------------------------------
(***************************************************************************)
(* The results.                                                            *)
(***************************************************************************)

\* Every variable keeps its type, whatever the judge answers.
THEOREM TypeCorrect == Spec => []TypeOK
<1>1. IInv => TypeOK
  BY DEF IInv
<1> QED
  BY <1>1, Inductive, PTL

\* generate_json and complete: a question costs at most MaxRetries POSTs for
\* each of at most MaxAttempts completions.
THEOREM QuestionBudget == Spec => []PostsBounded
<1>1. IInv => PostsBounded
  BY DEF IInv, CallInv
<1> QED
  BY <1>1, Inductive, PTL

\* _verify_batch and _verify_claims: no verdict is attached to another claim,
\* over batches, second requests and runs.
THEOREM Alignment == Spec => []RunsLineUp
<1>1. IInv => RunsLineUp
  BY DEF IInv
<1> QED
  BY <1>1, Inductive, PTL

\* A decided verdict wins exactly when it leads all others.
LEMMA WinnerLeads ==
    ASSUME NEW all, NEW i, IsFiniteSet(DOMAIN all),
           NEW v \in {"supported", "unsupported"}
    PROVE  (\A u \in VerdictNames \ {v} : Count(all, i, u) < Count(all, i, v))
               <=> Winner(all, i) = v
<1> DEFINE n(u) == Count(all, i, u)
<1>1. \A u : n(u) \in Nat
  BY CountType
<1>2. Leaders(all, i) =
          {w \in VerdictNames : \A u \in VerdictNames : n(u) <= n(w)}
  BY DEF Leaders
<1>3. v \in VerdictNames /\ v # "uncertain"
  BY DEF VerdictNames
<1> HIDE DEF n
<1>4. ASSUME \A u \in VerdictNames \ {v} : n(u) < n(v)
      PROVE  Winner(all, i) = v
  <2>1. \A u \in VerdictNames : n(u) <= n(v)
    BY <1>1, <1>4
  <2>2. \A w \in VerdictNames \ {v} : ~(n(v) <= n(w))
    BY <1>1, <1>4
  <2>3. Leaders(all, i) = {v}
    BY <1>2, <1>3, <2>1, <2>2
  <2> QED
    BY <1>3, <2>3 DEF Winner
<1>5. ASSUME Winner(all, i) = v, NEW u \in VerdictNames \ {v}
      PROVE  n(u) < n(v)
  <2>1. PICK w \in VerdictNames : Leaders(all, i) = {w}
    BY <1>3, <1>5 DEF Winner
  <2>2. w = v
    BY <1>5, <2>1 DEF Winner
  <2>3. \A x \in VerdictNames : n(x) <= n(v)
    BY <1>2, <2>1, <2>2
  <2>4. ~(\A x \in VerdictNames : n(x) <= n(u))
    BY <1>2, <2>1, <2>2
  <2>5. PICK x \in VerdictNames : ~(n(x) <= n(u))
    BY <2>4
  <2> QED
    BY <1>1, <2>3, <2>5
<1> QED
  BY <1>4, <1>5 DEF n

\* _verify_claims: the verdict of a claim is the one most runs gave it, and
\* "uncertain" when none leads, in whatever order the runs came.
THEOREM FairVote == Spec => []VerdictsArePlural
<1>1. IInv => VerdictsArePlural
  <2> SUFFICES ASSUME IInv, result.verdicts \notin {<<>>, NothingToVerify},
                      NEW i \in DOMAIN result.verdicts,
                      NEW v \in {"supported", "unsupported"}
               PROVE  (\A u \in VerdictNames \ {v} :
                           Cardinality({r \in 1..k : runs[r][i].verdict = u})
                               < Cardinality({r \in 1..k : runs[r][i].verdict = v}))
                          <=> result.verdicts[i].verdict = v
    BY DEF VerdictsArePlural
  <2>1. Len(runs) = k /\ result.verdicts = Vote(runs)
    BY DEF IInv, VotedOnAll
  <2>2. DOMAIN runs = 1..k /\ k \in Nat
    BY <2>1 DEF IInv, TypeOK
  <2>3. IsFiniteSet(DOMAIN runs)
    BY <2>2, FS_Interval
  <2>4. result.verdicts[i].verdict = Winner(runs, i)
    BY <2>1 DEF Vote
  <2> DEFINE n(u) == Cardinality({r \in 1..k : runs[r][i].verdict = u})
  <2>5. \A u : n(u) = Count(runs, i, u)
    BY <2>2 DEF Count
  <2>6. (\A u \in VerdictNames \ {v} : Count(runs, i, u) < Count(runs, i, v))
            <=> Winner(runs, i) = v
    BY <2>3, WinnerLeads
  <2> HIDE DEF n
  <2>7. (\A u \in VerdictNames \ {v} : n(u) < n(v)) <=> result.verdicts[i].verdict = v
    BY <2>4, <2>5, <2>6
  <2> QED
    BY <2>7 DEF n
<1> QED
  BY <1>1, Inductive, PTL

\* The counts a score is made of: supported within decided within all claims,
\* and equal counts only of equal sets.
LEMMA Counts ==
    ASSUME NEW verdicts \in Seq(Items), verdicts # <<>>
    PROVE  LET supported == HowMany(verdicts, {"supported"})
               decided == HowMany(verdicts, {"supported", "unsupported"})
           IN  /\ supported \in Nat /\ decided \in Nat
               /\ supported <= decided /\ decided <= Len(verdicts)
               /\ Len(verdicts) \in Nat \ {0}
               /\ decided = 0 =>
                      \A i \in DOMAIN verdicts : verdicts[i].verdict = "uncertain"
               /\ supported = decided <=>
                      \A i \in DOMAIN verdicts : verdicts[i].verdict # "unsupported"
<1> DEFINE S == {i \in DOMAIN verdicts : verdicts[i].verdict \in {"supported"}}
           D == {i \in DOMAIN verdicts :
                    verdicts[i].verdict \in {"supported", "unsupported"}}
<1>1. IsFiniteSet(D) /\ IsFiniteSet(S) /\ S \subseteq D
  <2>1. Len(verdicts) \in Nat /\ DOMAIN verdicts = 1..Len(verdicts)
    OBVIOUS
  <2>2. IsFiniteSet(DOMAIN verdicts)
    BY <2>1, FS_Interval
  <2> QED
    BY <2>2, FS_Subset
<1>2. /\ Cardinality(S) \in Nat /\ Cardinality(D) \in Nat
      /\ Cardinality(S) <= Cardinality(D)
      /\ Cardinality(S) = Cardinality(D) => S = D
  BY <1>1, FS_Subset, FS_CardinalityType
<1>3. Cardinality(D) \in 0..Len(verdicts)
  BY HowManyType DEF HowMany
<1>4. Cardinality(D) = 0 => D = {}
  BY <1>1, FS_EmptySet
<1>5. \A i \in DOMAIN verdicts :
          verdicts[i].verdict \in {"supported", "unsupported", "uncertain"}
  <2>1. \A i \in DOMAIN verdicts : verdicts[i] \in Items
    OBVIOUS
  <2> QED
    BY <2>1 DEF Items, VerdictNames
<1>6. Cardinality(D) = 0 =>
          \A i \in DOMAIN verdicts : verdicts[i].verdict = "uncertain"
  BY <1>4, <1>5
<1>7. S = D <=> \A i \in DOMAIN verdicts : verdicts[i].verdict # "unsupported"
  BY <1>5
<1>8. Len(verdicts) \in Nat \ {0}
  OBVIOUS
<1>9. /\ HowMany(verdicts, {"supported"}) = Cardinality(S)
      /\ HowMany(verdicts, {"supported", "unsupported"}) = Cardinality(D)
  BY DEF HowMany
<1>10. Cardinality(S) = Cardinality(D) <=>
           \A i \in DOMAIN verdicts : verdicts[i].verdict # "unsupported"
  BY <1>2, <1>7
<1> HIDE DEF S, D
<1> QED
  BY <1>2, <1>3, <1>6, <1>8, <1>9, <1>10

\* _score: a score is a share of the claims, 1 only when nothing was found
\* unsupported, missing only when nothing was decided, and the strict rule is
\* never the kinder one.
THEOREM FairScore == Spec => []ScoreIsAShare
<1>1. IInv => ScoreIsAShare
  <2> SUFFICES ASSUME IInv, result.verdicts # <<>> PROVE ScoreIsAShare
    BY DEF ScoreIsAShare
  <2> DEFINE verdicts == result.verdicts
             f == result.faithfulness
             supported == HowMany(verdicts, {"supported"})
             decided == HowMany(verdicts, {"supported", "unsupported"})
  <2>1. CASE verdicts = NothingToVerify
    <3>1. f = NoScore
      BY <2>1 DEF IInv, Scored
    <3>2. \A i \in DOMAIN verdicts : verdicts[i].verdict = "uncertain"
      BY <2>1 DEF NothingToVerify
    <3>3. DOMAIN verdicts = {1} /\ Len(verdicts) = 1
      BY <2>1 DEF NothingToVerify
    <3>4. supported = 0 /\ decided = 0
      <4>1. \A names \in SUBSET {"supported", "unsupported"} :
                {i \in DOMAIN verdicts : verdicts[i].verdict \in names} = {}
        BY <3>2
      <4> QED
        BY <4>1, FS_EmptySet DEF HowMany
    <3> QED
      BY <3>1, <3>2, <3>3, <3>4 DEF ScoreIsAShare, Score, NoScore
  <2>2. CASE verdicts # NothingToVerify
    <3>1. verdicts \in Seq(Items) /\ f = Score(verdicts, strict)
          /\ strict \in BOOLEAN
      BY <2>2 DEF IInv, Scored, TypeOK
    <3>2. /\ supported \in Nat /\ decided \in Nat
          /\ supported <= decided /\ decided <= Len(verdicts)
          /\ Len(verdicts) \in Nat \ {0}
          /\ decided = 0 =>
                 \A i \in DOMAIN verdicts : verdicts[i].verdict = "uncertain"
          /\ supported = decided <=>
                 \A i \in DOMAIN verdicts : verdicts[i].verdict # "unsupported"
      BY <3>1, Counts
    <3>3. supported * decided <= supported * Len(verdicts)
      <4>1. decided * supported <= Len(verdicts) * supported
        BY <3>2, TimesMonotone
      <4> QED
        BY <3>2, <4>1
    <3>4. /\ Score(verdicts, TRUE) = [num |-> supported, den |-> Len(verdicts)]
          /\ Score(verdicts, FALSE) = IF decided = 0 THEN NoScore
                ELSE [num |-> supported, den |-> decided]
      BY DEF Score
    <3> HIDE DEF supported, decided, verdicts, f
    <3>8. \/ /\ f = NoScore /\ decided = 0 /\ f.num = 0 /\ f.den = 0 /\ ~strict
          \/ /\ f # NoScore /\ f.num = supported
             /\ f.den = IF strict THEN Len(verdicts) ELSE decided
      <4>1. CASE strict
        <5>1. f = [num |-> supported, den |-> Len(verdicts)]
          BY <3>1, <3>4, <4>1
        <5>2. f.num = supported /\ f.den = Len(verdicts) /\ f.den # 0
          BY <3>2, <5>1
        <5> QED
          BY <4>1, <5>2 DEF NoScore
      <4>2. CASE ~strict /\ decided = 0
        <5>1. f = NoScore
          BY <3>1, <3>4, <4>2
        <5> QED
          BY <4>2, <5>1 DEF NoScore
      <4>3. CASE ~strict /\ decided # 0
        <5>1. f = [num |-> supported, den |-> decided]
          BY <3>1, <3>4, <4>3
        <5>2. f.num = supported /\ f.den = decided /\ f.den # 0
          BY <4>3, <5>1
        <5> QED
          BY <4>3, <5>2 DEF NoScore
      <4> QED
        BY <3>1, <4>1, <4>2, <4>3
    <3>9. Len(verdicts) = supported => decided = supported
      BY <3>2
    <3>5. /\ f.num <= f.den
          /\ f = NoScore =>
                 \A i \in DOMAIN verdicts : verdicts[i].verdict = "uncertain"
          /\ (f # NoScore /\ f.num = f.den) =>
                 \A i \in DOMAIN verdicts : verdicts[i].verdict # "unsupported"
      BY <3>1, <3>2, <3>8, <3>9
    <3>6. LET hard == Score(verdicts, TRUE)
              soft == Score(verdicts, FALSE)
          IN soft # NoScore => hard.num * soft.den <= soft.num * hard.den
      <4> DEFINE hard == Score(verdicts, TRUE)
                 soft == Score(verdicts, FALSE)
      <4>1. hard = [num |-> supported, den |-> Len(verdicts)]
        BY <3>4
      <4>2. soft # NoScore => soft = [num |-> supported, den |-> decided]
        BY <3>4
      <4> HIDE DEF hard, soft
      <4>3. soft # NoScore => hard.num * soft.den <= soft.num * hard.den
        BY <3>3, <4>1, <4>2
      <4> QED
        BY <4>3 DEF hard, soft
    <3>7. (\A i \in DOMAIN verdicts : verdicts[i].verdict # "unsupported") =>
              strict \/ f = NoScore \/ f.num = f.den
      BY <3>2, <3>8
    <3> QED
      BY <2>2, <3>5, <3>6, <3>7 DEF ScoreIsAShare, verdicts, f
  <2> QED
    BY <2>1, <2>2
<1> QED
  BY <1>1, Inductive, PTL

------------------------------------------------------------------------------
(***************************************************************************)
(* The number of questions. It is counted against the metric that asked    *)
(* them: relevance asks two, and faithfulness up to two for its claims and *)
(* up to two for every batch it has come to.                               *)
(***************************************************************************)

\* Relevance has been selected before the current position.
RanRelevance == \E j \in 1..(at - 1) : metrics[j] = "relevance"

BatchCount == (Len(claims) + BatchSize - 1) \div BatchSize

RelevanceAsks ==
    IF RanRelevance \/ stage = "rate" THEN 2
    ELSE IF stage = "generate" THEN 1 ELSE 0

\* b batches of the current run are verified.
FaithfulnessAsks(b) ==
    IF Ran THEN 2 + 2 * (k * BatchCount)
    ELSE IF stage = "extract" THEN 1
    ELSE IF stage = "reextract" THEN 2
    ELSE IF stage = "verify" THEN 3 + 2 * (Len(runs) * BatchCount + b)
    ELSE IF stage = "reverify" THEN 4 + 2 * (Len(runs) * BatchCount + b)
    ELSE 0

CostInv ==
    /\ \E b \in Nat :
          /\ start = b * BatchSize + 1
          /\ stage # "failed" => asks <= RelevanceAsks + FaithfulnessAsks(b)
    /\ stage = "failed" => AsksBounded

\* The batches of size m cover n claims, so one that starts is one of them.
LEMMA BatchesCover ==
    ASSUME NEW n \in Nat, NEW m \in Nat \ {0}, NEW b \in Nat, b * m < n
    PROVE  /\ (n + m - 1) \div m \in Nat
           /\ b + 1 <= (n + m - 1) \div m
<1> DEFINE x == n + m - 1
           q == x \div m
<1>1. x \in Nat
  OBVIOUS
<1> HIDE DEF x
<1>2. q \in Nat /\ x - (m - 1) <= m * q
  <2>1. q \in Nat
    BY <1>1
  <2>2. x - (m - 1) <= m * q
    BY <1>1
  <2> QED
    BY <2>1, <2>2
<1>3. m * q >= n
  <2>1. m * q \in Nat
    BY <1>2
  <2> QED
    BY <1>2, <2>1 DEF x
<1> HIDE DEF q
<1>4. q >= b + 1
  <2> SUFFICES ASSUME q <= b PROVE FALSE
    BY <1>2
  <2>1. q * m <= b * m
    BY <1>2, TimesMonotone
  <2>2. q * m = m * q /\ q * m \in Nat /\ b * m \in Nat
    BY <1>2
  <2> QED
    BY <1>3, <2>1, <2>2
<1> QED
  BY <1>2, <1>4 DEF x, q

LEMMA CeilingType ==
    ASSUME NEW n \in Nat, NEW m \in Nat \ {0}
    PROVE  (n + m - 1) \div m \in Nat
<1>1. n + m - 1 \in Nat
  OBVIOUS
<1> QED
  BY <1>1

LEMMA BatchCountType == IInv => BatchCount \in Nat
<1> SUFFICES ASSUME IInv PROVE BatchCount \in Nat
  OBVIOUS
<1>1. Len(claims) + BatchSize - 1 \in Nat /\ BatchSize \in Nat \ {0}
  BY EvaluationAssumption DEF IInv, TypeOK, EvaluationAssumption
<1> QED
  BY <1>1 DEF BatchCount

\* While verifying, the current batch and those of the finished runs are among
\* the batches of all runs.
LEMMA BatchesLeft ==
    ASSUME IInv, stage \in {"verify", "reverify"},
           NEW b \in Nat, start = b * BatchSize + 1
    PROVE  /\ b + 1 <= BatchCount
           /\ Len(runs) * BatchCount \in Nat
           /\ Len(runs) * BatchCount + BatchCount <= k * BatchCount
           /\ (Len(runs) + 1) * BatchCount = Len(runs) * BatchCount + BatchCount
<1>1. /\ start <= Len(claims) /\ Len(runs) < k
      /\ BatchSize \in Nat \ {0} /\ k \in Nat /\ Len(runs) \in Nat
      /\ Len(claims) \in Nat
  BY EvaluationAssumption DEF IInv, Progress, TypeOK, EvaluationAssumption
<1>2. b * BatchSize < Len(claims)
  <2>1. b * BatchSize \in Nat
    BY <1>1
  <2> QED
    BY <1>1, <2>1
<1>3. b + 1 <= BatchCount
  BY <1>1, <1>2, BatchesCover DEF BatchCount
<1>4. BatchCount \in Nat
  BY BatchCountType
<1>5. (Len(runs) + 1) * BatchCount = Len(runs) * BatchCount + BatchCount
      /\ Len(runs) * BatchCount \in Nat
  BY <1>1, <1>4
<1>6. (Len(runs) + 1) * BatchCount <= k * BatchCount
  BY <1>1, <1>4, TimesMonotone
<1> QED
  BY <1>3, <1>5, <1>6

\* The invariant bounds the number of questions.
LEMMA CostImplies == IInv /\ CostInv => AsksBounded
<1> SUFFICES ASSUME IInv, CostInv PROVE AsksBounded
  OBVIOUS
<1>1. CASE stage = "failed"
  BY <1>1 DEF CostInv
<1>2. CASE stage # "failed"
  <2>1. PICK b \in Nat : /\ start = b * BatchSize + 1
                         /\ asks <= RelevanceAsks + FaithfulnessAsks(b)
    BY <1>2 DEF CostInv
  <2>2. BatchCount \in Nat /\ k \in Nat /\ asks \in Nat
    BY BatchCountType, EvaluationAssumption DEF IInv, TypeOK, EvaluationAssumption
  <2>3. k * BatchCount \in Nat
    BY <2>2
  <2>4. FaithfulnessAsks(b) \in Nat /\ FaithfulnessAsks(b) <= 2 + 2 * (k * BatchCount)
    <3>1. CASE ~Ran /\ stage \in {"verify", "reverify"}
      BY <2>1, <2>2, <2>3, <3>1, BatchesLeft DEF FaithfulnessAsks
    <3>2. CASE Ran \/ stage \notin {"verify", "reverify"}
      BY <2>3, <3>2 DEF FaithfulnessAsks
    <3> QED
      BY <3>1, <3>2
  <2>5. RelevanceAsks \in 0..2
    BY DEF RelevanceAsks
  <2>6. asks <= 4 + 2 * (k * BatchCount)
    BY <2>1, <2>2, <2>3, <2>4, <2>5
  <2>7. 2 * k * BatchCount = 2 * (k * BatchCount)
    BY <2>2
  <2> QED
    BY <2>6, <2>7 DEF AsksBounded, BatchCount
<1> QED
  BY <1>1, <1>2

LEMMA InitCost == Init => CostInv
<1> SUFFICES ASSUME Init PROVE CostInv
  OBVIOUS
<1>1. start = 0 * BatchSize + 1
  BY EvaluationAssumption DEF Init, EvaluationAssumption
<1>2. ~Ran /\ ~RanRelevance
  BY DEF Init, Ran, RanRelevance
<1> QED
  BY <1>1, <1>2 DEF Init, CostInv, RelevanceAsks, FaithfulnessAsks

\* The steps. What a question of the metric in turn costs is counted when it
\* is asked.
LEMMA NextMetricCost == IInv /\ CostInv /\ NextMetric => CostInv'
<1> SUFFICES ASSUME IInv, CostInv, NextMetric PROVE CostInv'
  OBVIOUS
<1>1. stage = "next" /\ UNCHANGED <<request, work>>
  BY DEF NextMetric
<1> USE DEF request, work
<1>2. PICK b \in Nat : /\ start = b * BatchSize + 1
                       /\ asks <= RelevanceAsks + FaithfulnessAsks(b)
  BY <1>1 DEF CostInv
<1>3. at \in Nat \ {0} /\ asks \in Nat /\ k * BatchCount \in Nat
  BY BatchCountType, EvaluationAssumption DEF IInv, TypeOK, EvaluationAssumption
<1>4. (k * BatchCount)' = k * BatchCount /\ start' = start
  BY <1>1 DEF BatchCount
<1>5. RelevanceAsks = IF RanRelevance THEN 2 ELSE 0
  BY <1>1 DEF RelevanceAsks
<1>6. FaithfulnessAsks(b) = IF Ran THEN 2 + 2 * (k * BatchCount) ELSE 0
  BY <1>1 DEF FaithfulnessAsks
<1>7. CASE UNCHANGED <<at, asks>> /\ stage' = "done"
  <2>1. Ran' = Ran /\ RanRelevance' = RanRelevance
    BY <1>1, <1>7 DEF Ran, RanRelevance
  <2>2. RelevanceAsks' = RelevanceAsks /\ FaithfulnessAsks(b)' = FaithfulnessAsks(b)
    BY <1>4, <1>5, <1>6, <1>7, <2>1 DEF RelevanceAsks, FaithfulnessAsks
  <2> QED
    BY <1>2, <1>4, <1>7, <2>2 DEF CostInv
<1>8. CASE /\ at <= Len(metrics) /\ at' = at + 1 /\ asks' = asks
           /\ stage' = "next"
  <2>1. (Ran => Ran') /\ (RanRelevance => RanRelevance')
    BY <1>1, <1>3, <1>8 DEF Ran, RanRelevance
  <2>2. RelevanceAsks' = IF RanRelevance' THEN 2 ELSE 0
    BY <1>8 DEF RelevanceAsks
  <2>3. FaithfulnessAsks(b)' = IF Ran' THEN 2 + 2 * (k * BatchCount) ELSE 0
    BY <1>4, <1>8 DEF FaithfulnessAsks
  <2>4. asks' <= RelevanceAsks' + FaithfulnessAsks(b)'
    BY <1>2, <1>3, <1>5, <1>6, <1>8, <2>1, <2>2, <2>3
  <2> QED
    BY <1>2, <1>4, <1>8, <2>4 DEF CostInv
<1>9. CASE /\ at <= Len(metrics) /\ ~Repeated /\ at' = at /\ asks' = asks + 1
           /\ stage' = IF metrics[at] = "faithfulness" THEN "extract" ELSE "generate"
  <2>1. Ran' = Ran /\ RanRelevance' = RanRelevance
    BY <1>1, <1>9 DEF Ran, RanRelevance
  <2>2. CASE metrics[at] = "faithfulness"
    <3>1. ~Ran
      BY <1>9, <2>2 DEF Ran, Repeated
    <3>2. FaithfulnessAsks(b)' = 1 /\ RelevanceAsks' = RelevanceAsks
      BY <1>5, <1>9, <2>1, <2>2, <3>1 DEF RelevanceAsks, FaithfulnessAsks
    <3>3. asks' <= RelevanceAsks' + FaithfulnessAsks(b)'
      BY <1>2, <1>3, <1>5, <1>6, <1>9, <3>1, <3>2
    <3> QED
      BY <1>2, <1>4, <1>9, <2>2, <3>3 DEF CostInv
  <2>3. CASE metrics[at] # "faithfulness"
    <3>1. metrics[at] = "relevance"
      BY <1>3, <1>9, <2>3, EvaluationAssumption
         DEF IInv, TypeOK, EvaluationAssumption, MetricNames
    <3>2. ~RanRelevance
      BY <1>9, <3>1 DEF RanRelevance, Repeated
    <3>3. RelevanceAsks' = 1 /\ FaithfulnessAsks(b)' = FaithfulnessAsks(b)
      BY <1>4, <1>6, <1>9, <2>1, <2>3, <3>2 DEF RelevanceAsks, FaithfulnessAsks
    <3>4. asks' <= RelevanceAsks' + FaithfulnessAsks(b)'
      BY <1>2, <1>3, <1>5, <1>6, <1>9, <3>2, <3>3
    <3> QED
      BY <1>2, <1>4, <1>9, <2>3, <3>4 DEF CostInv
  <2> QED
    BY <2>2, <2>3
<1> QED
  BY <1>1, <1>7, <1>8, <1>9 DEF NextMetric, Merge, Ask

LEMMA RaiseCost == IInv /\ CostInv /\ Raise => CostInv'
<1> SUFFICES ASSUME IInv, CostInv, Raise PROVE CostInv'
  OBVIOUS
<1>1. AsksBounded' /\ stage' = "failed" /\ start' = start
  BY CostImplies DEF Raise, AsksBounded, request, work
<1>2. \E b \in Nat : start = b * BatchSize + 1
  BY DEF CostInv
<1> QED
  BY <1>1, <1>2 DEF CostInv

\* A question of faithfulness is asked before it has run.
LEMMA NotYetRan ==
    ASSUME IInv, stage \in Faithful
    PROVE  ~Ran /\ RelevanceAsks \in {0, 2}
           /\ (RelevanceAsks = 2 <=> RanRelevance)
<1>1. ~Ran
  BY DEF IInv, InTurn, Ran, Repeated
<1> QED
  BY <1>1 DEF RelevanceAsks, Faithful

LEMMA ExtractedCost ==
    ASSUME IInv, CostInv, NEW c \in Extractions[k], Extracted(c) \/ Reextracted(c)
    PROVE  CostInv'
<1> USE DEF request, work
<1>1. /\ stage \in {"extract", "reextract"} /\ stage \in Faithful
      /\ UNCHANGED <<request, start, run, runs>>
  BY DEF Extracted, Reextracted, Answered, Faithful
<1>2. /\ start = 1 /\ runs = <<>> /\ at <= Len(metrics)
      /\ metrics[at] = "faithfulness"
  BY <1>1, FreshExtraction
<1>3. ~Ran /\ RelevanceAsks \in {0, 2} /\ (RelevanceAsks = 2 <=> RanRelevance)
  BY <1>1, NotYetRan
<1>4. asks \in Nat /\ at \in Nat \ {0}
      /\ asks <= RelevanceAsks + (IF stage = "extract" THEN 1 ELSE 2)
  <2>1. asks \in Nat /\ at \in Nat \ {0}
    BY DEF IInv, TypeOK
  <2>2. PICK b \in Nat : asks <= RelevanceAsks + FaithfulnessAsks(b)
    BY <1>1 DEF CostInv
  <2> QED
    BY <1>1, <1>3, <2>1, <2>2 DEF FaithfulnessAsks
<1>5. start' = 0 * BatchSize + 1
  BY <1>1, <1>2, EvaluationAssumption DEF EvaluationAssumption
<1>6. CASE /\ UNCHANGED at /\ asks' = asks + 1
           /\ stage' = "verify" \/ (stage = "extract" /\ stage' = "reextract")
  <2>1. ~Ran' /\ RanRelevance' = RanRelevance
    BY <1>1, <1>3, <1>6 DEF Ran, RanRelevance
  <2>2. RelevanceAsks' = RelevanceAsks
    BY <1>3, <1>6, <2>1 DEF RelevanceAsks
  <2>3. CASE stage' = "verify"
    <3>1. IInv'
      BY ExtractedKeeps, ReextractedKeeps
    <3>2. BatchCount' \in Nat
      <4>1. Len(claims') \in Nat /\ BatchSize \in Nat \ {0}
        BY <3>1, EvaluationAssumption DEF IInv, TypeOK, EvaluationAssumption
      <4> QED
        BY <4>1, CeilingType DEF BatchCount
    <3>3. Len(runs') * BatchCount' = 0
      <4>1. Len(runs') = 0
        BY <1>1, <1>2
      <4>2. \A n \in Nat : 0 * n = 0
        OBVIOUS
      <4> QED
        BY <3>2, <4>1, <4>2
    <3>4. FaithfulnessAsks(0)' = 3
      BY <2>1, <2>3, <3>3 DEF FaithfulnessAsks
    <3>5. asks' <= RelevanceAsks' + FaithfulnessAsks(0)'
      BY <1>3, <1>4, <1>6, <2>2, <3>4
    <3> QED
      BY <1>5, <2>3, <3>5 DEF CostInv
  <2>4. CASE stage = "extract" /\ stage' = "reextract"
    <3>1. FaithfulnessAsks(0)' = 2
      BY <2>1, <2>4 DEF FaithfulnessAsks
    <3>2. asks' <= RelevanceAsks' + FaithfulnessAsks(0)'
      BY <1>3, <1>4, <1>6, <2>2, <2>4, <3>1
    <3> QED
      BY <1>5, <2>4, <3>2 DEF CostInv
  <2> QED
    BY <1>6, <2>3, <2>4
<1>7. CASE at' = at + 1 /\ asks' = asks /\ stage' = "next"
  <2>1. Ran' /\ (RanRelevance => RanRelevance')
    BY <1>1, <1>2, <1>4, <1>7 DEF Ran, RanRelevance
  <2>2. IInv'
    BY ExtractedKeeps, ReextractedKeeps
  <2>3. BatchCount' \in Nat /\ k' \in Nat
    <3>1. Len(claims') \in Nat /\ BatchSize \in Nat \ {0} /\ k' \in Nat
      BY <2>2, EvaluationAssumption DEF IInv, TypeOK, EvaluationAssumption
    <3> QED
      BY <3>1, CeilingType DEF BatchCount
  <2>4. k' * BatchCount' \in Nat
    <3>1. \A m, n \in Nat : m * n \in Nat
      OBVIOUS
    <3> QED
      BY <2>3, <3>1
  <2>5. FaithfulnessAsks(0)' = 2 + 2 * (k' * BatchCount')
    BY <2>1 DEF FaithfulnessAsks
  <2>6. RelevanceAsks' = IF RanRelevance' THEN 2 ELSE 0
    BY <1>7 DEF RelevanceAsks
  <2>7. asks' <= RelevanceAsks' + FaithfulnessAsks(0)'
    BY <1>3, <1>4, <1>7, <2>1, <2>4, <2>5, <2>6
  <2> QED
    BY <1>5, <1>7, <2>7 DEF CostInv
<1>8. CASE Extracted(c)
  <2>1. /\ UNCHANGED at /\ asks' = asks + 1
        /\ stage' = "verify" \/ (stage = "extract" /\ stage' = "reextract")
    BY <1>8 DEF Extracted, Answered, Ask
  <2> QED
    BY <1>6, <2>1
<1>9. CASE Reextracted(c)
  <2>1. \/ UNCHANGED at /\ asks' = asks + 1 /\ stage' = "verify"
        \/ at' = at + 1 /\ asks' = asks /\ stage' = "next"
    BY <1>9 DEF Reextracted, Answered, Ask, Merge
  <2> QED
    BY <1>6, <1>7, <2>1
<1> QED
  BY <1>8, <1>9

LEMMA RecordCost ==
    ASSUME IInv, CostInv, stage \in {"verify", "reverify"}, NEW items \in Replies,
           LinesUp(items), Record(items), UNCHANGED <<request, claims>>
    PROVE  CostInv'
<1> USE DEF request
<1>1. PICK b \in Nat : /\ start = b * BatchSize + 1
                       /\ asks <= RelevanceAsks + FaithfulnessAsks(b)
  BY DEF CostInv
<1> DEFINE L == Len(runs) * BatchCount
<1>2. /\ b + 1 <= BatchCount /\ L \in Nat
      /\ L + BatchCount <= k * BatchCount
      /\ (Len(runs) + 1) * BatchCount = L + BatchCount
  BY <1>1, BatchesLeft
<1>3. /\ BatchCount \in Nat /\ asks \in Nat /\ at \in Nat \ {0}
      /\ k \in Nat /\ BatchSize \in Nat \ {0} /\ Len(runs) \in Nat
      /\ runs \in Seq(Seq(Items)) /\ Len(runs) < k
  BY BatchCountType, EvaluationAssumption
     DEF IInv, TypeOK, EvaluationAssumption, Progress
<1>4. ~Ran /\ RelevanceAsks \in {0, 2} /\ (RelevanceAsks = 2 <=> RanRelevance)
      /\ at <= Len(metrics) /\ metrics[at] = "faithfulness"
  BY NotYetRan DEF Faithful, IInv, InTurn
<1>5. BatchCount' = BatchCount /\ k' = k
  BY DEF BatchCount
<1>6. asks <= RelevanceAsks + 4 + 2 * (L + b)
  BY <1>1, <1>2, <1>3, <1>4 DEF FaithfulnessAsks
<1> HIDE DEF L
<1>7. ASSUME UNCHANGED at, stage' = "verify"
      PROVE  /\ RelevanceAsks' = RelevanceAsks
             /\ \A n : FaithfulnessAsks(n)' = 3 + 2 * (Len(runs') * BatchCount + n)
  <2>1. ~Ran' /\ RanRelevance' = RanRelevance
    BY <1>4, <1>7 DEF Ran, RanRelevance
  <2>2. RelevanceAsks' = RelevanceAsks
    BY <1>4, <1>7, <2>1 DEF RelevanceAsks
  <2> QED
    BY <1>5, <1>7, <2>1, <2>2 DEF FaithfulnessAsks
<1>8. CASE /\ start' = start + BatchSize /\ asks' = asks + 1
           /\ stage' = "verify" /\ UNCHANGED <<runs, at>>
  <2>1. start' = (b + 1) * BatchSize + 1
    <3>1. (b + 1) * BatchSize = b * BatchSize + BatchSize /\ b * BatchSize \in Nat
      BY <1>3
    <3> QED
      BY <1>1, <1>3, <1>8, <3>1
  <2>2. RelevanceAsks' = RelevanceAsks
        /\ FaithfulnessAsks(b + 1)' = 3 + 2 * (L + (b + 1))
    BY <1>7, <1>8 DEF L
  <2>3. asks' <= RelevanceAsks' + FaithfulnessAsks(b + 1)'
    BY <1>2, <1>3, <1>4, <1>6, <1>8, <2>2
  <2>4. b + 1 \in Nat
    OBVIOUS
  <2> QED
    BY <1>8, <2>1, <2>3, <2>4 DEF CostInv
<1>9. CASE /\ start' = 1 /\ asks' = asks + 1 /\ stage' = "verify"
           /\ UNCHANGED at /\ Len(runs') = Len(runs) + 1
  <2>1. start' = 0 * BatchSize + 1
    BY <1>3, <1>9
  <2>2. RelevanceAsks' = RelevanceAsks
        /\ FaithfulnessAsks(0)' = 3 + 2 * (L + BatchCount + 0)
    BY <1>2, <1>7, <1>9
  <2>3. asks' <= RelevanceAsks' + FaithfulnessAsks(0)'
    BY <1>2, <1>3, <1>4, <1>6, <1>9, <2>2
  <2> QED
    BY <1>9, <2>1, <2>3 DEF CostInv
<1>10. CASE start' = 1 /\ asks' = asks /\ stage' = "next" /\ at' = at + 1
  <2>1. start' = 0 * BatchSize + 1
    BY <1>3, <1>10
  <2>2. Ran' /\ (RanRelevance => RanRelevance')
    BY <1>3, <1>4, <1>10 DEF Ran, RanRelevance
  <2>3. RelevanceAsks' = IF RanRelevance' THEN 2 ELSE 0
    BY <1>10 DEF RelevanceAsks
  <2>4. FaithfulnessAsks(0)' = 2 + 2 * (k * BatchCount)
    BY <1>5, <2>2 DEF FaithfulnessAsks
  <2>5. k * BatchCount \in Nat
    BY <1>3
  <2>6. asks' <= RelevanceAsks' + FaithfulnessAsks(0)'
    BY <1>2, <1>3, <1>4, <1>6, <1>10, <2>2, <2>3, <2>4, <2>5
  <2> QED
    BY <1>10, <2>1, <2>6 DEF CostInv
<1>11. Len(Append(runs, run \o items)) = Len(runs) + 1
  <2>1. run \o items \in Seq(Items)
    BY Extended DEF IInv
  <2> QED
    BY <1>3, <2>1
<1> QED
  BY <1>8, <1>9, <1>10, <1>11 DEF Record, Ask, Merge

LEMMA VerifiedCost ==
    ASSUME IInv, CostInv, NEW items \in Replies,
           Verified(items) \/ Reverified(items)
    PROVE  CostInv'
<1>1. stage \in {"verify", "reverify"}
  BY DEF Verified, Reverified, Answered
<1>2. CASE LinesUp(items) /\ Record(items) /\ UNCHANGED <<request, claims>>
  BY <1>1, <1>2, RecordCost
<1>3. CASE /\ stage = "verify" /\ Ask("reverify")
           /\ UNCHANGED <<request, at, work, result>>
  <2> USE DEF request, work
  <2>1. PICK b \in Nat : /\ start = b * BatchSize + 1
                         /\ asks <= RelevanceAsks + FaithfulnessAsks(b)
    BY <1>3 DEF CostInv
  <2>2. ~Ran /\ RelevanceAsks \in {0, 2} /\ (RelevanceAsks = 2 <=> RanRelevance)
    BY <1>1, NotYetRan DEF Faithful
  <2>3. /\ Len(runs) * BatchCount \in Nat /\ asks \in Nat
        /\ (Len(runs) * BatchCount)' = Len(runs) * BatchCount
    BY <1>1, <1>3, <2>1, BatchesLeft DEF IInv, TypeOK, BatchCount
  <2>4. ~Ran' /\ RanRelevance' = RanRelevance
    BY <1>3, <2>2 DEF Ran, RanRelevance
  <2>5. /\ asks' = asks + 1 /\ stage' = "reverify" /\ start' = start
        /\ FaithfulnessAsks(b) = 3 + 2 * (Len(runs) * BatchCount + b)
        /\ FaithfulnessAsks(b)' = 4 + 2 * (Len(runs) * BatchCount + b)
    BY <1>3, <2>2, <2>3, <2>4 DEF FaithfulnessAsks, Ask
  <2>6. RelevanceAsks' = RelevanceAsks
    BY <2>2, <2>4, <2>5 DEF RelevanceAsks
  <2>7. asks' <= RelevanceAsks' + FaithfulnessAsks(b)'
    BY <2>1, <2>2, <2>3, <2>5, <2>6
  <2> QED
    BY <2>1, <2>5, <2>7 DEF CostInv
<1>4. CASE Raise
  BY <1>4, RaiseCost
<1> QED
  BY <1>2, <1>3, <1>4 DEF Verified, Reverified, Answered

\* Relevance: one question more, or one metric more and no question.
LEMMA RelevanceCost ==
    ASSUME IInv, CostInv,
           \/ Generated
           \/ \E points \in 0..(2 * QuestionCount) : Rated(points)
    PROVE  CostInv'
<1> USE DEF request, work
<1>1. /\ stage \in {"generate", "rate"} /\ UNCHANGED <<request, work>>
  BY DEF Generated, Rated, Answered
<1>2. PICK b \in Nat : /\ start = b * BatchSize + 1
                       /\ asks <= RelevanceAsks + FaithfulnessAsks(b)
  BY <1>1 DEF CostInv
<1>3. at <= Len(metrics) /\ metrics[at] = "relevance" /\ ~RanRelevance
  <2>1. at <= Len(metrics) /\ ~Repeated /\ metrics[at] # "faithfulness"
    BY <1>1 DEF IInv, InTurn
  <2>2. metrics[at] = "relevance"
    BY <2>1, EvaluationAssumption
       DEF IInv, TypeOK, EvaluationAssumption, MetricNames
  <2> QED
    BY <2>1, <2>2 DEF RanRelevance, Repeated
<1>4. /\ at \in Nat \ {0} /\ asks \in Nat /\ k * BatchCount \in Nat
      /\ (k * BatchCount)' = k * BatchCount
  BY <1>1, BatchCountType, EvaluationAssumption
     DEF IInv, TypeOK, EvaluationAssumption, BatchCount
<1>5. FaithfulnessAsks(b) = IF Ran THEN 2 + 2 * (k * BatchCount) ELSE 0
  BY <1>1 DEF FaithfulnessAsks
<1>6. RelevanceAsks = IF stage = "rate" THEN 2 ELSE 1
  BY <1>1, <1>3 DEF RelevanceAsks
<1>7. CASE /\ stage = "generate" /\ stage' = "rate" /\ asks' = asks + 1
           /\ UNCHANGED at
  <2>1. Ran' = Ran
    BY <1>1, <1>7 DEF Ran
  <2>2. RelevanceAsks' = 2 /\ FaithfulnessAsks(b)' = FaithfulnessAsks(b)
    BY <1>4, <1>5, <1>7, <2>1 DEF RelevanceAsks, FaithfulnessAsks
  <2>3. asks' <= RelevanceAsks' + FaithfulnessAsks(b)'
    BY <1>2, <1>4, <1>5, <1>6, <1>7, <2>2
  <2> QED
    BY <1>1, <1>2, <1>7, <2>3 DEF CostInv
<1>8. CASE stage = "rate" /\ stage' = "next" /\ asks' = asks /\ at' = at + 1
  <2>1. RanRelevance' /\ (Ran => Ran')
    BY <1>1, <1>3, <1>4, <1>8 DEF RanRelevance, Ran
  <2>2. RelevanceAsks' = 2
    BY <2>1 DEF RelevanceAsks
  <2>3. FaithfulnessAsks(b)' = IF Ran' THEN 2 + 2 * (k * BatchCount) ELSE 0
    BY <1>4, <1>8 DEF FaithfulnessAsks
  <2>4. asks' <= RelevanceAsks' + FaithfulnessAsks(b)'
    BY <1>2, <1>4, <1>5, <1>6, <1>8, <2>1, <2>2, <2>3
  <2> QED
    BY <1>1, <1>2, <1>8, <2>4 DEF CostInv
<1> QED
  BY <1>7, <1>8 DEF Generated, Rated, Answered, Ask, Merge

LEMMA CostPreserved == IInv /\ CostInv /\ [Next]_vars => CostInv'
<1> SUFFICES ASSUME IInv, CostInv, [Next]_vars PROVE CostInv'
  OBVIOUS
<1>1. CASE NextMetric
  BY <1>1, NextMetricCost
<1>2. CASE CallFailed
  BY <1>2, RaiseCost DEF CallFailed
<1>3. CASE \E c \in Extractions[k] : Extracted(c) \/ Reextracted(c)
  BY <1>3, ExtractedCost
<1>4. CASE \E items \in Replies : Verified(items) \/ Reverified(items)
  BY <1>4, VerifiedCost
<1>5. CASE Generated \/ \E points \in 0..(2 * QuestionCount) : Rated(points)
  BY <1>5, RelevanceCost
<1>6. CASE Asking \/ UNCHANGED vars
  BY <1>6 DEF Asking, vars, request, work, CostInv, AsksBounded, RelevanceAsks,
              FaithfulnessAsks, Ran, RanRelevance, BatchCount
<1> QED
  BY <1>1, <1>2, <1>3, <1>4, <1>5, <1>6 DEF Next

\* evaluate, _verify_claims, generate_json and complete: no evaluation costs
\* more than MaxRetries * MaxAttempts POSTs for each of two extractions, two
\* relevance questions and two questions per batch and run, whatever claims the
\* judge extracts and whatever it answers.
THEOREM EvaluationBudget == Spec => []CostIsBounded
<1>1. IInv /\ CostInv => CostIsBounded
  BY CostImplies DEF CostIsBounded, IInv, CallInv
<1>2. Spec => []CostInv
  BY Inductive, InitCost, CostPreserved, PTL DEF Spec
<1> QED
  BY <1>1, <1>2, Inductive, PTL

------------------------------------------------------------------------------
(***************************************************************************)
(* Every step of an evaluation uses something up. The counters of Left are *)
(* natural numbers, which TermInv adds to IInv, and each action lowers one *)
(* of them without raising a slower one.                                   *)
(***************************************************************************)

\* Nothing is asked between metrics and afterwards; no run and no batch is
\* beyond the last.
TermInv ==
    /\ stage \in {"next", "done", "failed"} => call = "idle"
    /\ Len(runs) <= k
    /\ start <= Len(claims) + 1

LEMMA InitTerm == Init => TermInv
<1>1. Init => k \in Nat
  BY EvaluationAssumption DEF Init, EvaluationAssumption
<1> QED
  BY <1>1 DEF Init, CallInit, TermInv

\* Where nothing is asked, no run is added and the claims cover start, TermInv
\* stays; it also does between questions.
LEMMA TermStays ==
    ASSUME IInv, TermInv, UNCHANGED <<k, claims, start, runs>>,
           stage' \in {"next", "done", "failed"} => call' = "idle"
    PROVE  TermInv'
BY DEF TermInv

\* An extraction starts with no run and at the first claim.
LEMMA TermExtracted ==
    ASSUME IInv, NEW c \in Extractions[k], claims' = c, k' = k,
           stage \in {"extract", "reextract"}, UNCHANGED <<start, runs>>,
           stage' \in {"next", "done", "failed"} => call' = "idle"
    PROVE  TermInv'
<1>1. start = 1 /\ runs = <<>>
  BY FreshExtraction
<1>2. c \in Seq(Texts) /\ k \in Nat \ {0}
  BY ClaimsType, EvaluationAssumption DEF IInv, TypeOK, EvaluationAssumption
<1>3. Len(c) \in Nat /\ Len(<<>>) = 0
  BY <1>2
<1> QED
  BY <1>1, <1>2, <1>3 DEF TermInv

LEMMA TermRecord ==
    ASSUME IInv, NEW items, stage \in {"verify", "reverify"}, Record(items),
           UNCHANGED <<request, claims>>
    PROVE  TermInv'
<1> USE DEF request
<1>1. /\ start <= Len(claims) /\ Len(runs) < k
      /\ start \in Nat \ {0} /\ BatchSize \in Nat \ {0} /\ k \in Nat \ {0}
      /\ claims \in Seq(Texts) /\ runs \in Seq(Seq(Items))
  BY EvaluationAssumption DEF IInv, Progress, TypeOK, EvaluationAssumption
<1>2. stage' \in {"next", "done", "failed"} => call' = "idle"
  BY DEF Record, Ask, Merge, EndCall
<1>3. CASE start' = start + BatchSize /\ start + BatchSize <= Len(claims)
           /\ runs' = runs
  BY <1>1, <1>2, <1>3 DEF TermInv
<1>4. CASE start' = 1 /\ \E r : runs' = Append(runs, r)
  <2>1. Len(runs') = Len(runs) + 1
    BY <1>1, <1>4
  <2> QED
    BY <1>1, <1>2, <1>4, <2>1 DEF TermInv
<1> QED
  BY <1>3, <1>4 DEF Record

LEMMA NextTerm == IInv /\ TermInv /\ [Next]_vars => TermInv'
<1> SUFFICES ASSUME IInv, TermInv, [Next]_vars PROVE TermInv'
  OBVIOUS
<1> USE DEF request, work
<1>1. CASE NextMetric
  BY <1>1, TermStays DEF NextMetric, Merge, Ask, EndCall, TermInv, callVars
<1>2. CASE Asking
  BY <1>2, TermStays DEF Asking, CallStep, Transient, Unusable, Invalid, Valid,
                         TermInv
<1>3. CASE CallFailed
  BY <1>3, TermStays DEF CallFailed, Raise, EndCall
<1>4. ASSUME NEW c \in Extractions[k], Extracted(c) \/ Reextracted(c)
      PROVE  TermInv'
  BY <1>4, TermExtracted DEF Extracted, Reextracted, Answered, Ask, Merge, EndCall
<1>5. ASSUME NEW items \in Replies, Verified(items) \/ Reverified(items)
      PROVE  TermInv'
  <2>1. stage \in {"verify", "reverify"}
    BY <1>5 DEF Verified, Reverified, Answered
  <2>2. CASE Record(items) /\ UNCHANGED <<request, claims>>
    BY <2>1, <2>2, TermRecord
  <2>3. CASE (Ask("reverify") /\ UNCHANGED <<request, at, work, result>>) \/ Raise
    BY <2>3, TermStays DEF Ask, Raise, EndCall
  <2> QED
    BY <1>5, <2>2, <2>3 DEF Verified, Reverified
<1>6. CASE Generated \/ \E points \in 0..(2 * QuestionCount) : Rated(points)
  BY <1>6, TermStays DEF Generated, Rated, Ask, Merge, EndCall
<1>7. CASE UNCHANGED vars
  BY <1>7 DEF vars, callVars, TermInv
<1> QED
  BY <1>1, <1>2, <1>3, <1>4, <1>5, <1>6, <1>7 DEF Next

\* The counters are natural numbers.
LEMMA LeftType == IInv /\ TermInv => Left \in Seq(Nat)
<1> SUFFICES ASSUME IInv, TermInv PROVE Left \in Seq(Nat)
  OBVIOUS
<1>1. /\ at \in 1..(Len(metrics) + 1) /\ Len(metrics) \in Nat
      /\ Len(claims) \in Nat /\ start \in Nat
      /\ Len(runs) \in Nat /\ k \in Nat
      /\ attempt \in 0..MaxAttempts /\ tries \in 0..MaxRetries
      /\ MaxAttempts \in Nat /\ MaxRetries \in Nat
  BY EvaluationAssumption, CallAssumption
     DEF IInv, TypeOK, CallTypeOK, EvaluationAssumption, CallAssumption
<1>2. Len(metrics) + 1 - at \in Nat /\ MaxAttempts - attempt \in Nat
      /\ MaxRetries - tries \in Nat
  BY <1>1
<1>3. k - Len(runs) \in Nat /\ Len(claims) + 1 - start \in Nat
  BY <1>1 DEF TermInv
<1>4. Phase[stage] \in Nat
  BY DEF IInv, TypeOK, Stages, Phase
<1>5. /\ (IF stage = "verify" THEN 1 ELSE 0) \in Nat
      /\ (IF call = "waiting" THEN 1 ELSE 0) \in Nat
  OBVIOUS
<1> QED
  BY <1>2, <1>3, <1>4, <1>5 DEF Left

\* A counter that goes down while the slower ones stay.
LEMMA LessIf ==
    ASSUME NEW i \in 1..8, Left'[i] < Left[i],
           \A j \in 1..(i - 1) : Left'[j] = Left[j]
    PROVE  Less(Left', Left)
<1>1. DOMAIN Left' = 1..8
  BY DEF Left
<1> QED
  BY <1>1 DEF Less

\* What the counters are.
LEMMA Counters ==
    /\ Left[1] = Len(metrics) + 1 - at
    /\ Left[2] = Phase[stage]
    /\ Left[3] = k - Len(runs)
    /\ Left[4] = Len(claims) + 1 - start
    /\ Left[5] = IF stage = "verify" THEN 1 ELSE 0
    /\ Left[6] = MaxAttempts - attempt
    /\ Left[7] = MaxRetries - tries
    /\ Left[8] = IF call = "waiting" THEN 1 ELSE 0
BY DEF Left

LEMMA CountersAfter ==
    /\ Left'[1] = Len(metrics') + 1 - at'
    /\ Left'[2] = Phase[stage']
    /\ Left'[3] = k' - Len(runs')
    /\ Left'[4] = Len(claims') + 1 - start'
    /\ Left'[5] = IF stage' = "verify" THEN 1 ELSE 0
    /\ Left'[6] = MaxAttempts - attempt'
    /\ Left'[7] = MaxRetries - tries'
    /\ Left'[8] = IF call' = "waiting" THEN 1 ELSE 0
BY DEF Left, Phase

\* A metric is over, or is passed by.
LEMMA NextPosition ==
    ASSUME IInv, at' = at + 1, UNCHANGED request
    PROVE  Less(Left', Left)
<1>1. Len(metrics) \in Nat /\ at \in Nat
  BY EvaluationAssumption DEF IInv, TypeOK, EvaluationAssumption
<1>2. Left'[1] < Left[1]
  BY <1>1, Counters, CountersAfter DEF request
<1> QED
  BY <1>2, LessIf

\* The running metric enters its next phase.
LEMMA NextPhase ==
    ASSUME UNCHANGED <<at, request>>, Phase[stage'] < Phase[stage]
    PROVE  Less(Left', Left)
<1>1. Left'[2] < Left[2] /\ Left'[1] = Left[1]
  BY Counters, CountersAfter DEF request
<1>2. \A j \in 1..(2 - 1) : Left'[j] = Left[j]
  BY <1>1
<1> QED
  BY <1>1, <1>2, LessIf

LEMMA AskingCounts == IInv /\ Asking => Less(Left', Left)
<1> SUFFICES ASSUME IInv, Asking PROVE Less(Left', Left)
  OBVIOUS
<1> USE DEF Asking, request, work
<1>1. /\ attempt \in Nat /\ tries \in Nat
      /\ MaxAttempts \in Nat /\ MaxRetries \in Nat
  BY CallAssumption DEF IInv, TypeOK, CallTypeOK, CallAssumption
<1>2. \A j \in 1..5 : Left'[j] = Left[j]
  <2>1. /\ Left'[1] = Left[1] /\ Left'[2] = Left[2] /\ Left'[3] = Left[3]
        /\ Left'[4] = Left[4] /\ Left'[5] = Left[5]
    BY Counters, CountersAfter
  <2> QED
    BY <2>1
<1>3. CASE Left'[6] < Left[6]
  BY <1>2, <1>3, LessIf
<1>4. CASE Left'[6] = Left[6] /\ Left'[7] < Left[7]
  <2>1. \A j \in 1..(7 - 1) : Left'[j] = Left[j]
    BY <1>2, <1>4
  <2> QED
    BY <1>4, <2>1, LessIf
<1>5. CASE Left'[6] = Left[6] /\ Left'[7] = Left[7] /\ Left'[8] < Left[8]
  <2>1. \A j \in 1..(8 - 1) : Left'[j] = Left[j]
    BY <1>2, <1>5
  <2> QED
    BY <1>5, <2>1, LessIf
<1>6. CASE Transient /\ call' = "waiting"
  <2>1. attempt' = attempt /\ tries' = tries + 1
    BY <1>6 DEF Transient
  <2>2. Left'[6] = Left[6] /\ Left'[7] < Left[7]
    BY <1>1, <2>1, Counters, CountersAfter
  <2> QED
    BY <1>4, <2>2
<1>7. CASE Invalid /\ call' = "waiting"
  <2>1. attempt' = attempt + 1
    BY <1>7 DEF Invalid
  <2>2. Left'[6] < Left[6]
    BY <1>1, <2>1, Counters, CountersAfter
  <2> QED
    BY <1>3, <2>2
<1>8. CASE call' # "waiting" /\ call = "waiting" /\ UNCHANGED <<attempt, tries>>
  <2>1. Left'[6] = Left[6] /\ Left'[7] = Left[7] /\ Left'[8] < Left[8]
    BY <1>8, Counters, CountersAfter
  <2> QED
    BY <1>5, <2>1
<1> QED
  BY <1>6, <1>7, <1>8 DEF CallStep, Transient, Unusable, Invalid, Valid

LEMMA RecordCounts ==
    ASSUME IInv, NEW items, stage \in {"verify", "reverify"}, Record(items),
           UNCHANGED <<request, claims>>
    PROVE  Less(Left', Left)
<1> USE DEF request
<1>1. /\ start <= Len(claims) /\ Len(runs) < k
      /\ start \in Nat \ {0} /\ BatchSize \in Nat \ {0} /\ k \in Nat \ {0}
      /\ claims \in Seq(Texts) /\ runs \in Seq(Seq(Items))
  BY EvaluationAssumption DEF IInv, Progress, TypeOK, EvaluationAssumption
<1>2. CASE at' = at + 1
  BY <1>2, NextPosition
<1>3. ASSUME stage' = "verify", UNCHANGED at
      PROVE  Left'[1] = Left[1] /\ Left'[2] = Left[2]
  BY <1>3, Counters, CountersAfter DEF Phase
<1>4. CASE stage' = "verify" /\ start' = start + BatchSize /\ UNCHANGED <<runs, at>>
  <2>1. Left'[3] = Left[3] /\ Left'[4] < Left[4]
    BY <1>1, <1>4, Counters, CountersAfter
  <2>2. \A j \in 1..(4 - 1) : Left'[j] = Left[j]
    BY <1>3, <1>4, <2>1
  <2> QED
    BY <2>1, <2>2, LessIf
<1>5. CASE stage' = "verify" /\ UNCHANGED at /\ \E r : runs' = Append(runs, r)
  <2>1. Len(runs') = Len(runs) + 1
    BY <1>1, <1>5
  <2>2. Left'[3] < Left[3]
    BY <1>1, <2>1, Counters, CountersAfter
  <2>3. \A j \in 1..(3 - 1) : Left'[j] = Left[j]
    BY <1>3, <1>5
  <2> QED
    BY <2>2, <2>3, LessIf
<1> QED
  BY <1>2, <1>4, <1>5 DEF Record, Ask, Merge

\* A batch is asked for a second time at most once.
LEMMA AgainCounts ==
    ASSUME stage = "verify", stage' = "reverify", UNCHANGED <<request, at, work>>
    PROVE  Less(Left', Left)
<1>1. /\ Left'[1] = Left[1] /\ Left'[2] = Left[2] /\ Left'[3] = Left[3]
      /\ Left'[4] = Left[4] /\ Left'[5] < Left[5]
  BY Counters, CountersAfter DEF request, work, Phase
<1>2. \A j \in 1..(5 - 1) : Left'[j] = Left[j]
  BY <1>1
<1> QED
  BY <1>1, <1>2, LessIf

LEMMA NextCounts == IInv /\ TermInv /\ Next => Less(Left', Left)
<1> SUFFICES ASSUME IInv, TermInv, Next PROVE Less(Left', Left)
  OBVIOUS
<1>1. CASE NextMetric
  <2>1. stage = "next" /\ UNCHANGED request
    BY <1>1 DEF NextMetric
  <2>2. CASE at' = at + 1
    BY <2>1, <2>2, NextPosition
  <2>3. CASE stage' \in {"done", "extract", "generate"} /\ UNCHANGED at
    BY <2>1, <2>3, NextPhase DEF Phase
  <2> QED
    BY <1>1, <2>2, <2>3 DEF NextMetric, Merge, Ask
<1>2. CASE Asking
  BY <1>2, AskingCounts
<1>3. CASE Raise /\ call # "idle"
  <2>1. stage \in Stages \ {"next", "done", "failed"} /\ stage' = "failed"
        /\ UNCHANGED <<at, request>>
    BY <1>3 DEF IInv, TypeOK, TermInv, Raise
  <2> QED
    BY <2>1, NextPhase DEF Phase, Stages
<1>4. ASSUME NEW c \in Extractions[k], Extracted(c)
      PROVE  Less(Left', Left)
  <2>1. stage = "extract" /\ stage' \in {"reextract", "verify"}
        /\ UNCHANGED <<at, request>>
    BY <1>4 DEF Extracted, Answered, Ask, request
  <2> QED
    BY <2>1, NextPhase DEF Phase
<1>5. ASSUME NEW c \in Extractions[k], Reextracted(c)
      PROVE  Less(Left', Left)
  <2>1. stage = "reextract" /\ UNCHANGED request
    BY <1>5 DEF Reextracted, Answered, request
  <2>2. CASE at' = at + 1
    BY <2>1, <2>2, NextPosition
  <2>3. CASE stage' = "verify" /\ UNCHANGED at
    BY <2>1, <2>3, NextPhase DEF Phase
  <2> QED
    BY <1>5, <2>2, <2>3 DEF Reextracted, Merge, Ask
<1>6. ASSUME NEW items \in Replies, Verified(items)
      PROVE  Less(Left', Left)
  BY <1>6, RecordCounts, AgainCounts DEF Verified, Answered, Ask
<1>7. ASSUME NEW items \in Replies, Reverified(items)
      PROVE  Less(Left', Left)
  BY <1>3, <1>7, RecordCounts DEF Reverified, Answered
<1>8. CASE Generated
  <2>1. stage = "generate" /\ stage' = "rate" /\ UNCHANGED <<at, request>>
    BY <1>8 DEF Generated, Answered, Ask
  <2> QED
    BY <2>1, NextPhase DEF Phase
<1>9. ASSUME NEW points \in 0..(2 * QuestionCount), Rated(points)
       PROVE  Less(Left', Left)
  BY <1>9, NextPosition DEF Rated, Merge
<1> QED
  BY <1>1, <1>2, <1>3, <1>4, <1>5, <1>6, <1>7, <1>8, <1>9 DEF Next, CallFailed

\* evaluate, _verify_claims, _verify_batch, generate_json and complete: their
\* loops are nested and every step uses up a part of one, so an evaluation runs
\* down whatever the judge answers. With the fairness of FairSpec, and since a
\* lexicographic descent of eight natural numbers is finite, it ends.
THEOREM EvaluationRunsDown == Spec => EveryStepCounts
<1>1. (IInv /\ TermInv)' => (Left \in Seq(Nat))'
  BY LeftType, PTL
<1>2. IInv /\ TermInv /\ (IInv /\ TermInv)' /\ [Next]_vars
        => [Left' \in Seq(Nat) /\ Less(Left', Left)]_vars
  BY <1>1, NextCounts
<1>3. Spec => []TermInv
  BY Inductive, InitTerm, NextTerm, PTL DEF Spec
<1> QED
  BY <1>2, <1>3, Inductive, PTL DEF Spec, EveryStepCounts
=============================================================================
