-------------------------- MODULE MetricEvaluation --------------------------
(***************************************************************************)
(* One call of evaluate: the selected metrics run one after the other, and *)
(* each is a short conversation with the judge. Faithfulness extracts the  *)
(* answer's claims (asking again once when there are none), verifies them  *)
(* k times in batches (asking again once when a batch does not line up),   *)
(* takes a vote over the runs and scores it. Relevance has questions       *)
(* generated and rated. An exception in any of it ends the evaluation.     *)
(*                                                                         *)
(* A claim is its normalised text. Reasons, prompts, timings and token     *)
(* counts are left out; the masking around the metrics is Sanitizer's.     *)
(***************************************************************************)
EXTENDS JudgeCall, Sequences, FiniteSets

CONSTANTS
    Texts,        \* claim texts a judge may write
    BatchSize,    \* _BATCH_SIZE
    Extractions,  \* Extractions[k]: claim lists it may extract when k runs
                  \* are asked for; DOMAIN Extractions is the k in use
    Selections,   \* lists of metrics a caller may select
    QuestionCount, \* _QUESTION_COUNT
    NoClaim       \* the empty claim of a result without claims

MetricNames == {"faithfulness", "relevance"}
VerdictNames == {"supported", "unsupported", "uncertain"}
Items == [claim : Texts, verdict : VerdictNames]

\* The verdicts of an answer in which there is nothing to verify.
NothingToVerify == <<[claim |-> NoClaim, verdict |-> "uncertain"]>>

\* Claims and its validator: no text twice.
Distinct(s) == \A i, j \in DOMAIN s : s[i] = s[j] => i = j

ASSUME EvaluationAssumption ==
    /\ BatchSize \in Nat \ {0}
    /\ DOMAIN Extractions \subseteq Nat \ {0}
    /\ \A k \in DOMAIN Extractions :
           \A c \in Extractions[k] : c \in Seq(Texts) /\ Distinct(c)
    /\ Selections \subseteq Seq(MetricNames)
    /\ QuestionCount \in Nat \ {0}
    /\ NoClaim \notin Texts

VARIABLES
    k, strict, blank,  \* the request: runs, scoring rule, empty answer
    metrics,           \* and the metrics selected
    at,                \* the one whose turn it is
    stage,             \* what the judge is being asked
    claims,            \* the extracted claims
    start,             \* where the current batch starts
    run,               \* verdicts of the current run so far
    runs,              \* the finished runs
    result,            \* the merged EvalResult
    asks               \* questions asked so far (history)

request == <<k, strict, blank, metrics>>
work == <<claims, start, run, runs>>
vars == <<callVars, request, at, stage, work, result, asks>>

Stages == {"next", "extract", "reextract", "verify", "reverify", "generate",
           "rate", "done", "failed"}

\* A score is a fraction; NoScore is None.
NoScore == [num |-> 0, den |-> 0]
Result == [faithfulness : [num : Nat, den : Nat],
           verdicts : Seq(Items) \cup {NothingToVerify},
           relevance : [num : Nat, den : Nat]]
NoResult == [faithfulness |-> NoScore, verdicts |-> <<>>, relevance |-> NoScore]

TypeOK ==
    /\ CallTypeOK
    /\ k \in DOMAIN Extractions
    /\ strict \in BOOLEAN
    /\ blank \in BOOLEAN
    /\ metrics \in Selections
    /\ at \in 1..(Len(metrics) + 1)
    /\ stage \in Stages
    /\ claims \in Seq(Texts)
    /\ start \in Nat \ {0}
    /\ run \in Seq(Items)
    /\ runs \in Seq(Seq(Items))
    /\ result \in Result
    /\ asks \in Nat

Init ==
    /\ CallInit
    /\ k \in DOMAIN Extractions
    /\ strict \in BOOLEAN
    /\ blank \in BOOLEAN
    /\ metrics \in Selections
    /\ at = 1
    /\ stage = "next"
    /\ claims = <<>> /\ start = 1 /\ run = <<>> /\ runs = <<>>
    /\ result = NoResult
    /\ asks = 0

(***************************************************************************)
(* Moving on.                                                              *)
(***************************************************************************)

Ask(next) ==
    /\ StartCall
    /\ stage' = next
    /\ asks' = asks + 1

\* The running metric's result is merged and the next metric is due.
Merge(field, value, verdicts) ==
    /\ result' = [result EXCEPT ![field] = value, !.verdicts = verdicts]
    /\ at' = at + 1
    /\ stage' = "next"
    /\ EndCall
    /\ UNCHANGED asks

\* Mutant: a metric selected twice runs twice.
NeverRepeated == FALSE

\* dict.fromkeys(selected): a metric runs at its first mention only.
Repeated == \E j \in 1..(at - 1) : metrics[j] = metrics[at]

NextMetric ==
    /\ stage = "next"
    /\ \/ /\ at > Len(metrics)
          /\ stage' = "done"
          /\ UNCHANGED <<callVars, at, result, asks>>
       \/ /\ at <= Len(metrics) /\ Repeated
          /\ at' = at + 1
          /\ UNCHANGED <<callVars, stage, result, asks>>
       \/ /\ at <= Len(metrics) /\ ~Repeated /\ blank
          /\ Merge(metrics[at], NoScore,
                   IF metrics[at] = "faithfulness" THEN NothingToVerify
                                                   ELSE result.verdicts)
       \/ /\ at <= Len(metrics) /\ ~Repeated /\ ~blank
          /\ Ask(IF metrics[at] = "faithfulness" THEN "extract" ELSE "generate")
          /\ UNCHANGED <<at, result>>
    /\ UNCHANGED <<request, work>>

\* The exception of a failed question, or a batch that stayed misaligned: the
\* results of the metrics before it are dropped with it.
Raise ==
    /\ stage' = "failed"
    /\ result' = NoResult
    /\ EndCall
    /\ UNCHANGED <<request, at, work, asks>>

Asking ==
    /\ CallStep
    /\ UNCHANGED <<request, at, stage, work, result, asks>>

CallFailed ==
    /\ call = "failed"
    /\ Raise

Answered(where) == stage = where /\ call = "answered"

(***************************************************************************)
(* Faithfulness.                                                           *)
(***************************************************************************)

Extracted(c) ==
    /\ Answered("extract")
    /\ claims' = c
    /\ Ask(IF c = <<>> THEN "reextract" ELSE "verify")
    /\ UNCHANGED <<request, at, start, run, runs, result>>

Reextracted(c) ==
    /\ Answered("reextract")
    /\ claims' = c
    /\ \/ /\ c = <<>>
          /\ Merge("faithfulness", NoScore, NothingToVerify)
       \/ /\ c # <<>>
          /\ Ask("verify")
          /\ UNCHANGED <<at, result>>
    /\ UNCHANGED <<request, start, run, runs>>

Batch ==
    SubSeq(claims, start,
           IF start + BatchSize > Len(claims) THEN Len(claims)
                                              ELSE start + BatchSize - 1)

\* Mutant: only the number of items is checked.
RightNumber(items) == Len(items) = Len(Batch)

\* _batch_problem found nothing.
LinesUp(items) ==
    /\ Len(items) = Len(Batch)
    /\ \A i \in DOMAIN Batch : items[i].claim = Batch[i]

\* How many of the runs gave claim i the verdict v.
Count(all, i, v) == Cardinality({r \in DOMAIN all : all[r][i].verdict = v})

\* The verdicts no other one outnumbers.
Leaders(all, i) ==
    {v \in VerdictNames :
        \A u \in VerdictNames : Count(all, i, u) <= Count(all, i, v)}

\* Mutant: a tie goes to the verdict seen first.
FirstSeen(all, i) ==
    IF all[1][i].verdict \in Leaders(all, i) THEN all[1][i].verdict
    ELSE CHOOSE v \in Leaders(all, i) : TRUE

\* The single winner of the vote, and "uncertain" on a tie.
Winner(all, i) ==
    IF \E v \in VerdictNames : Leaders(all, i) = {v}
    THEN CHOOSE v \in VerdictNames : Leaders(all, i) = {v}
    ELSE "uncertain"

Vote(all) ==
    [i \in DOMAIN claims |-> [claim |-> claims[i], verdict |-> Winner(all, i)]]

HowMany(verdicts, names) ==
    Cardinality({i \in DOMAIN verdicts : verdicts[i].verdict \in names})

\* Mutant: uncertain claims count against the lenient score too.
ScoreAlwaysStrict(verdicts, isStrict) ==
    [num |-> HowMany(verdicts, {"supported"}), den |-> Len(verdicts)]

Score(verdicts, isStrict) ==
    LET decided == HowMany(verdicts, {"supported", "unsupported"})
    IN  IF ~isStrict /\ decided = 0 THEN NoScore
        ELSE [num |-> HowMany(verdicts, {"supported"}),
              den |-> IF isStrict THEN Len(verdicts) ELSE decided]

MoreRuns(finished) == Len(finished) < k

\* The batch lines up: on to the next one, the next run, or the vote.
Record(items) ==
    LET extended == run \o items
        finished == Append(runs, extended)
    IN \/ /\ start + BatchSize <= Len(claims)
          /\ start' = start + BatchSize
          /\ run' = extended
          /\ Ask("verify")
          /\ UNCHANGED <<runs, at, result>>
       \/ /\ start + BatchSize > Len(claims)
          /\ start' = 1
          /\ run' = <<>>
          /\ runs' = finished
          /\ \/ /\ MoreRuns(finished)
                /\ Ask("verify")
                /\ UNCHANGED <<at, result>>
             \/ /\ ~MoreRuns(finished)
                /\ Merge("faithfulness", Score(Vote(finished), strict),
                         Vote(finished))

Verified(items) ==
    /\ Answered("verify")
    /\ \/ /\ LinesUp(items)
          /\ Record(items)
          /\ UNCHANGED <<request, claims>>
       \/ /\ ~LinesUp(items)
          /\ Ask("reverify")
          /\ UNCHANGED <<request, at, work, result>>

\* Mutant: a batch that stays misaligned is asked for again and again.
ReverifiedForever(items) ==
    /\ Answered("reverify")
    /\ \/ /\ LinesUp(items)
          /\ Record(items)
          /\ UNCHANGED <<request, claims>>
       \/ /\ ~LinesUp(items)
          /\ StartCall
          /\ UNCHANGED <<request, at, stage, work, result, asks>>

Reverified(items) ==
    /\ Answered("reverify")
    /\ \/ /\ LinesUp(items)
          /\ Record(items)
          /\ UNCHANGED <<request, claims>>
       \/ /\ ~LinesUp(items)
          /\ Raise

(***************************************************************************)
(* Relevance.                                                              *)
(***************************************************************************)

Generated ==
    /\ Answered("generate")
    /\ Ask("rate")
    /\ UNCHANGED <<request, at, work, result>>

\* The schema admits exactly QuestionCount ratings of 0, 1 or 2; points is
\* their sum.
Rated(points) ==
    /\ Answered("rate")
    /\ Merge("relevance", [num |-> points, den |-> 2 * QuestionCount],
             result.verdicts)
    /\ UNCHANGED <<request, work>>

------------------------------------------------------------------------------
\* What a schema-valid answer to a verification may be: any items for any
\* number of claims (one more than were asked is as wrong as ten more).
Replies == UNION {[1..n -> Items] : n \in 0..(Len(Batch) + 1)}

Next ==
    \/ NextMetric \/ Asking \/ CallFailed
    \/ \E c \in Extractions[k] : Extracted(c) \/ Reextracted(c)
    \/ \E items \in Replies : Verified(items) \/ Reverified(items)
    \/ Generated
    \/ \E points \in 0..(2 * QuestionCount) : Rated(points)

\* An evaluation always goes on: every POST has a timeout.
Spec == Init /\ [][Next]_vars
FairSpec == Spec /\ WF_vars(Next)

------------------------------------------------------------------------------
(***************************************************************************)
(* Properties.                                                             *)
(***************************************************************************)

Over == stage \in {"done", "failed"}

\* _batch_problem: no verdict is attached to another claim. Over batches,
\* repeated requests and runs, the i-th verdict of every run was given for
\* the i-th claim, and every finished run has one for each.
RunsLineUp ==
    /\ \A r \in DOMAIN runs :
           /\ Len(runs[r]) = Len(claims)
           /\ \A i \in DOMAIN claims : runs[r][i].claim = claims[i]
    /\ \A i \in DOMAIN run : i < start /\ run[i].claim = claims[i]

\* _verify_claims: a verdict other than "uncertain" was given by more runs
\* than any other, and "uncertain" hides no such verdict.
VerdictsArePlural ==
    result.verdicts \notin {<<>>, NothingToVerify} =>
        \A i \in DOMAIN result.verdicts :
            LET n(v) == Cardinality({r \in 1..k : runs[r][i].verdict = v})
                leads(v) == \A u \in VerdictNames \ {v} : n(u) < n(v)
            IN \A v \in {"supported", "unsupported"} :
                   leads(v) <=> result.verdicts[i].verdict = v

\* _score: a share, 1 only when nothing was found unsupported, missing only
\* when there was nothing to score, and never better by the strict rule.
ScoreIsAShare ==
    LET f == result.faithfulness
        verdicts == result.verdicts
        hard == Score(verdicts, TRUE)
        soft == Score(verdicts, FALSE)
    IN verdicts # <<>> =>
           /\ verdicts = NothingToVerify => f = NoScore
           /\ f.num <= f.den
           /\ f = NoScore =>
                  \A i \in DOMAIN verdicts : verdicts[i].verdict = "uncertain"
           /\ (f # NoScore /\ f.num = f.den) =>
                  \A i \in DOMAIN verdicts : verdicts[i].verdict # "unsupported"
           /\ soft # NoScore => hard.num * soft.den <= soft.num * hard.den
           /\ (\A i \in DOMAIN verdicts : verdicts[i].verdict # "unsupported") =>
                  strict \/ f = NoScore \/ f.num = f.den

\* What an evaluation may cost: two extractions, two questions for each batch
\* of each run, two for relevance. Nothing else asks the judge.
AsksBounded ==
    LET batches == (Len(claims) + BatchSize - 1) \div BatchSize
    IN asks <= 4 + 2 * k * batches

\* Both limits together bound the POSTs of an evaluation.
CostIsBounded == PostsBounded /\ AsksBounded

\* What is left of an evaluation, the slowest counter first: metrics, phases of
\* the running one, runs, claims to verify, a second request for the batch,
\* completions, POSTs, the answer.
Phase == [next |-> 4, extract |-> 3, generate |-> 3, reextract |-> 2, rate |-> 2,
          verify |-> 1, reverify |-> 1, done |-> 0, failed |-> 0]
Left ==
    <<Len(metrics) + 1 - at, Phase[stage], k - Len(runs), Len(claims) + 1 - start,
      IF stage = "verify" THEN 1 ELSE 0, MaxAttempts - attempt,
      MaxRetries - tries, IF call = "waiting" THEN 1 ELSE 0>>

\* The first counter that differs is lower.
Less(left, before) ==
    \E i \in DOMAIN left : /\ left[i] < before[i]
                           /\ \A j \in 1..(i - 1) : left[j] = before[j]

\* No answer of the judge, no failure and no retry leads an evaluation back:
\* each of the nested loops uses up what it has only so much of.
EveryStepCounts == [][Left' \in Seq(Nat) /\ Less(Left', Left)]_vars

\* An evaluation ends, whatever the judge answers: the worker's retry loop and
\* its shutdown rest on it.
EvaluationEnds == <>Over
=============================================================================
