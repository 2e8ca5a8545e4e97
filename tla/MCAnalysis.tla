----------------------------- MODULE MCAnalysis -----------------------------
\* Instances of Analysis for TLC.
EXTENDS Analysis

CONSTANTS t1, t2, official, other, slm, cloud, m1, m2, d1, d2, c1, c2

S(label, task, split) == [label |-> label, task |-> task, split |-> split]

SeqsUpTo(set, n) == UNION {[1..k -> set] : k \in 1..n}

\* A hallucinated and a faithful sample in each of two halves, and one more.
Five == <<S(TRUE, t1, official), S(FALSE, t1, official),
          S(TRUE, t2, official), S(FALSE, t1, official), S(TRUE, t2, official)>>

\* Every dataset of up to five samples of one split, and of up to three of two.
Drawable ==
    SeqsUpTo({S(l, t, official) : l \in BOOLEAN, t \in {t1, t2}}, 5)
    \cup SeqsUpTo({S(l, t1, s) : l \in BOOLEAN, s \in {official, other}}, 3)

Everything == [split |-> NoSplit, limit |-> NoLimit, stratify |-> FALSE]
ManyRequests ==
    {Everything} \cup [split : {official}, limit : 1..4, stratify : BOOLEAN]

FiveBenchmark == {<<Five, Everything>>}

\* The halves 12/345; everything in one half; another split in d2.
SomeFolds ==
    LET halves(in0) == [x \in {d1, d2} \X (1..5) |->
                            IF x \in in0 THEN 0 ELSE 1]
    IN  {halves({d1, d2} \X {1, 2}), halves({}),
         halves(({d1} \X {1, 2}) \cup ({d2} \X {1, 2, 3}))}

Grades == {0, 2, 4} \cup {Missing}

Plain == [judge |-> slm, model |-> m1, dataset |-> d1, mode |-> "mask",
          conf |-> c1, manifest |-> TRUE, labelled |-> TRUE,
          score |-> [p \in 1..5 |-> 2]]

\* Samples of every kind; one is plain and one is in two buckets.
Shapes == <<{"long_context"}, {}, {"numeric_claim", "short_answer"},
            {"multi_passage"}, {"conjoined_claims"}>>

\* A judge that is right, and one that is not and fails once.
Right == [p \in 1..5 |-> IF p % 2 = 1 THEN 0 ELSE 4]
Poor == [p \in 1..5 |-> IF p = 4 THEN Missing ELSE IF p = 1 THEN 4 ELSE 2]

\* One file with any scores.
OneFile ==
    {<<[Plain EXCEPT !.score = g, !.labelled = l]>> :
        g \in [1..5 -> Grades], l \in BOOLEAN}

Metas == {[Plain EXCEPT !.judge = j, !.model = m, !.dataset = d, !.mode = o,
                        !.conf = c, !.manifest = k, !.score = Right] :
             j \in {slm, cloud}, m \in {m1, m2}, d \in {d1, d2},
             o \in {"mask", "off"}, c \in {c1, c2}, k \in BOOLEAN}

\* Runs of one judge, model and dataset.
Alike == {f \in Metas : f.judge = slm /\ f.model = m1 /\ f.dataset = d1}

\* One of them and a file of any provenance.
TwoFiles == {<<f, [g EXCEPT !.score = Poor]>> : f \in Alike, g \in Metas}

ThreeFiles ==
    {<<f, [g EXCEPT !.score = Poor], h>> : f \in Alike, g \in Alike, h \in Alike}

\* Two that err on the same samples.
TwoPoor ==
    {<<[Plain EXCEPT !.score = Poor], [g EXCEPT !.score = Poor]>> : g \in Metas}

SomeFiles == OneFile \cup TwoFiles \cup ThreeFiles \cup TwoPoor
=============================================================================
