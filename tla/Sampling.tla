------------------------------ MODULE Sampling ------------------------------
(***************************************************************************)
(* datasets.load: which samples of a dataset a benchmark draws. A dataset  *)
(* is the sequence of its samples after the seeded shuffle (so, any        *)
(* sequence), a sample what the draw can see of it, a draw the set of the  *)
(* positions taken: the code puts them back into the dataset's order.      *)
(***************************************************************************)
EXTENDS Integers, Sequences, FiniteSets, FiniteSetsExt

CONSTANTS
    Tasks,     \* task types
    Splits,    \* official splits
    NoSplit,   \* --split "", or none
    NoLimit    \* no --limit

Sample == [label : BOOLEAN, task : Tasks, split : Splits]
Request == [split : Splits \cup {NoSplit}, limit : (Nat \ {0}) \cup {NoLimit},
            stratify : BOOLEAN]

\* select_split; it raises where this is empty.
Selected(samples, split) ==
    {i \in DOMAIN samples : split = NoSplit \/ samples[i].split = split}

\* positions[:n]
First(positions, n) ==
    {i \in positions : Cardinality({j \in positions : j < i}) < n}

Stratum(samples, i) == <<samples[i].label, samples[i].task>>
Group(samples, from, k) == {i \in from : Stratum(samples, i) = k}
Strata(samples, from) == {Stratum(samples, i) : i \in from}

\* Mutant: every exact share is rounded on its own.
RoundedQuotas(samples, from, limit) ==
    LET total == Cardinality(from)
        scaled(k) == Cardinality(Group(samples, from, k)) * limit
    IN  {[k \in Strata(samples, from) |-> (2 * scaled(k) + total) \div (2 * total)]}

\* Largest-remainder allocation. Between equal remainders the code decides by
\* how their floating-point values happen to be rounded, then by the key.
Quotas(samples, from, limit) ==
    LET total == Cardinality(from)
        strata == Strata(samples, from)
        scaled(k) == Cardinality(Group(samples, from, k)) * limit
        lost(k) == scaled(k) % total
        remaining == limit - MapThenSumSet(LAMBDA k : scaled(k) \div total, strata)
        luckiest == {more \in kSubset(remaining, strata) :
                        \A k \in more, l \in strata \ more : lost(k) >= lost(l)}
    IN  {[k \in strata |-> scaled(k) \div total + (IF k \in more THEN 1 ELSE 0)] :
            more \in luckiest}

StratifiedSample(samples, from, limit) ==
    IF limit >= Cardinality(from) THEN {from}
    ELSE {UNION {First(Group(samples, from, k), quota[k]) : k \in DOMAIN quota} :
             quota \in Quotas(samples, from, limit)}

\* The draws that load may return, none if it raises.
Load(samples, request) ==
    LET from == Selected(samples, request.split) IN
    IF from = {} THEN {}
    ELSE IF request.limit = NoLimit THEN {from}
    ELSE IF request.stratify THEN StratifiedSample(samples, from, request.limit)
                             ELSE {First(from, request.limit)}
=============================================================================
