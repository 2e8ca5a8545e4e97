----------------------------- MODULE MCBenchRun -----------------------------
\* Instances of BenchRun for TLC.
EXTENDS BenchRun, TLC

CONSTANTS s1, s2, s3, c1, c2

\* A first run over a prefix, and its extension.
Extended == [l \in Limits |-> IF l = 1 THEN {s1} ELSE Samples]

Series == [k \in EventKinds |->
    CASE k = "session" -> 3 [] k = "crash" -> 2 [] OTHER -> 1]

OneKill == [k \in EventKinds |->
    CASE k = "session" -> 1 [] k = "crash" -> 1 [] OTHER -> 0]
=============================================================================
