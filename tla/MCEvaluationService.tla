------------------------- MODULE MCEvaluationService -------------------------
\* Instances of EvaluationService for TLC.
EXTENDS EvaluationService, TLC

CONSTANTS j1, j2, j3, w1, w2

\* At most one fault of each kind: a stop, a crash and a failed call can hit
\* the same job or the same worker one after the other.
OneOfEach == [k \in FaultKinds |-> 1]
OneStop == [k \in FaultKinds |-> IF k = "stop" THEN 1 ELSE 0]
=============================================================================
