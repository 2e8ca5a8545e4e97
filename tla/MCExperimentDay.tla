--------------------------- MODULE MCExperimentDay ---------------------------
\* Instances of ExperimentDay for TLC.
EXTENDS ExperimentDay

CONSTANTS a, b, c1, c2

Basic == [models |-> <<a, b>>, conf |-> c1, cloud |-> FALSE,
          include |-> "none", lock |-> TRUE, deploy |-> TRUE]

\* Two models and the deployment check; one of them under other settings,
\* with rows from elsewhere; the cloud judge; a mistyped --include-rows.
FourPlans ==
    {Basic,
     [Basic EXCEPT !.models = <<b>>, !.conf = c2, !.include = "file",
                   !.lock = FALSE, !.deploy = FALSE],
     [Basic EXCEPT !.models = <<a>>, !.cloud = TRUE, !.deploy = FALSE],
     [Basic EXCEPT !.models = <<b>>, !.include = "missing", !.deploy = FALSE]}

\* A day, and the next one with another token budget.
TwoSettings == {Basic, [Basic EXCEPT !.conf = c2]}
=============================================================================
