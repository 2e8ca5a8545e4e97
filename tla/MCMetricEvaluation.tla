------------------------- MODULE MCMetricEvaluation -------------------------
\* An instance of MetricEvaluation for TLC.
EXTENDS MetricEvaluation, TLC

CONSTANTS a, b, c

\* One run over two batches, two runs over a full batch (votes may tie), three
\* over one claim (a verdict may have a majority).
SmallExtractions ==
    1 :> {<<>>, <<b, a, c>>} @@ 2 :> {<<a, b>>} @@ 3 :> {<<a>>}

BothMetrics ==
    {<<"relevance", "faithfulness", "relevance">>, <<"faithfulness">>}
=============================================================================
