--------------------------- MODULE MCMetricsStore ---------------------------
(* Instances of MetricsStore for TLC. *)
EXTENDS MetricsStore

CONSTANT h1

OneHost == {h1}

\* An agent's clock that is right, or a second ahead.
InStepOrAhead == {0, 1}
=============================================================================
