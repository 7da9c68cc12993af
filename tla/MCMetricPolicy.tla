--------------------------- MODULE MCMetricPolicy ---------------------------
(* MetricPolicy on a small instance: two valid lists, the defaults and one   *)
(* in another order, and one for each way to be invalid.                     *)
EXTENDS MetricPolicy

MCInputs == {DefaultMetricCards, <<"network", "memory", "cpu">>,
             <<"cpu", "cpu", "memory">>, <<"cpu", "gpu", "disk">>, <<"cpu", "disk">>}
=============================================================================
