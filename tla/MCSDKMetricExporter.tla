------------------------- MODULE MCSDKMetricExporter -------------------------
(* Two overlapping exports of two metrics that share a key: the second     *)
(* names its type otherwise, as a formatter that looks at the data may,    *)
(* has a point that does not convert and a second metric of the same key.  *)
EXTENDS SDKMetricExporter

Of(key, type, points) == [key |-> key, type |-> type, points |-> points]

MCMetricsOf ==
    [e1 |-> <<Of("k1", "t1", <<TRUE>>), Of("k2", "t2", <<TRUE, TRUE>>)>>,
     e2 |-> <<Of("k1", "t2", <<TRUE, FALSE>>), Of("k1", "t1", <<TRUE>>)>>]
=============================================================================
