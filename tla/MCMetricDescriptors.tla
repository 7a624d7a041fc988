------------------------ MODULE MCMetricDescriptors ------------------------
(* Two callers whose metrics overlap.                                      *)
EXTENDS MetricDescriptors, TLC

CONSTANTS p1, p2, d1, d2, d3

MCPushers == {p1, p2}
MCOffers  == p1 :> <<d1, d2, d1>> @@ p2 :> <<d2, d3>>
=============================================================================
