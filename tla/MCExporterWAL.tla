--------------------------- MODULE MCExporterWAL ---------------------------
(* Two PushMetrics calls, of one request and of two, or of one each.       *)
EXTENDS ExporterWAL, TLC

CONSTANTS p1, p2

MCPushers   == {p1, p2}
MCBatchesOf == p1 :> 1 @@ p2 :> 2
MCOneEach   == p1 :> 1 @@ p2 :> 1
=============================================================================
