----------------------------- MODULE MCIngester -----------------------------
(***************************************************************************)
(* Small instances of Ingester.  The first request brings two points of    *)
(* two series, the second a point of the first series again, the third a   *)
(* point of a third series; a fourth brings nothing.  With a batch limit   *)
(* of two points, a queue of one or two items and a cache smaller than the *)
(* number of series, every limit is reached.                               *)
(***************************************************************************)
EXTENDS Ingester, TLC

CONSTANTS c1, c2, c3, c4, p1, p2, p3, p4, f1, f2, f3,
          MaxBatchPoints, QueueCapacity, DedupCacheSize

MCPointsOf   == (c1 :> << p1, p2 >>) @@ (c2 :> << p3 >>) @@ (c3 :> << p4 >>) @@ (c4 :> << >>)
MCMetadataOf == (c1 :> << f1, f2 >>) @@ (c2 :> << f1 >>) @@ (c3 :> << f3 >>) @@ (c4 :> << >>)
MCSeriesOf   == (p1 :> f1) @@ (p2 :> f2) @@ (p3 :> f1) @@ (p4 :> f3)

PointsSeriesOf  == [p \in Points |-> MCSeriesOf[p]]
CallsPointsOf   == [c \in Calls |-> MCPointsOf[c]]
CallsMetadataOf == [c \in Calls |-> MCMetadataOf[c]]

MCConfig == [MaxBatchPoints |-> MaxBatchPoints, QueueCapacity |-> QueueCapacity,
             DedupCacheSize |-> DedupCacheSize]
=============================================================================
