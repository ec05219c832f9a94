---------------------------- MODULE MCMetricStore ----------------------------
(***************************************************************************)
(* A small instance of MetricStore.  The first request brings points of    *)
(* two series, the second a point of the first series again, and the cache *)
(* holds one series: so the metadata table gets duplicates.  The series    *)
(* have different names and the points different times; a reader asks for  *)
(* the first name in a window that begins and ends at a point.             *)
(***************************************************************************)
EXTENDS MetricStore, MCIngester

CONSTANTS m1, m2

SeriesMetricOf == [f \in Fingerprints |-> IF f = f2 THEN m2 ELSE m1]
PointsTimeOf   == [p \in Points |-> IF p = p3 THEN 2 ELSE 1]
ReadersQueryOf == [r \in Readers |-> [metric |-> m1, start |-> 1, end |-> 2]]
=============================================================================
