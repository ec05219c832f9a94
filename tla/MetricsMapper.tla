---------------------------- MODULE MetricsMapper ----------------------------
(***************************************************************************)
(* MapMetrics (metrics_mapper.go): an OTLP request becomes the rows of its *)
(* data points and one metadata row per series, a series being known by    *)
(* the fingerprint of everything that its points share.                    *)
(*                                                                         *)
(* Whether two series get the same fingerprint is a question about bytes,  *)
(* so a string is the sequence of its bytes here.  A step maps one data    *)
(* point, in the order of the loops.                                       *)
(***************************************************************************)
EXTENDS Integers, Sequences, SequencesExt

CONSTANTS
    ServiceNameKey, \* the string "service.name"
    TwoTo63,        \* timestamps are below twice this number
    Requests        \* what clients may send

Bytes == Seq(Nat)

ASSUME ServiceNameAssumption == ServiceNameKey \in Bytes
ASSUME TimeAssumption == TwoTo63 \in Nat \ {0}

metricTypeGauge == << 103 >>
metricTypeSum   == << 115 >>

-----------------------------------------------------------------------------
\* A request as the protobuf library delivers it.  The value of an attribute is a string,
\* an integer, or a nested list of key/value pairs.
AnyValue == [kind : {"string"}, text : Bytes] \cup [kind : {"int"}, number : Nat]
            \cup [kind : {"kvlist"}, entries : Seq([key : Bytes, text : Bytes])]
Attributes == Seq([key : Bytes, value : AnyValue])
Nanos == 0..(2 * TwoTo63 - 1)
Number == [kind : {"double", "int"}, number : Int] \cup [kind : {"none"}]
NumberDataPoint ==
    [attributes : Attributes, start : Nanos, time : Nanos, value : Number, flags : Nat]
Metric == [kind : {"gauge", "sum", "other"}, name : Bytes, description : Bytes, unit : Bytes,
           temporality : Nat, monotonic : BOOLEAN, dataPoints : Seq(NumberDataPoint)]
Scope == [name : Bytes, version : Bytes, attributes : Attributes, dropped : Nat]
ScopeMetrics    == [scope : Scope, schemaUrl : Bytes, metrics : Seq(Metric)]
ResourceMetrics == [resource : Attributes, schemaUrl : Bytes, scopeMetrics : Seq(ScopeMetrics)]

ASSUME RequestsAssumption == Requests \subseteq Seq(ResourceMetrics)

VARIABLES
    resourceMetrics,    \* the argument
    points, metadata, seenFingerprints,
    returned
vars == << resourceMetrics, points, metadata, seenFingerprints, returned >>

-----------------------------------------------------------------------------
Decimal(n) ==
    LET digits[k \in 0..n] == IF k < 10 THEN << 48 + k >>
                              ELSE digits[k \div 10] \o << 48 + (k % 10) >>
    IN  digits[n]

\* %v prints the entries of a nested value in the order in which they came.
Printed(entries) ==
    << 123 >> \o FlattenSeq([i \in DOMAIN entries |->
                        entries[i].key \o << 58 >> \o entries[i].text \o << 32 >>]) \o << 125 >>

anyValueToString(v) == CASE v.kind = "string" -> v.text
                         [] v.kind = "int"    -> Decimal(v.number)
                         [] v.kind = "kvlist" -> Printed(v.entries)

\* The first attribute of that name, and "" if its value is not a string.
serviceName(attrs) ==
    LET i == SelectInSeq(attrs, LAMBDA kv : kv.key = ServiceNameKey)
    IN  IF i # 0 /\ attrs[i].value.kind = "string" THEN attrs[i].value.text ELSE << >>

\* A later attribute overwrites an earlier one with its key.
kvToMap(attrs) ==
    [k \in {attrs[i].key : i \in DOMAIN attrs} |->
        anyValueToString(attrs[SelectLastInSeq(attrs, LAMBDA kv : kv.key = k)].value)]

\* The conversion of a uint64 to an int64 keeps the bits.
nanosToTime(nanos) == IF nanos < TwoTo63 THEN nanos ELSE nanos - 2 * TwoTo63

\* Neither a double nor an integer: zero.
numberDataPointValue(dp) == IF dp.value.kind = "none" THEN 0 ELSE dp.value.number

-----------------------------------------------------------------------------
\* What fingerprintSeries feeds to the digest.  A number is one item of the stream,
\* which aliases more easily than its 4 or 8 bytes do.
HashStringBare(value) == value                              \* slip: no length
hashString(value) == << Len(value) >> \o value

\* The order of sort.Strings: where they first differ, s has ended or has the smaller byte.
Before(s, t) ==
    \E i \in 1..Len(t) :
        /\ i <= Len(s) + 1
        /\ \A j \in 1..(i - 1) : s[j] = t[j]
        /\ i <= Len(s) => s[i] < t[i]

\* The elements of K in that order: each stands behind those that are before it.
Sorted(K) ==
    [i \in 1..Cardinality(K) |-> CHOOSE k \in K : Cardinality({l \in K : Before(l, k)}) = i - 1]
SortStrings(keys) == Sorted(ToSet(keys))

\* keys is what "range m" yields: the keys of m in an order that the runtime varies.
HashKeys(m, keys) ==                                        \* slip: no values
    LET sorted == SortStrings(keys)
    IN  << Len(sorted) >> \o FlattenSeq([i \in DOMAIN sorted |-> hashString(sorted[i])])
hashMap(m, keys) ==
    LET sorted == SortStrings(keys)
    IN  << Len(sorted) >> \o FlattenSeq([i \in DOMAIN sorted |->
                                            hashString(sorted[i]) \o hashString(m[sorted[i]])])

hashUint32(value) == << value >>
hashBool(value)   == << IF value THEN 1 ELSE 0 >>

\* An order for each map of a series.
Rangings(s) == [resource   : SetToSeqs(DOMAIN s.ResourceAttributes),
                scope      : SetToSeqs(DOMAIN s.ScopeAttributes),
                attributes : SetToSeqs(DOMAIN s.Attributes)]

\* Two streams are taken to have different digests: xxhash's own collisions are
\* not modelled, and the fingerprint is the stream.
fingerprintSeries(s, ranging) ==
    hashString(s.MetricType) \o hashString(s.ServiceName)
    \o hashMap(s.ResourceAttributes, ranging.resource) \o hashString(s.ResourceSchemaUrl)
    \o hashString(s.ScopeName) \o hashString(s.ScopeVersion)
    \o hashMap(s.ScopeAttributes, ranging.scope) \o hashUint32(s.ScopeDroppedAttrCount)
    \o hashString(s.ScopeSchemaUrl) \o hashString(s.MetricName)
    \o hashString(s.MetricDescription) \o hashString(s.MetricUnit)
    \o hashMap(s.Attributes, ranging.attributes)
    \o hashUint32(s.AggregationTemporality) \o hashBool(s.IsMonotonic)

-----------------------------------------------------------------------------
IsMapped(metric) == metric.kind \in {"gauge", "sum"}
IsSum(metric)    == metric.kind = "sum"

\* The series of one data point, without its fingerprint.
Series(rm, sm, metric, dp) ==
    [MetricType             |-> IF IsSum(metric) THEN metricTypeSum ELSE metricTypeGauge,
     ServiceName            |-> serviceName(rm.resource),
     ResourceAttributes     |-> kvToMap(rm.resource),
     ResourceSchemaUrl      |-> rm.schemaUrl,
     ScopeName              |-> sm.scope.name,
     ScopeVersion           |-> sm.scope.version,
     ScopeAttributes        |-> kvToMap(sm.scope.attributes),
     ScopeDroppedAttrCount  |-> sm.scope.dropped,
     ScopeSchemaUrl         |-> sm.schemaUrl,
     MetricName             |-> metric.name,
     MetricDescription      |-> metric.description,
     MetricUnit             |-> metric.unit,
     Attributes             |-> kvToMap(dp.attributes),
     AggregationTemporality |-> IF IsSum(metric) THEN metric.temporality ELSE 0,
     IsMonotonic            |-> IsSum(metric) /\ metric.monotonic]

\* "default: continue" leaves out one metric, not those behind it.
StopsAt(metrics, m)   == \E l \in 1..m : ~ IsMapped(metrics[l])      \* slip: break
IsSkipped(metrics, m) == ~ IsMapped(metrics[m])

\* The loops: every data point of every gauge and sum with its series.
MetricRows(rm, sm, metric) ==
    [d \in DOMAIN metric.dataPoints |->
        [dp |-> metric.dataPoints[d], series |-> Series(rm, sm, metric, metric.dataPoints[d])]]
ScopeRows(rm, sm) ==
    FlattenSeq([m \in DOMAIN sm.metrics |-> IF IsSkipped(sm.metrics, m) THEN << >>
                                            ELSE MetricRows(rm, sm, sm.metrics[m])])
ResourceRows(rm) ==
    FlattenSeq([s \in DOMAIN rm.scopeMetrics |-> ScopeRows(rm, rm.scopeMetrics[s])])
Rows(rms) == FlattenSeq([r \in DOMAIN rms |-> ResourceRows(rms[r])])

DataPoint(fingerprint, dp) ==
    [Fingerprint   |-> fingerprint,
     StartTimeUnix |-> nanosToTime(dp.start),
     TimeUnix      |-> nanosToTime(dp.time),
     Value         |-> numberDataPointValue(dp),
     Flags         |-> dp.flags]

-----------------------------------------------------------------------------
Init == /\ resourceMetrics \in Requests
        /\ points = << >> /\ metadata = << >> /\ seenFingerprints = {}
        /\ returned = FALSE

IsFirstInRun(fingerprint) ==        \* slip: compared with the previous point alone
    points = << >> \/ Last(points).Fingerprint # fingerprint
IsUnseen(fingerprint) == fingerprint \notin seenFingerprints

MapDataPoint ==
    /\ ~ returned /\ Len(points) < Len(Rows(resourceMetrics))
    /\ LET row == Rows(resourceMetrics)[Len(points) + 1]
       IN  \E ranging \in Rangings(row.series) :
             LET fingerprint == fingerprintSeries(row.series, ranging)
             IN  /\ points' = Append(points, DataPoint(fingerprint, row.dp))
                 /\ seenFingerprints' = seenFingerprints \cup {fingerprint}
                 /\ metadata' = IF IsUnseen(fingerprint)
                                THEN Append(metadata, [Fingerprint |-> fingerprint,
                                                       Series      |-> row.series])
                                ELSE metadata
    /\ UNCHANGED << resourceMetrics, returned >>

Return ==
    /\ ~ returned /\ Len(points) = Len(Rows(resourceMetrics))
    /\ returned' = TRUE
    /\ UNCHANGED << resourceMetrics, points, metadata, seenFingerprints >>

Next == MapDataPoint \/ Return

Spec == Init /\ [][Next]_vars

-----------------------------------------------------------------------------
(***************************************************************************)
(* The reference: where the data points of gauges and sums stand in the    *)
(* request, a place being the indices of resource, scope, metric and data  *)
(* point, and the series that a place belongs to.  A scalar means its      *)
(* text, as the columns of the metadata table are maps of strings, and a   *)
(* nested list means its entries; of attributes with one key the last      *)
(* counts.                                                                 *)
(***************************************************************************)
ScopeAt(r, s)     == resourceMetrics[r].scopeMetrics[s]
MetricAt(r, s, m) == ScopeAt(r, s).metrics[m]
DataPointAt(p)    == MetricAt(p[1], p[2], p[3]).dataPoints[p[4]]

MetricPlaces(r, s, m) ==
    IF MetricAt(r, s, m).kind = "other" THEN {}
    ELSE {<< r, s, m, d >> : d \in DOMAIN MetricAt(r, s, m).dataPoints}
ScopePlaces(r, s) == UNION {MetricPlaces(r, s, m) : m \in DOMAIN ScopeAt(r, s).metrics}
ResourcePlaces(r) == UNION {ScopePlaces(r, s) : s \in DOMAIN resourceMetrics[r].scopeMetrics}
Places            == UNION {ResourcePlaces(r) : r \in DOMAIN resourceMetrics}

Meaning(v) == IF v.kind = "kvlist" THEN ToSet(v.entries) ELSE anyValueToString(v)
Meanings(list) ==
    {<< list[i].key, Meaning(list[i].value) >> :
        i \in {k \in DOMAIN list : \A l \in DOMAIN list : list[l].key = list[k].key => l <= k}}

SeriesAt(p) ==
    LET rm == resourceMetrics[p[1]]
        sm == ScopeAt(p[1], p[2])
        metric == MetricAt(p[1], p[2], p[3])
    IN  << serviceName(rm.resource), Meanings(rm.resource), rm.schemaUrl,
           sm.scope.name, sm.scope.version, Meanings(sm.scope.attributes), sm.scope.dropped,
           sm.schemaUrl, metric.kind, metric.name, metric.description, metric.unit,
           IF metric.kind = "sum" THEN << metric.temporality, metric.monotonic >> ELSE << >>,
           Meanings(DataPointAt(p).attributes) >>

Represents(time, nanos) ==
    time \in (-TwoTo63)..(TwoTo63 - 1) /\ nanos - time \in {0, 2 * TwoTo63}

IsMadeFrom(point, dp) ==
    /\ Represents(point.StartTimeUnix, dp.start) /\ Represents(point.TimeUnix, dp.time)
    /\ dp.value.kind # "none" => point.Value = dp.value.number
    /\ point.Flags = dp.flags

Fingerprints(rows) == [i \in DOMAIN rows |-> rows[i].Fingerprint]

\* The data points of the gauges and sums of a request become points one for one, in the
\* order of the request and each with its own times, the same 64 bits also from 2^63 on
\* (the loops and "continue", metrics_mapper.go:98-161; nanosToTime, :65-67).
PointsFollowRequest ==
    LET places == Sorted(Places)
    IN  /\ Len(points) <= Len(places)
        /\ returned => Len(points) = Len(places)
        /\ \A i \in DOMAIN points : IsMadeFrom(points[i], DataPointAt(places[i]))

\* Two data points share a fingerprint exactly if they belong to the same series,
\* whatever order attributes were listed in or a map was ranged over in
\* (fingerprintSeries, metrics_mapper.go:165-189).
FingerprintIdentifiesSeries ==
    LET places == Sorted(Places)
    IN  \A i, j \in DOMAIN points :
            points[i].Fingerprint = points[j].Fingerprint
                <=> SeriesAt(places[i]) = SeriesAt(places[j])

\* What the ingester relies on (Ingester's RequestAssumption): a series is listed
\* once, and the series listed are those of the points (metrics_mapper.go:154-157).
SeriesListedOnce ==
    /\ IsInjective(Fingerprints(metadata))
    /\ ToSet(Fingerprints(metadata)) = ToSet(Fingerprints(points))
    /\ Len(metadata) <= Len(points)

\* Any metadata row of a fingerprint can stand for any other, also for one made from
\* values of other types: the row has no column that the digest leaves out ("every
\* duplicate row for a Fingerprint is byte-identical", clickhouse_schema.go:7-9;
\* "12" and 12 become one value, metrics_mapper.go:52-56).
DuplicatesAreInterchangeable ==
    \A i \in DOMAIN points, k \in DOMAIN metadata :
        points[i].Fingerprint = metadata[k].Fingerprint
            => Rows(resourceMetrics)[i].series = metadata[k].Series

\* "It is deterministic and order-independent (map keys are sorted), so the same
\* logical series always hashes to the same value" (metrics_mapper.go:166-168), here
\* for series that differ in the order of the entries of a nested attribute.
OrderIndependent ==
    LET places == Sorted(Places)
    IN  \A i, j \in DOMAIN points :
            SeriesAt(places[i]) = SeriesAt(places[j])
                => points[i].Fingerprint = points[j].Fingerprint
=============================================================================
