--------------------------- MODULE MCMetricsMapper ---------------------------
(***************************************************************************)
(* The requests of a small universe.  A request has two resources.  The    *)
(* first brings an unsupported metric and a metric with one data point,    *)
(* the second a metric with two; data points are told apart by their time. *)
(***************************************************************************)
EXTENDS MetricsMapper

CONSTANT AttributeLists     \* of the data points

aText == << 97 >>
bText == << 98 >>
ServiceNameText == << 115, 110 >>
String(text)   == [kind |-> "string", text |-> text]
Attr(key, v)   == [key |-> key, value |-> v]
Nested(es)     == [kind |-> "kvlist", entries |-> es]
Entry(k, text) == [key |-> k, text |-> text]

A   == Attr(aText, String(bText))
AB  == Attr(aText, String(aText \o bText))
B   == Attr(bText, [kind |-> "int", number |-> 12])
B12 == Attr(bText, String(<< 49, 50 >>))        \* the string "12"
Svc  == Attr(ServiceNameKey, String(aText))
SvcB == Attr(ServiceNameKey, String(bText))

FlatLists   == {<< >>, << A >>, << AB >>, << A, B >>, << B, A >>, << B12, A >>, << AB, A >>}
NestedLists == {<< Attr(aText, Nested(<< Entry(aText, bText), Entry(bText, aText) >>)) >>,
                << Attr(aText, Nested(<< Entry(bText, aText), Entry(aText, bText) >>)) >>,
                << Attr(aText, Nested(<< Entry(aText, bText) >>)) >>}

DP(list, time) == [attributes |-> list, start |-> 0, time |-> time,
                   value |-> [kind |-> "int", number |-> time], flags |-> 0]
MetricWith(kind, text, monotonic, dps) ==
    [kind |-> kind, name |-> text[1], description |-> text[2], unit |-> << >>,
     temporality |-> 0, monotonic |-> monotonic, dataPoints |-> dps]
Resource(attrs, scopeAttrs, metrics) ==
    [resource |-> attrs, schemaUrl |-> << >>,
     scopeMetrics |-> << [scope |-> [name |-> aText, version |-> << >>, attributes |-> scopeAttrs,
                                     dropped |-> 0],
                          schemaUrl |-> << >>, metrics |-> metrics] >>]

\* The same bytes, divided in two ways.
Texts == {<< aText \o bText, << >> >>, << aText, bText >>}

First(attrs, text, list) ==
    Resource(attrs, << >>, << MetricWith("other", << aText, bText >>, FALSE, << DP(<< >>, 1) >>),
                              MetricWith("gauge", text, FALSE, << DP(list, 2) >>) >>)
Second(attrs, scope, kind, text, list1, list2) ==
    Resource(attrs, scope,
             << MetricWith(kind[1], text, kind[2], << DP(list1, 3), DP(list2, 4) >>) >>)

Kinds   == {<< "gauge", FALSE >>, << "sum", FALSE >>, << "sum", TRUE >>}
Firsts  == {<< Svc >>, << Svc, A >>}
\* The last has the map of << Svc >> and another name.
Seconds == {<< Svc >>, << A, Svc >>, << SvcB, Svc >>}
Scopes  == {<< >>, << A >>}

\* The last data point has the attributes of the first that is mapped.
TwoResources(list1, list2) ==
    {First(attrs, text, list1) : attrs \in Firsts, text \in Texts}
    \X {Second(attrs, scope, kind, text, list2, list1) :
            attrs \in Seconds, scope \in Scopes, kind \in Kinds, text \in Texts}
SmallRequests ==
    UNION {TwoResources(list1, list2) : list1 \in AttributeLists, list2 \in AttributeLists}
=============================================================================
