# Formal models of the OTLP take-home repository

The repository holds several small programs. The one with logic of its own is the metric store
(`src/otlp-metric-store-backend-go`): a gRPC server that acknowledges OTLP metrics as soon as they are
queued and writes them to ClickHouse in large batches. This directory models it in TLA+, checks the models
with TLC and proves the safety properties of the ingester, the cache, the reads, the mapper and the process with
TLAPS.

## 1. Inventory

| Component | State | Operations | Modelled in |
|---|---|---|---|
| Ingester (`ingester.go`) | bounded channel `queue`, unbuffered `flushReq`, `done`; `pendingPoints`, `pendingMeta`, `seen`; counters | `Enqueue`, `Flush`, `Close` by callers; `run`, `accumulate`, `flush` by one goroutine | `Ingester` |
| Fingerprint cache (`ingester.go:213-245`) | map and list | `newFingerprintCache`, `add` | `FingerprintCache` |
| Metrics mapper (`metrics_mapper.go`) | none between calls; `points`, `metadata` and the set of fingerprints seen within one | `MapMetrics`, `fingerprintSeries` and their helpers | `MetricsMapper` |
| Export handler (`metrics_service.go`) | none; one goroutine per request | `Export` | `Ingester`, `MetricsServer` |
| Process (`server.go`, `otel.go`) | providers, connection, listener, deferred calls, `err` | `run`, `setupOTelSDK` | `MetricsServer` |
| ClickHouse store (`clickhouse_client.go`) | connection | `CreateTables`, `InsertPoints`, `InsertMetadata`, `Close`, `QueryRange` | inserts in `Ingester`, opening and closing in `MetricsServer`, `QueryRange` in `MetricStore` |
| Schema (`clickhouse_schema.go`) | two tables | engines, their merges, the view | `Ingester`, `MetricStore` |
| Java log processor | executor and server of the gRPC library | `export` answers and keeps nothing | no: a skeleton around library objects |
| Log viewer API, Node.js hello world, event-tracking script | none | generated sample data, one route, one query | no: nothing to violate |

**How they interact.** `run` (server.go) opens the store, creates the tables, starts the ingester and serves.
Each `Export` runs in a goroutine of its own: it maps the request, hands series and points to `Enqueue`, and
answers the client when the channel has taken the item. The flusher goroutine receives items, `Flush`
requests and ticks through one `select`, keeps the batch and the cache to itself, and calls the store. When
`Serve` fails, the deferred calls close the ingester, the store and the telemetry providers, in that order.
Readers call `QueryRange`, or query the view over both tables, while all of this goes on.

**What is hard.** The choice among ready `select` cases; a send that is blocked when the channel is closed;
inserts that fail or time out, and whose rows may land much later; a client that sends a request again; a cache
that speaks of inserts that have not happened; the end of the process at any of these points and its restart with
an empty cache; a read of two queries with inserts, late rows and merges between them; startup that fails
half-way; the identity of a series, on which the join of the two tables rests.

**What makes each correct.**
- Ingester: an acknowledged point is never dropped without a trace and never stored twice; points can be
  joined with their series; limits hold; `Close` drains; blocked callers get on.
- Cache: an LRU set whose two structures agree, and "new" exactly for what it does not hold.
- Read paths: a read misses nothing that was visible when it began; both paths give a point equally often; no
  readable point is hidden again.
- Mapper: equal fingerprints exactly for equal series, and equal rows for equal fingerprints; what the ingester
  assumes of a request.
- Process: nothing leaks, every error is reported, the store outlives its last user, and the providers of telemetry
  outlive both: what happens to an acknowledged request is recorded while it still can be.

## 2. Plan

Written, in this order: (1) `FingerprintCache`; (2) `Ingester` with the cache and the tables; (3) `AckedDelivery`,
what acknowledging promises, implemented by `Ingester`; (4) proofs about `Ingester`; (5) `MetricsMapper`;
(6) `MetricsServer`; (7) late landing, merges and client retries in `Ingester`; (8) `MetricStore`, the read paths next
to the ingester, with `MetricStoreProofs`.

(9) proofs of the order and the counters of the ingester, and about the cache, the process and the fingerprint;
(10) `MetricsMapper` as a state machine with a step for each data point, and its four properties proved for every
set of requests.

The plan is done. The Java server is worth a module only if its own code grows beyond library calls.

## 3. Modules and the code

**`Ingester`.** One action per `select` case or handler part at which another goroutine can get in.
- `Export(c)` maps the request and enters `Enqueue`, also for a client that sends a request again after it was
  cancelled or failed with the process; `Enqueue(c)`, `EnqueueCancelled(c)` and
  `EnqueueOnClosed(c)` are the outcomes of its `select`: the item is sent, the context ends, or the channel is
  closed and the send panics, which ends the process. An unsuccessful wait is simply no step.
- `Flush(f)`, `FlushRequest(f)`, `AnswerFlush` and `FlushCancelled(f)` are the rendezvous on `flushReq` and the
  wait for the answer. `Close(k)`, `CloseReturns(k)`, `CloseCancelled(k)` likewise.
- `Receive`, `AccumulateSeries`, `AccumulateDone` are one item's way into the batch, a step for each lookup;
  `Tick`, `FlushRequest`, `ReceiveClosed` start a flush. `ReceiveClosed` needs an empty queue, as a receive
  from a closed channel does.
- `FlushNothing`, `InsertPoints`, `InsertMetadata` are `flush`: points, then metadata whatever came of the points,
  then both buffers emptied. The state between the two inserts is visible, so a process can end in it.
- `Die` is what the end of a process does to every variable; `Crash` (bounded by `MaxCrashes`) and
  `EnqueueOnClosed` use it. `Restart` starts an empty ingester on the same tables.

- `PointLands(p)`, `MetaLands(f)` and `Merge(f)` are steps of ClickHouse by itself.

`pc` is where the flusher is; `stopping` tells that the flush under way is the last. `pointRows` and `metaRows`
count rows. `ackOrder`, `flushMark`, `failed...` and `lost...` are history that no guard reads: `failed...` is what
this process has logged as failed, `lost...` what went down with a process.

An insert that fails, times out or is cut off by the end of the process may have reached the server. Its rows go
to `pointsInDoubt` or `metaInDoubt`, from where each may land at any later time, or never; so any part of a batch
may be stored in the end (ClickHouse writes each daily partition as a whole, and the points of a batch may be of
different days). A merge of `ReplacingMergeTree` leaves one or more rows of a fingerprint. The contents of a row are
abstracted to a point's name and a series' fingerprint.

**`MetricStore`** extends `Ingester` with calls of `QueryRange`. `Resolve(r)` and `Scan(r)` are its two queries, each of
which sees the tables as they are at that moment, with any number of steps of the ingester and of ClickHouse before,
between and after them; `ReadFails(r)` is an error of either, and the caller of the second gets the rows that had
arrived. `ViewRows(p)` is what the view shows. `due` records what was visible, or some reader had been given, when the
call was made. A read is not a snapshot: it may return a point and miss an older one of a series whose metadata
landed after its first query, so no property says that it is one. What is claimed is that it misses nothing due.

**`FingerprintCache`** has the cache as a record of the map's keys and the list, front first. `Ingester` uses it
as the code does; `MCFingerprintCache` drives it alone and compares it with its history.

**`AckedDelivery`** says what acknowledging on enqueue promises: a point is accepted once and settled once; settling
stores it, loses it or leaves it in doubt, and what is in doubt may `Land` once, later. `Ingester` implements it with
`accepted <- AckedPoints`, `settled <- AckedPoints \ InFlightPoints`, `copies <- pointRows` and `inDoubt` the points with
rows in doubt: `Enqueue` is `Accept`; the return of `InsertPoints` and the end of a process are `Settle`; `PointLands` is
`Land`.

**`MetricsMapper`** is one call of `MapMetrics`, with the variables of the code under their names. `MapDataPoint` is the
body of the innermost loop and `Return` the end of the call; `MetricRows`, `ScopeRows`, `ResourceRows` and `Rows` are the
loops from the inside out, with `IsSkipped` as the `continue`. There is an operator for each helper, under its name.
- Whether two series collide is a question about bytes, so strings are byte sequences, and the fingerprint is the
  stream fed to xxhash (no collisions of xxhash itself).
- Go ranges over a map in an order that varies: `MapDataPoint` takes any order (`Rangings`) for each of the three maps of
  a series, and `SortStrings` makes of it what `sort.Strings` does: each key stands behind those that are `Before` it.
- The types of a request (`AnyValue`, `Metric`, `ResourceMetrics`, ...) are those of the protobuf library. Attribute
  values are strings, non-negative integers and one level of nested lists. Keys may be repeated: `serviceName` takes
  the first, `kvToMap` the last. Timestamps are unsigned and become signed at `TwoTo63`.

What a request says is stated a second time, without the loops: `Places` are the indices of its data points,
`DataPointAt` and `SeriesAt` what stands there. The integer 12 and the string "12" become one value, so "the same
series" is a matter of texts, as it is in the table's columns (`Meaning`).

**`MetricsServer`** follows `run` and `setupOTelSDK` statement by statement, with the failure of each. `deferred` is
the stack of deferred calls, `open` what has been acquired and not released, `err` the joined errors. `telemetry` tells
what has become of each thing that is recorded: the count of each request, the log line of a failed last flush (of
which `Close` returns no error), and `main`'s line about `run`'s error.
- An open provider holds what it is given (`Record`); one that is not started or is shut down loses it. What is held is
  exported by a batcher or reader (`ExportTelemetry`) or by the shutdown, and may be dropped when an exporter fails
  (`ExportTelemetryFails`), of which nobody is told. A count is a running total, so the next export has it.
- `Serve` returns without waiting for handlers and without closing connections. So connections are made while it runs
  (`Connect`), but their requests come in, are counted, and are answered (`Export`, `ExportReturns`, `ExportEnqueued`)
  or panic (`ExportPanics`) at any time until the process ends, also between and after the deferred calls.
- Counts made after the meter's shutdown are lost, and no property denies it. `TelemetryIsExported` claims
  that this cannot happen to a request that is still enqueued: the channel is closed before the providers are shut down.
- `Killed` ends the process anywhere, since no signal is handled.

Some operators are marked *slip*. They are not part of any next-state relation: each is the mutation of the
definition that follows it, a mistake one could plausibly make in that line of the code, and exists to show that
the property named for it in `PROJECT.json` fails with it.

## 4. Runs

| Run | Module, configuration | Question | Expected |
|---|---|---|---|
| `core` | `MCIngester`, `MCIngester.cfg` | all safety properties, with `Close` after all callers, retries of clients, failing inserts, late rows, merges and one crash | holds |
| `server` | `MCIngester`, `MCIngesterServer.cfg` | the same promises when `Close` does not wait for handlers, as in `server.go` | holds |
| `live` | `MCIngester`, `MCIngesterLive.cfg` | does everyone who waits get an answer, and can every acknowledged point be read in the end | holds |
| `reads` | `MCMetricStore` | are reads complete, in agreement with the view, and is what is readable stable | holds |
| `cache` | `MCFingerprintCache` | is it an LRU set | holds |
| `mapper` | `MCMetricsMapper` | are rows, fingerprints and series what the request says | holds |
| `lifecycle` | `MetricsServer` | does every path out of `run` clean up, report and record in time | holds |
| `suppression` | `MCIngesterSuppression.cfg` | is a suppressed series inserted | violated |
| `flush_race` | `MCIngesterFlushRace.cfg` | does `Flush` cover what was acknowledged before it | violated |
| `server_panics` | `MCIngesterServerPanics.cfg` | does no `Export` send on the closed channel | violated |
| `loss` | `MCIngesterLoss.cfg` | is data lost on a crash only | violated |
| `mapper_nested` | `MCMetricsMapperNested.cfg` | is the fingerprint independent of order | violated |

**What the violated ones show.**
- `suppression`: after a metadata batch failed, its series stay in the cache and are not inserted again until they
  are evicted or the process restarts; their points are stored and cannot be joined (`ingester.go:28`, `170-172`).
- `flush_race`: an item is queued, `Flush` is called, `select` takes the flush request first, and `Flush` returns with
  the item still queued (`integration_test.go:300`, `ingester.go:113-128`).
- `server_panics`: the deferred `Close` closes the channel under a handler (`ingester.go:61-63`, `server.go:85,106`).
- `loss`: a failed insert loses acknowledged points without any crash (`README.md:140` of the store; `ingester.go:192`
  calls it an accepted limitation).
- `mapper_nested`: the entries of a nested attribute are hashed in the order in which they came
  (`metrics_mapper.go:60`, `166-168`).

**Bounds.** `core` has three requests: two points of two series, then a point of a series seen before, then a third
series. With a batch limit of two points, a queue of two items and a cache of two series every limit is
reached: a full queue, a batch that fills up and one that does not, eviction while the row is pending (the third
request, then the first), a series seen again after eviction (first, third, second). One crash gives two processes
on the same tables; the second meets rows of the first, and a third would meet nothing new. `server` adds an empty request. `live` has two requests, a `Flush` and a `Close`, no
crash, and no symmetry. `reads` has two calls of `QueryRange`, so that one can ask for what the other was given, for one of
two names, in a window with a point at each end; a cache of one series, so that the metadata table gets
duplicates, which merge; failing inserts, late rows and one crash. `cache` has four fingerprints for two places and sequences of six, so that every order of
hits and evictions occurs. `mapper` has two resources and three mapped data points, with lists of at most two
attributes in both orders and every order of `range`, among them a list that repeats a key and a resource with two
service names whose map is that of a resource with one; texts that are the same bytes divided in two ways; an
unsupported metric in front of a supported one; "12" as a string and as an integer; and, with `TwoTo63 = 4`, a time
that turns negative. `lifecycle` is finite apart from its connections, of which there are two: one request can be
enqueued in time while the other is counted after the shutdown of the providers. Deadlock is not
checked: a process may be at rest with nobody calling, or have ended.

**Fairness** (`live`). Go's `select` picks among ready cases with equal chances, so a case that is ready again and
again is taken: strong fairness of `Receive`, `Tick`, `ReceiveClosed` and each `FlushRequest(f)`, and of a blocked sender
each time there is room. `Tick` is always possible at the `select`, as the ticker fires every `FlushInterval`. The
steps within `accumulate` and `flush` and the return of `Close` are those of a goroutine nothing blocks for ever, an
insert being ended by `flushTimeout`: weak fairness. No fairness is assumed of clients, contexts, crashes,
restarts, late rows or merges. Calls that wait for the ingester are shown to return without relying on their contexts.

## 5. Proofs

The theorems about the ingester and the reads hold for every number of requests, callers, points and series, every
configuration (values that are not positive take their defaults) and every number of crashes;
those about the mapper for every set of requests. The assumptions are
named where the constants are declared, and TLC evaluates them in the runs:
- `ConfigAssumption`, `RequestAssumption` (what `MapMetrics` returns; its dedup part is `SeriesListedOnce`, which is proved
  for the mapper) and `DistinctPointsAssumption` (a name stands for one point of one request) of `Ingester`;
- `QueryAssumption` of `MetricStore`: what the readers ask for is a name and a window of times;
- `CapacityAssumption` of `MCFingerprintCache`: the capacity is positive, as `withDefaults` makes it;
- `ServiceNameAssumption`, `TimeAssumption` and `RequestsAssumption` of `MetricsMapper`: a string, a positive number, and
  requests of the types that the protobuf library delivers.

- `IngesterProofs`
  - `TypeCorrect`: `Spec => []TypeOK`. `TypeOK` is inductive, given that `Written` maps a table to a table, `Add` a cache
    to a cache within its capacity, and that the default limits are positive.
  - `ControlInv` ties `pc` to the rest: buffers are empty once the flusher has exited, `stopping` means a closed and
    drained channel, and so on. `BatchIsBounded` is one of its conjuncts: it is inductive only with the number of series
    still to be looked up, `Len(pendingMeta) + Len(todo) <= Len(pendingPoints)`.
    From it: `BatchBounded`, `CloseIsFinal`.
  - `CoverInv` adds to `SuppressedIsCovered` and `StoredIsJoinable` that a series whose points are in the batch has been
    looked up or is in `todo`, and it speaks of points that are stored or in doubt (`Sent`), as a row in doubt may land
    when nothing else happens. From it: `SuppressionIsCovered`, `StoredPointsAreJoinable`.
- `IngesterDeliveryProofs`: `OwnershipInv` says that a point in memory was acknowledged, is there once, in the queue or
  the buffer, and is `Unsent`: it has no row and none in doubt; every other point has one row or one in doubt and not
  both (`SentOnce`), or neither. `DeliverySteps` shows that every step leaves what `AckedDelivery` sees alone, accepts
  the points of one request, settles a set of points, each of which then has a row or is on record, or lets one row
  land. From it: `StoredOnce`, `NothingLostSilently` and `Implements`, the refinement of `AckedDelivery`.
- `MetricStoreProofs`: readers change nothing, so what holds of `Spec` holds of `StoreSpec`; and no step takes the last row
  of a point or of a series away (`TablesAreKept`). `ReadInv` adds to the properties that what is due to a reader is
  visible all the time and that the series of what is due are among those it resolved, which is why the second
  query finds it. From it: `ReadsAreComplete`, `ReadsAgreeWithView`, for which `StoredOnce` is needed, and
  `ReadablePointsStay`.

- `IngesterOrderProofs`: `SettledInAckOrder` alone says nothing of requests that are still on their way. `OrderInv` adds that
  the queue keeps the order of the acknowledgements, that whatever was acknowledged after a queued request is queued
  too or has no points, and that what was acknowledged after a request with buffered points is queued or
  buffered as a whole. `CountInv` adds to `CountersAddUp` that failed points are acknowledged and out of memory, without
  which a second failure could be counted for the same point. From them: `AckOrderIsKept`, `CountersAreComplete`, and
  the action property `FlushLeavesQueueOnly`.
- `FingerprintCacheProofs`: `CacheInv` describes the list by its history: its fingerprints were asked for later than all
  others and later the nearer they are to the front (`Latest`), and a list that is not full has forgotten nothing, without
  which "new" could be answered for an old fingerprint. From it: `MapAndListAgree`, `CacheIsLRU`, `AnswersAreRight`.
- `MetricsServerProofs`: `ControlInv` says at every statement which deferred calls are registered, in their order, what is
  open, and which errors are joined. `TelemetryInv` rests on it: what a provider holds waits for its shutdown, or
  that has failed (`HeldInv`); a request that has been enqueued, *or is running while the channel is open*, has been
  counted in time (`CountInv`), as all providers are open while the channel is (`ProvidersAreOpen`); and so has the
  last flush been logged (`FlushLogInv`). Nothing is claimed of a killed process. From it: `StoreStaysOpen`, `NothingIsLeaked`,
  `AllErrorsAreReported`, `AllTelemetryIsExported`.
- `MetricsMapperProofs`: `Encode(p, q, a, b)` says that when a stream that begins with `p` equals one that begins with
  `q`, the values `a` and `b` are equal and so is the rest. Numbers, strings behind their length and maps behind their
  count are such encodings, and encodings one behind the other are one. The keys of a map have ranks 0, 1, ... in the
  order of `sort.Strings`, total and transitive, so their sorted sequence is one for every order of `range`. From this:
  `FingerprintIsIdentity`, for all series of any strings, numbers and maps.

  `MapInv` says that the points are made of the first rows of the request, one for one, each under a fingerprint of its
  series in some order of `range`; that the fingerprints seen are those of the points and of the metadata; and that
  each metadata row is that of a row, with no fingerprint twice. The properties about
  fingerprints are not inductive by themselves: none says which bytes a fingerprint is or which have been seen,
  and a step that appends a row needs both. Three arguments lead from it to them:
  - `RowsFollowPlaces`: the rows that the loops yield are what stands at `Places`, in their order. A sequence of rows
    is related to a set of places by an increasing map (`AreRowsOf`), which `RowsFlatten` carries through
    `FlattenSeq`, once for each loop, and `SortedIs` says that only one sequence is that. From it: `PointsFollow`.
  - `PointsShareFingerprint`, from `FingerprintIsIdentity`: two points share a fingerprint exactly if their rows have the
    same series, as the strings, numbers and maps of a row are of the right types. From it: `RowsAreInterchangeable`
    and, with `MapInv` alone, `SeriesAreListedOnce`; nested lists are no exception.
  - `SeriesAreTold`: the series of two rows are equal exactly if `SeriesAt` their places is, as two lists mean the same
    exactly if they become the same map (`MeaningsAreMaps`). This holds of lists without nested values, and so
    `FingerprintIdentifies` has that hypothesis. Without it the statement is false, as `mapper_nested` shows.

`SequenceLemmas` holds what several of them need: ranges, injectivity and the order of sequences that grow or lose an
end, and `FlattenSeq` by its partial results. The library's induction takes a predicate as a parameter, which the
provers cannot instantiate; `Induction` here takes a set of numbers instead and rests on the least element of a set
(`WFMin` over `<`). `CopiesProperties` counts what a batch adds with the facts about finite cardinalities, `WrittenGrows`
draws from it that an insert takes no row away.

**Only model-checked:** liveness (`EnqueueTerminates`, `FlushTerminates`, `CloseTerminates`, `AckedIsReadable`), which needs
fairness and `ENABLED`. Every invariant and action property of a passing run is a theorem.

## 6. Not modelled

- A client whose accepted request was answered but who lost the answer, and sends it again: its points are other
  points to the store and are stored a second time, since no key identifies a point.
- The deadline that both inserts share appears as a failing second insert; `FlushInterval` and every other duration
  are left open: the ticker may fire at any time.
- Nothing documents what a timestamp of 2^63 nanoseconds or more should become. The code keeps its bits, and
  `PointsFollowRequest` says no more than that.
- The bounds of a read's window are exact. A driver that shortens a bound `time.Time` to seconds would move
  the window, and neither `ReadIsComplete` nor `ReadAgreesWithView` says anything of that.
- `NothingLeaks` excuses the connection that is open when `CreateTables` fails, whose `Close` is deferred only afterwards
  (`server.go:75-84`, against "so nothing leaks", `server.go:64`); it shows that nothing else is left open.
- SIGTERM and SIGINT end the process like a crash (`Killed`): nothing calls `Close`, although the README of the store
  lists flushing on shutdown (`README.md:133`). What is then lost is on record (`lostPoints`) and no property objects.
- `main`'s line about `run`'s error goes through `slog`'s default handler (`server.go:55`) to the logger provider, which is
  never open by then: `Exit` records it, always in vain. No document says otherwise, so no property is stated.
- float64 rounding, collisions of xxhash, the text of log messages and errors, spans, and gRPC options;
  columns, codecs and indexes of the tables.
- The Java server answers and keeps nothing, the log viewer API generates random samples, the Node.js programs are
  one route and one query: none has state of its own that could go wrong. Tests and benchmarks were read as
  documentation.
