------------------------------ MODULE Ingester ------------------------------
(***************************************************************************)
(* The asynchronous batching writer of the metric store (ingester.go):     *)
(* callers of Export, Flush and Close on one side, a single flusher        *)
(* goroutine (run) on the other, a bounded channel of items and an         *)
(* unbuffered channel of flush requests between them, ClickHouse behind    *)
(* the flusher, and a process that can die and be started again.           *)
(*                                                                         *)
(* A call stands for one Export request: MapMetrics gives it the rows      *)
(* PointsOf[call] and MetadataOf[call].  A data point is a name and        *)
(* carries its series' fingerprint SeriesOf[point]; a metadata row is its  *)
(* fingerprint.  A table counts its rows.                                  *)
(***************************************************************************)
EXTENDS Integers, Sequences, FiniteSets, Functions, FingerprintCache

CONSTANTS
    Calls,          \* Export requests
    Flushers,       \* callers of Flush
    Closers,        \* callers of Close
    Points,         \* data points of all requests
    Fingerprints,   \* series
    PointsOf,       \* call  -> its points, in order
    MetadataOf,     \* call  -> its distinct series, in order of first use
    SeriesOf,       \* point -> its series
    Config,         \* the IngesterConfig given to NewIngester
    CallersJoined,  \* TRUE: no Enqueue runs concurrently with or after Close,
                    \* as Close's comment asks and load_test.go does;
                    \* FALSE: server.go, which waits for no handler
    MaxCrashes      \* bound on how often the process is killed

ASSUME ConfigAssumption ==
    /\ Config \in [MaxBatchPoints : Int, QueueCapacity : Int, DedupCacheSize : Int]
    /\ CallersJoined \in BOOLEAN
    /\ MaxCrashes \in Nat

\* What MapMetrics returns (metrics_mapper.go:93-163): a series is listed once,
\* and because one of the request's points belongs to it.
ASSUME RequestAssumption ==
    /\ PointsOf \in [Calls -> Seq(Points)]
    /\ MetadataOf \in [Calls -> Seq(Fingerprints)]
    /\ SeriesOf \in [Points -> Fingerprints]
    /\ \A c \in Calls :
          /\ Len(MetadataOf[c]) <= Len(PointsOf[c])
          /\ Range(MetadataOf[c]) = {SeriesOf[p] : p \in Range(PointsOf[c])}

\* A point is one point of one request.
ASSUME DistinctPointsAssumption ==
    \A c, d \in Calls : \A i \in DOMAIN PointsOf[c], j \in DOMAIN PointsOf[d] :
        PointsOf[c][i] = PointsOf[d][j] => c = d /\ i = j

VARIABLES
    queue,          \* i.queue: the calls whose items it holds
    closed,         \* i.queue has been closed
    pc,             \* where the flusher is, or "down": no process runs
    stopping,       \* the flush under way is run's last
    todo,           \* series of the received item accumulate has not yet looked up
    pendingPoints, pendingMeta, seen,
    flushedPoints, flushedMeta, flushErrors,
    call,           \* state of each Export request
    flushCall,      \* state of each Flush call
    closeCall,      \* state of each Close call
    pointRows,      \* rows of otel_metrics_point, by point
    metaRows,       \* rows of otel_metrics_meta, by fingerprint
    pointsInDoubt, metaInDoubt, \* rows of inserts that were given up and may still land
    crashes,        \* how often the process ended
    \* History, which no action reads:
    ackOrder,       \* the calls that were acknowledged, in order
    flushMark,      \* Len(ackOrder) when the Flush call was made
    failedPoints, failedMeta,   \* of the batches this process logged as failed
    lostPoints, lostMeta        \* in memory, or logged as failed, when a process died

channel == << queue, closed >>
batch   == << todo, pendingPoints, pendingMeta, seen >>
callers == << call, flushCall, closeCall >>
history == << ackOrder, flushMark >>
tables  == << pointRows, metaRows, pointsInDoubt, metaInDoubt >>
records == << flushedPoints, flushedMeta, flushErrors, failedPoints, failedMeta,
              lostPoints, lostMeta, crashes >>
results == << records, tables >>

vars == << channel, pc, stopping, batch, callers, history, results >>

-----------------------------------------------------------------------------
\* IngesterConfig.withDefaults.  FlushInterval has no counterpart: the ticker
\* may fire at any time.
PositiveOr(n, default) == IF n <= 0 THEN default ELSE n

cfg == [MaxBatchPoints |-> PositiveOr(Config.MaxBatchPoints, 50000),
        QueueCapacity  |-> PositiveOr(Config.QueueCapacity, 1024),
        DedupCacheSize |-> PositiveOr(Config.DedupCacheSize, 1000000)]

IsEmptyRequest(c) == MetadataOf[c] = << >> /\ PointsOf[c] = << >>

\* What only the memory of this process holds.  While InsertMetadata runs, the
\* points are still in the buffer but their insert has returned.
QueuedPoints   == UNION {Range(PointsOf[c]) : c \in Range(queue)}
QueuedMeta     == UNION {Range(MetadataOf[c]) : c \in Range(queue)}
InFlightPoints == QueuedPoints \cup IF pc = "insertMeta" THEN {} ELSE Range(pendingPoints)
InFlightMeta   == QueuedMeta \cup Range(todo) \cup Range(pendingMeta)

\* A batch adds a row for each of its items.
Copies(items, r) == Cardinality({i \in DOMAIN items : items[i] = r})

Written(rows, items) == [r \in DOMAIN rows |-> rows[r] + Copies(items, r)]

-----------------------------------------------------------------------------
NewIngester ==
    /\ pc = "select" /\ stopping = FALSE
    /\ queue = << >> /\ closed = FALSE
    /\ todo = << >> /\ pendingPoints = << >> /\ pendingMeta = << >>
    /\ seen = NewFingerprintCache
    /\ flushedPoints = 0 /\ flushedMeta = 0 /\ flushErrors = 0

Init ==
    /\ NewIngester
    /\ call = [c \in Calls |-> "idle"]
    /\ flushCall = [f \in Flushers |-> "idle"]
    /\ closeCall = [k \in Closers |-> "idle"]
    /\ pointRows = [p \in Points |-> 0]
    /\ metaRows = [f \in Fingerprints |-> 0]
    /\ pointsInDoubt = pointRows /\ metaInDoubt = metaRows
    /\ crashes = 0
    /\ ackOrder = << >>
    /\ flushMark = [f \in Flushers |-> 0]
    /\ failedPoints = {} /\ failedMeta = {}
    /\ lostPoints = {} /\ lostMeta = {}

-----------------------------------------------------------------------------
\* Export maps the request and calls Enqueue, which returns at once when there
\* is nothing to store.  A client whose request was refused, or cut off by the end
\* of the process, may send it again.  (Not the one whose handler panicked, which
\* bounds the number of panics.)
Export(c) ==
    /\ pc # "down"
    /\ call[c] \in {"idle", "cancelled", "failed"}
    /\ CallersJoined => ~ closed
    /\ call' = [call EXCEPT ![c] = IF IsEmptyRequest(c) THEN "acked" ELSE "enqueue"]
    /\ ackOrder' = IF IsEmptyRequest(c) THEN Append(ackOrder, c) ELSE ackOrder
    /\ UNCHANGED << channel, pc, stopping, batch, flushCall, closeCall, flushMark, results >>

QueuedLIFO(c) == << c >> \o queue       \* slip: a stack
Queued(c)     == Append(queue, c)

\* The send case of Enqueue's select: Enqueue returns nil and Export answers the
\* client (ack-on-enqueue).
Send(c) ==
    /\ call[c] = "enqueue"
    /\ ~ closed
    /\ queue' = Queued(c)
    /\ call' = [call EXCEPT ![c] = "acked"]
    /\ ackOrder' = Append(ackOrder, c)
    /\ UNCHANGED << closed, pc, stopping, batch, flushCall, closeCall, flushMark, results >>

Enqueue(c) == Len(queue) < cfg.QueueCapacity /\ Send(c)

\* The ctx.Done case, which can win over a send that is possible too.
EnqueueCancelled(c) ==
    /\ call[c] = "enqueue"
    /\ call' = [call EXCEPT ![c] = "cancelled"]
    /\ UNCHANGED << channel, pc, stopping, batch, flushCall, closeCall, history, results >>

\* Flush offers a request on the unbuffered channel, then waits for the answer;
\* the context can end either wait.
Flush(f) ==
    /\ pc # "down"
    /\ flushCall[f] = "idle"
    /\ flushCall' = [flushCall EXCEPT ![f] = "requesting"]
    /\ flushMark' = [flushMark EXCEPT ![f] = Len(ackOrder)]
    /\ UNCHANGED << channel, pc, stopping, batch, call, closeCall, ackOrder, results >>

FlushCancelled(f) ==
    /\ flushCall[f] \in {"requesting", "waiting"}
    /\ flushCall' = [flushCall EXCEPT ![f] = "cancelled"]
    /\ UNCHANGED << channel, pc, stopping, batch, call, closeCall, history, results >>

\* The first Close closes the channel (closeOnce); every Close waits for the
\* flusher to have returned, or for its context.
CallClose(k) ==
    /\ pc # "down"
    /\ closeCall[k] = "idle"
    /\ closed' = TRUE
    /\ closeCall' = [closeCall EXCEPT ![k] = "waiting"]
    /\ UNCHANGED << queue, pc, stopping, batch, call, flushCall, history, results >>

Close(k) == (CallersJoined => \A c \in Calls : call[c] # "enqueue") /\ CallClose(k)

CloseReturns(k) ==
    /\ closeCall[k] = "waiting"
    /\ pc = "exited"
    /\ closeCall' = [closeCall EXCEPT ![k] = "done"]
    /\ UNCHANGED << channel, pc, stopping, batch, call, flushCall, history, results >>

CloseCancelled(k) ==
    /\ closeCall[k] = "waiting"
    /\ closeCall' = [closeCall EXCEPT ![k] = "cancelled"]
    /\ UNCHANGED << channel, pc, stopping, batch, call, flushCall, history, results >>

-----------------------------------------------------------------------------
Replaced(points)    == points                    \* slip: the batch is overwritten
Accumulated(points) == pendingPoints \o points

\* run's select, case item: accumulate appends the points, then looks up the
\* item's series one by one.
Receive ==
    /\ pc = "select"
    /\ queue # << >>
    /\ queue' = Tail(queue)
    /\ pendingPoints' = Accumulated(PointsOf[Head(queue)])
    /\ todo' = MetadataOf[Head(queue)]
    /\ pc' = "accumulate"
    /\ UNCHANGED << closed, stopping, pendingMeta, seen, callers, history, results >>

AccumulateSeries ==
    /\ pc = "accumulate"
    /\ todo # << >>
    /\ todo' = Tail(todo)
    /\ seen' = Add(seen, Head(todo), cfg.DedupCacheSize)
    /\ pendingMeta' = IF IsNew(seen, Head(todo)) THEN Append(pendingMeta, Head(todo))
                                                 ELSE pendingMeta
    /\ UNCHANGED << channel, pc, stopping, pendingPoints, callers, history, results >>

BatchOverflows == Len(pendingPoints) > cfg.MaxBatchPoints     \* slip: off by one
BatchIsFull    == Len(pendingPoints) >= cfg.MaxBatchPoints

\* Then a batch that is large enough is flushed.
AccumulateDone ==
    /\ pc = "accumulate"
    /\ todo = << >>
    /\ pc' = IF BatchIsFull THEN "flush" ELSE "select"
    /\ UNCHANGED << channel, stopping, batch, callers, history, results >>

Answered(f) == [flushCall EXCEPT ![f] = "done"]         \* slip: before the flush
Taken(f)    == [flushCall EXCEPT ![f] = "waiting"]

\* Case flush request, whatever the queue holds: select picks among its ready
\* cases at random.
FlushRequest(f) ==
    /\ pc = "select"
    /\ flushCall[f] = "requesting"
    /\ flushCall' = Taken(f)
    /\ pc' = "flush"
    /\ UNCHANGED << channel, stopping, batch, call, closeCall, history, results >>

TickIgnored == pc = "select" /\ UNCHANGED vars     \* slip

\* Case ticker.
Tick ==
    /\ pc = "select"
    /\ pc' = "flush"
    /\ UNCHANGED << channel, stopping, batch, callers, history, results >>

\* Case channel closed, which a receive reports once the queue is empty.
\* (StopReceiving alone is the slip of a flusher that does not drain it.)
StopReceiving ==
    /\ pc = "select"
    /\ closed
    /\ stopping' = TRUE
    /\ pc' = "flush"
    /\ UNCHANGED << channel, batch, callers, history, results >>

ReceiveClosed == queue = << >> /\ StopReceiving

-----------------------------------------------------------------------------
AnswerNobody == UNCHANGED flushCall     \* slip: the request is not closed
AnswerFlush == flushCall' = [f \in Flushers |->
                    IF flushCall[f] = "waiting" THEN "done" ELSE flushCall[f]]

FlushEndsRun       == AnswerFlush /\ pc' = "exited"     \* slip: return for continue
FlushReturnsToLoop == AnswerFlush /\ pc' = "select"     \* slip: i.done is not closed

\* flush returns to run's next select, to the Flush call that waits (close(req)),
\* or, the last time, to close(i.done).
FlushReturns == AnswerFlush /\ pc' = IF stopping THEN "exited" ELSE "select"

NothingPending == pendingPoints = << >> /\ pendingMeta = << >>

FlushNothing ==
    /\ pc = "flush"
    /\ NothingPending
    /\ FlushReturns
    /\ UNCHANGED << channel, stopping, batch, call, closeCall, history, results >>

ErrorUncounted == UNCHANGED flushErrors                 \* slip
ErrorCounted   == flushErrors' = flushErrors + 1

\* Points first.  (An empty buffer is not inserted: the same step.)
InsertPointsSucceeds ==
    /\ pointRows' = Written(pointRows, pendingPoints)
    /\ flushedPoints' = flushedPoints + Len(pendingPoints)
    /\ UNCHANGED << pointsInDoubt, flushErrors, failedPoints >>

\* An insert that fails, times out or is cut off may have reached the server: its
\* rows are in doubt.
InsertPointsFails ==
    /\ pendingPoints # << >>
    /\ pointsInDoubt' = Written(pointsInDoubt, pendingPoints)
    /\ ErrorCounted
    /\ failedPoints' = failedPoints \cup Range(pendingPoints)
    /\ UNCHANGED << pointRows, flushedPoints >>

InsertPoints ==
    /\ pc = "flush"
    /\ ~ NothingPending
    /\ InsertPointsSucceeds \/ InsertPointsFails
    /\ pc' = "insertMeta"
    /\ UNCHANGED << channel, stopping, batch, callers, history, flushedMeta, metaRows,
                    metaInDoubt, failedMeta, lostPoints, lostMeta, crashes >>

\* Slip: flush returns when the points failed, and the metadata is dropped.
InsertMetadataSkipped ==
    /\ IF Range(pendingPoints) \cap failedPoints # {} THEN UNCHANGED metaRows
       ELSE metaRows' = Written(metaRows, pendingMeta)
    /\ UNCHANGED << metaInDoubt, flushedMeta, flushErrors, failedMeta >>

\* Metadata next, whether or not the points were written; then both buffers are
\* emptied.
InsertMetadataSucceeds ==
    /\ metaRows' = Written(metaRows, pendingMeta)
    /\ flushedMeta' = flushedMeta + Len(pendingMeta)
    /\ UNCHANGED << metaInDoubt, flushErrors, failedMeta >>

InsertMetadataFails ==
    /\ pendingMeta # << >>
    /\ metaInDoubt' = Written(metaInDoubt, pendingMeta)
    /\ ErrorCounted
    /\ failedMeta' = failedMeta \cup Range(pendingMeta)
    /\ UNCHANGED << metaRows, flushedMeta >>

\* Slip: a failed batch of points is kept for the next flush.
KeepFailedPoints ==
    /\ pendingPoints' = IF Range(pendingPoints) \cap failedPoints # {} THEN pendingPoints
                                                                      ELSE << >>
    /\ pendingMeta' = << >>

EmptyBuffers == pendingPoints' = << >> /\ pendingMeta' = << >>

InsertMetadata ==
    /\ pc = "insertMeta"
    /\ InsertMetadataSucceeds \/ InsertMetadataFails
    /\ EmptyBuffers
    /\ FlushReturns
    /\ UNCHANGED << channel, stopping, todo, seen, call, closeCall, history, flushedPoints,
                    pointRows, pointsInDoubt, failedPoints, lostPoints, lostMeta, crashes >>

-----------------------------------------------------------------------------
\* ClickHouse by itself: a row in doubt lands, at any later time if at all, and so
\* any part of its batch in the end (points are partitioned by day, and each
\* partition is written by itself).
PointLands(p) ==
    /\ pointsInDoubt[p] > 0
    /\ pointsInDoubt' = [pointsInDoubt EXCEPT ![p] = @ - 1]
    /\ pointRows' = [pointRows EXCEPT ![p] = @ + 1]
    /\ UNCHANGED << channel, pc, stopping, batch, callers, history, records, metaRows,
                    metaInDoubt >>

MetaLands(f) ==
    /\ metaInDoubt[f] > 0
    /\ metaInDoubt' = [metaInDoubt EXCEPT ![f] = @ - 1]
    /\ metaRows' = [metaRows EXCEPT ![f] = @ + 1]
    /\ UNCHANGED << channel, pc, stopping, batch, callers, history, records, pointRows,
                    pointsInDoubt >>

CollapsedTo(n) == 0..(n - 1)        \* slip: an engine whose duplicates cancel out
ReplacedBy(n)  == 1..(n - 1)
MergedTo(n)    == ReplacedBy(n)

\* A background merge of ReplacingMergeTree replaces rows of a fingerprint by one.
Merge(f) ==
    /\ metaRows[f] > 1
    /\ \E n \in MergedTo(metaRows[f]) : metaRows' = [metaRows EXCEPT ![f] = n]
    /\ UNCHANGED << channel, pc, stopping, batch, callers, history, records, pointRows,
                    pointsInDoubt, metaInDoubt >>

\* The process ends: a kill, a panic, the return of main.  Its memory is gone,
\* the rows of an insert on its way are in doubt, and whoever waits for this process
\* sees it fail.
Die ==
    /\ pc' = "down" /\ stopping' = FALSE
    /\ queue' = << >> /\ closed' = FALSE
    /\ todo' = << >> /\ pendingPoints' = << >> /\ pendingMeta' = << >>
    /\ seen' = NewFingerprintCache
    /\ flushedPoints' = 0 /\ flushedMeta' = 0 /\ flushErrors' = 0
    /\ flushCall' = [f \in Flushers |-> IF flushCall[f] \in {"requesting", "waiting"}
                                        THEN "cancelled" ELSE flushCall[f]]
    /\ closeCall' = [k \in Closers |-> "idle"]
    /\ pointsInDoubt' = IF pc = "flush" THEN Written(pointsInDoubt, pendingPoints)
                                        ELSE pointsInDoubt
    /\ metaInDoubt' = IF pc = "insertMeta" THEN Written(metaInDoubt, pendingMeta)
                                           ELSE metaInDoubt
    /\ failedPoints' = {} /\ failedMeta' = {}
    /\ lostPoints' = lostPoints \cup failedPoints \cup InFlightPoints
    /\ lostMeta' = lostMeta \cup failedMeta \cup InFlightMeta
    /\ crashes' = crashes + 1
    /\ UNCHANGED << history, pointRows, metaRows >>

Crash ==
    /\ pc # "down"
    /\ crashes < MaxCrashes
    /\ Die
    /\ call' = [c \in Calls |-> IF call[c] = "enqueue" THEN "failed" ELSE call[c]]

\* Slip: the item is dropped and the caller told it was accepted.
EnqueueDropped(c) ==
    /\ call[c] = "enqueue"
    /\ closed
    /\ call' = [call EXCEPT ![c] = "acked"]
    /\ ackOrder' = Append(ackOrder, c)
    /\ UNCHANGED << channel, pc, stopping, batch, flushCall, closeCall, flushMark, results >>

\* A send on the closed channel, also one that was blocked when it was closed,
\* panics; nothing recovers the panic and the process ends.
EnqueueOnClosed(c) ==
    /\ call[c] = "enqueue"
    /\ closed
    /\ Die
    /\ call' = [d \in Calls |-> IF d = c THEN "panicked"
                                ELSE IF call[d] = "enqueue" THEN "failed" ELSE call[d]]

Restart ==
    /\ pc = "down"
    /\ pc' = "select"
    /\ UNCHANGED << channel, stopping, batch, callers, history, results >>

-----------------------------------------------------------------------------
Caller ==
    \/ \E c \in Calls : Export(c) \/ Enqueue(c) \/ EnqueueCancelled(c) \/ EnqueueOnClosed(c)
    \/ \E f \in Flushers : Flush(f) \/ FlushCancelled(f)
    \/ \E k \in Closers : Close(k) \/ CloseReturns(k) \/ CloseCancelled(k)

Flusher ==
    \/ Receive \/ AccumulateSeries \/ AccumulateDone
    \/ (\E f \in Flushers : FlushRequest(f)) \/ Tick \/ ReceiveClosed
    \/ FlushNothing \/ InsertPoints \/ InsertMetadata

ClickHouse ==
    \/ \E p \in Points : PointLands(p)
    \/ \E f \in Fingerprints : MetaLands(f) \/ Merge(f)

Next == Caller \/ Flusher \/ ClickHouse \/ Crash \/ Restart

Spec == Init /\ [][Next]_vars

\* select picks at random among its ready cases, so a case that is ready at
\* select after select is taken (strong fairness), and so is a blocked sender
\* each time there is room.  The flusher's other steps are those of a goroutine
\* that nothing blocks for ever: flushTimeout ends an insert (weak fairness).
\* Nothing makes a client call or give up, or a process die or start.
Fairness ==
    /\ SF_vars(Receive) /\ SF_vars(Tick) /\ SF_vars(ReceiveClosed)
    /\ \A f \in Flushers : SF_vars(FlushRequest(f))
    /\ WF_vars(AccumulateSeries \/ AccumulateDone)
    /\ WF_vars(FlushNothing \/ InsertPoints \/ InsertMetadata)
    /\ \A c \in Calls : SF_vars(Enqueue(c))
    /\ \A k \in Closers : WF_vars(CloseReturns(k))

FairSpec == Spec /\ Fairness

-----------------------------------------------------------------------------
\* Types, with the limits the configuration puts on the channel and the cache.
TypeOK ==
    /\ queue \in Seq(Calls) /\ Len(queue) <= cfg.QueueCapacity
    /\ closed \in BOOLEAN
    /\ pc \in {"select", "accumulate", "flush", "insertMeta", "exited", "down"}
    /\ stopping \in BOOLEAN
    /\ todo \in Seq(Fingerprints)
    /\ pendingPoints \in Seq(Points)
    /\ pendingMeta \in Seq(Fingerprints)
    /\ seen \in [items : SUBSET Fingerprints, order : Seq(Fingerprints)]
    /\ Len(seen.order) <= cfg.DedupCacheSize
    /\ flushedPoints \in Nat /\ flushedMeta \in Nat /\ flushErrors \in Nat
    /\ call \in [Calls -> {"idle", "enqueue", "acked", "cancelled", "failed", "panicked"}]
    /\ flushCall \in [Flushers -> {"idle", "requesting", "waiting", "done", "cancelled"}]
    /\ closeCall \in [Closers -> {"idle", "waiting", "done", "cancelled"}]
    /\ pointRows \in [Points -> Nat] /\ pointsInDoubt \in [Points -> Nat]
    /\ metaRows \in [Fingerprints -> Nat] /\ metaInDoubt \in [Fingerprints -> Nat]
    /\ crashes \in Nat
    /\ ackOrder \in Seq(Calls)
    /\ flushMark \in [Flushers -> Nat]
    /\ failedPoints \subseteq Points /\ lostPoints \subseteq Points
    /\ failedMeta \subseteq Fingerprints /\ lostMeta \subseteq Fingerprints

AckedPoints == UNION {Range(PointsOf[c]) : c \in {d \in Calls : call[d] = "acked"}}

\* An acknowledged point is in this process's memory, in the table, in a batch
\* that was logged as failed, or was lost with a process: no path through run,
\* accumulate, flush and Close drops it without a trace (ingester.go:143-211).
NoSilentLoss ==
    \A p \in AckedPoints :
        p \in InFlightPoints \cup failedPoints \cup lostPoints \/ pointRows[p] > 0

\* A point of an acknowledged request is stored at most once, and one of any other
\* request never: a flushed buffer is not flushed again, nor is a batch that failed or
\* was cut off, although its rows may land at any later time; and a client that sends
\* a refused request again duplicates nothing (Enqueue, 99-111; flush, 183-211).
StoredAtMostOnce ==
    \A p \in Points : pointRows[p] <= 1 /\ (pointRows[p] = 1 => p \in AckedPoints)

\* A series that accumulate suppresses as already inserted has its metadata row, or
\* the row is in the batch, or this process logged its batch as failed: seen runs
\* ahead of the table by no more than that (accumulate, ingester.go:167-177).
SuppressedIsCovered ==
    \A f \in seen.items : metaRows[f] > 0 \/ f \in Range(pendingMeta) \cup failedMeta

\* A stored point can be joined with its metadata, or will be after the flush
\* under way, unless a metadata batch failed or a process died: deduplication and
\* eviction alone never orphan a point (flush's comment, ingester.go:179-182).
StoredIsJoinable ==
    \A p \in Points : pointRows[p] > 0 =>
        LET f == SeriesOf[p]
        IN  metaRows[f] > 0 \/ f \in Range(pendingMeta) \cup failedMeta \cup lostMeta

\* Between two rounds of run the batch is below its limit, and the metadata buffer,
\* which has no limit of its own, never outgrows the points buffer (run's size
\* check, ingester.go:154-157, which looks at the points alone).
BatchIsBounded ==
    /\ pc = "select" => Len(pendingPoints) < cfg.MaxBatchPoints
    /\ Len(pendingMeta) + Len(todo) <= Len(pendingPoints)

\* Once a Close call returned nil nothing is left in memory: the queue was drained
\* and the last batch handed to the store (Close's comment, ingester.go:130-132).
CloseDrains ==
    \A k \in Closers : closeCall[k] = "done" => InFlightPoints = {} /\ InFlightMeta = {}

\* Requests are settled in the order in which they were acknowledged: as long as a
\* point of one is in memory, so are all points of those acknowledged later
\* (one channel, one flusher: ingester.go:60-62).
SettledInAckOrder ==
    \A i, j \in DOMAIN ackOrder :
        i < j /\ Range(PointsOf[ackOrder[i]]) \cap InFlightPoints # {}
            => Range(PointsOf[ackOrder[j]]) \subseteq InFlightPoints

\* The counters account for every acknowledged point of the process: flushed, in a
\* batch that failed, or still in memory; and failures are never uncounted
\* (flushedPoints and flushErrors, ingester.go:190-207, read by load_test.go).
CountersAddUp ==
    /\ crashes = 0 => flushedPoints + Cardinality(failedPoints) + Cardinality(InFlightPoints)
                         = Cardinality(AckedPoints)
    /\ flushErrors = 0 => failedPoints = {} /\ failedMeta = {}

\* When a Flush call returns nil, what was acknowledged and is not settled is in the
\* queue: whatever had been received was handed to the store (ingester.go:113-128).
FlushDrainsBuffers ==
    [][\A f \in Flushers : flushCall[f] # "done" /\ flushCall'[f] = "done"
            => InFlightPoints' = QueuedPoints' /\ todo' = << >> /\ pendingMeta' = << >>]_vars

-----------------------------------------------------------------------------
Joinable(p) == pointRows[p] > 0 /\ metaRows[SeriesOf[p]] > 0

\* Every acknowledged point can be read in the end, with its series, unless a batch
\* with one of them failed or was lost: the ticker flushes what is too little to fill
\* a batch, and a suppressed series is there (run, 143-165; accumulate, 167-177).
AckedIsReadable ==
    \A p \in Points : p \in AckedPoints ~>
        \/ Joinable(p)
        \/ p \in failedPoints \cup lostPoints \/ SeriesOf[p] \in failedMeta \cup lostMeta

\* A full queue delays an Export caller but never blocks it for ever: the flusher
\* keeps receiving while stores fail or time out (Enqueue, ingester.go:99-111).
EnqueueTerminates == \A c \in Calls : call[c] = "enqueue" ~> call[c] # "enqueue"

\* Close returns: the closed queue is drained and the flusher exits although the
\* ticker and flush requests compete with it at every select (ingester.go:133-152).
CloseTerminates == \A k \in Closers : closeCall[k] = "waiting" ~> closeCall[k] # "waiting"

\* Flush returns, unless the ingester is being closed: after that nobody takes the
\* request, and a caller without a deadline waits for ever (ingester.go:115-120).
FlushTerminates ==
    \A f \in Flushers : flushCall[f] \in {"requesting", "waiting"} ~>
        flushCall[f] \in {"done", "cancelled"} \/ closed

\* The ingester implements at-most-once delivery of acknowledged points.
Delivery == INSTANCE AckedDelivery WITH
    accepted <- AckedPoints,
    settled  <- AckedPoints \ InFlightPoints,
    copies   <- pointRows,
    inDoubt  <- {p \in Points : pointsInDoubt[p] > 0}

DeliverySpec == Delivery!Spec

-----------------------------------------------------------------------------
\* What comments and tests say of the ingester and the code does not do.

\* "DedupCacheSize bounds the LRU of already-inserted fingerprints" (ingester.go:28)
\* and "the cache is a suppression optimization only" (170): a series is suppressed
\* because its row is in the table or in the batch about to be written.
SuppressedIsInserted ==
    \A f \in seen.items : metaRows[f] > 0 \/ f \in Range(pendingMeta)

\* "Flush the async buffer so the write is durable before we read it back"
\* (integration_test.go:300): what was acknowledged before Flush was called has left
\* memory when it returns nil.
FlushCoversAcked ==
    \A f \in Flushers : flushCall[f] = "done" =>
        \A i \in 1..flushMark[f] : Range(PointsOf[ackOrder[i]]) \cap InFlightPoints = {}

\* "we lose at most 200ms worth of data on crash, but not otherwise" (README.md:140):
\* while no process died, what has left memory is in the table.
LossOnlyByCrash ==
    crashes = 0 => \A p \in AckedPoints \ InFlightPoints : pointRows[p] > 0

\* "Close must be called only after all Enqueue callers have stopped (the gRPC
\* server's GracefulStop ... guarantee this)" (ingester.go:61-63): no Export handler
\* sends on the closed channel.
NoSendOnClosed == \A c \in Calls : call[c] # "panicked"
=============================================================================
