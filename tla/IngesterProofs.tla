--------------------------- MODULE IngesterProofs ---------------------------
(***************************************************************************)
(* Theorems about Ingester, for all requests, callers and configurations.  *)
(***************************************************************************)
EXTENDS Ingester, SequenceLemmas

-----------------------------------------------------------------------------
\* withDefaults makes every limit positive, whatever the configuration.
LEMMA LimitsArePositive ==
    /\ cfg.MaxBatchPoints \in Nat \ {0}
    /\ cfg.QueueCapacity \in Nat \ {0}
    /\ cfg.DedupCacheSize \in Nat \ {0}
<1>1. \A n \in Int, d \in Nat \ {0} : PositiveOr(n, d) \in Nat \ {0}
  BY DEF PositiveOr
<1> QED
  BY <1>1, ConfigAssumption DEF cfg

\* A batch is counted by a number for each item: none of an item that is not in it, at
\* least one of one that is, at most one if no item is in it twice.
LEMMA CopiesProperties ==
    ASSUME NEW S, NEW items \in Seq(S), NEW r \in S
    PROVE  /\ Copies(items, r) \in Nat
           /\ r \notin Range(items) => Copies(items, r) = 0
           /\ r \in Range(items) => Copies(items, r) > 0
           /\ IsInjective(items) => Copies(items, r) <= 1
<1> DEFINE L == {i \in DOMAIN items : items[i] = r}
<1>1. Len(items) \in Nat /\ DOMAIN items = 1..Len(items)
  BY LenProperties
<1>2. IsFiniteSet(1..Len(items))
  BY <1>1, FS_Interval
<1>3. L \in SUBSET (1..Len(items))
  BY <1>1
<1>4. IsFiniteSet(L)
  <2> HIDE DEF L
  <2> QED
    BY <1>2, <1>3, FS_Subset
<1>5. Copies(items, r) = Cardinality(L) /\ Cardinality(L) \in Nat
  <2>1. Copies(items, r) = Cardinality(L)
    BY DEF Copies
  <2> HIDE DEF L
  <2> QED
    BY <2>1, <1>4, FS_CardinalityType
<1>6. Cardinality(L) = 0 <=> L = {}
  <2> HIDE DEF L
  <2> QED
    BY <1>4, FS_EmptySet
<1>7. r \in Range(items) <=> L # {}
  BY DEF Range
<1>8. ASSUME IsInjective(items), L # {}
      PROVE  Cardinality(L) = 1
  <2>1. PICK i \in L : TRUE
    BY <1>8
  <2>2. L = {i}
    BY <2>1, <1>8 DEF IsInjective
  <2>3. Cardinality({i}) = 1
    BY FS_Singleton
  <2> QED
    BY <2>2, <2>3, Zenon
<1> QED
  <2> HIDE DEF L
  <2> QED
    BY <1>5, <1>6, <1>7, <1>8

LEMMA WrittenType ==
    ASSUME NEW S, NEW rows \in [S -> Nat], NEW items \in Seq(S)
    PROVE  /\ Written(rows, items) \in [S -> Nat]
           /\ \A r \in S : Written(rows, items)[r] = rows[r] + Copies(items, r)
<1>1. \A r \in S : Copies(items, r) \in Nat
  BY CopiesProperties
<1> QED
  BY <1>1 DEF Written

\* A batch takes no row away and adds one of each of its items, and no others.
LEMMA WrittenGrows ==
    ASSUME NEW S, NEW rows \in [S -> Nat], NEW items \in Seq(S), NEW r \in S
    PROVE  /\ Written(rows, items)[r] \in Nat
           /\ Written(rows, items)[r] >= rows[r]
           /\ r \notin Range(items) => Written(rows, items)[r] = rows[r]
           /\ r \in Range(items) => Written(rows, items)[r] > 0
           /\ r \in Range(items) /\ IsInjective(items) /\ rows[r] = 0
                => Written(rows, items)[r] = 1
<1>1. Written(rows, items)[r] = rows[r] + Copies(items, r) /\ rows[r] \in Nat
  BY WrittenType
<1> QED
  BY <1>1, CopiesProperties

-----------------------------------------------------------------------------
\* add keeps a cache a cache of at most its capacity, and brings in no fingerprint
\* but the one it is given.
Caches(S, capacity) ==
    {c \in [items : SUBSET S, order : Seq(S)] : Len(c.order) <= capacity}

LEMMA AddType ==
    ASSUME NEW S, NEW capacity \in Nat \ {0}, NEW cache \in Caches(S, capacity), NEW f \in S
    PROVE  /\ Add(cache, f, capacity) \in Caches(S, capacity)
           /\ Add(cache, f, capacity).items \subseteq cache.items \cup {f}
<1> DEFINE order == cache.order
<1>0. /\ cache.items \in SUBSET S /\ order \in Seq(S)
      /\ Len(order) \in Nat /\ Len(order) <= capacity /\ DOMAIN order = 1..Len(order)
      /\ cache = [items |-> cache.items, order |-> order]
  BY LenProperties DEF Caches
<1>1. CASE ~ IsNew(cache, f)
  <2> DEFINE k == CHOOSE i \in DOMAIN order : order[i] = f
             moved == MoveToFront(order, f)
  <2>1. \A i \in 1..Len(order) : order[i] \in S
    BY <1>0, ElementOfSeq
  <2>2. moved = [i \in 1..Len(order) |-> IF i = 1 THEN f
                                         ELSE IF i <= k THEN order[i - 1] ELSE order[i]]
    BY <1>0 DEF MoveToFront
  <2>3. \A i \in 1..Len(order) : i # 1 => i - 1 \in 1..Len(order)
    BY <1>0
  <2>4. moved \in [1..Len(order) -> S]
    <3> HIDE DEF k
    <3> QED
      BY <2>1, <2>2, <2>3
  <2>5. moved \in Seq(S) /\ Len(moved) = Len(order)
    <3> HIDE DEF moved
    <3> QED
      BY <2>4, <1>0
  <2>6. Add(cache, f, capacity) = [items |-> cache.items, order |-> moved]
    BY <1>0, <1>1 DEF Add, Refresh
  <2> QED
    <3> HIDE DEF moved
    <3> QED
      BY <2>5, <2>6, <1>0 DEF Caches
<1>2. CASE IsNew(cache, f)
  <2> DEFINE pushed == << f >> \o order
  <2>1. << f >> \in Seq(S) /\ Len(<< f >>) = 1
    OBVIOUS
  <2>2. pushed \in Seq(S) /\ Len(pushed) = Len(order) + 1
    BY <2>1, <1>0, ConcatProperties
  <2>3. Push(cache, f) = [items |-> cache.items \cup {f}, order |-> pushed]
    BY DEF Push
  <2>4. CASE Len(pushed) > capacity
    <3> DEFINE kept == SubSeq(pushed, 1, Len(pushed) - 1)
    <3>1. \A i \in 1..(Len(pushed) - 1) : pushed[i] \in S
      BY <2>2, <1>0, ElementOfSeq
    <3>2. kept \in Seq(S) /\ Len(kept) = Len(pushed) - 1
      <4>1. Len(pushed) - 1 \in Int /\ Len(pushed) - 1 >= 1
        BY <2>2, <2>4, <1>0
      <4> HIDE DEF pushed
      <4> QED
        BY <3>1, <4>1, SubSeqProperties
    <3>3. Add(cache, f, capacity)
            = [items |-> (cache.items \cup {f}) \ {pushed[Len(pushed)]}, order |-> kept]
      <4>1. Add(cache, f, capacity) = RemoveOldest(Push(cache, f))
        BY <1>2, <2>3, <2>4 DEF Add, Evict
      <4> HIDE DEF pushed
      <4> QED
        BY <4>1, <2>3 DEF RemoveOldest
    <3> HIDE DEF kept, pushed
    <3> QED
      BY <3>2, <3>3, <2>2, <1>0 DEF Caches
  <2>5. CASE ~ (Len(pushed) > capacity)
    <3>1. Add(cache, f, capacity) = [items |-> cache.items \cup {f}, order |-> pushed]
      BY <1>2, <2>3, <2>5 DEF Add, Evict
    <3> HIDE DEF pushed
    <3> QED
      BY <3>1, <2>2, <2>5, <1>0 DEF Caches
  <2> QED
    BY <2>4, <2>5
<1> QED
  BY <1>1, <1>2

-----------------------------------------------------------------------------
LEMMA RequestTypes ==
    ASSUME NEW c \in Calls
    PROVE  PointsOf[c] \in Seq(Points) /\ MetadataOf[c] \in Seq(Fingerprints)
BY RequestAssumption

\* A new ingester's buffers and cache have their types and are within their limits.
LEMMA FreshTypes ==
    /\ << >> \in Seq(Calls) /\ << >> \in Seq(Points) /\ << >> \in Seq(Fingerprints)
    /\ Len(<< >>) = 0 /\ 0 <= cfg.QueueCapacity
    /\ NewFingerprintCache \in [items : SUBSET Fingerprints, order : Seq(Fingerprints)]
    /\ Len(NewFingerprintCache.order) = 0 /\ 0 <= cfg.DedupCacheSize
<1>1. \A S : << >> \in Seq(S)
  BY EmptySeq
<1>2. Len(<< >>) = 0
  BY EmptySeq
<1> QED
  BY <1>1, <1>2, LimitsArePositive DEF NewFingerprintCache

LEMMA InFlightTypes ==
    ASSUME queue \in Seq(Calls), todo \in Seq(Fingerprints), pendingPoints \in Seq(Points),
           pendingMeta \in Seq(Fingerprints)
    PROVE  InFlightPoints \subseteq Points /\ InFlightMeta \subseteq Fingerprints
<1>1. \A c \in Range(queue) : c \in Calls
  BY RangeOfSeq
<1>2. \A c \in Calls : /\ Range(PointsOf[c]) \subseteq Points
                      /\ Range(MetadataOf[c]) \subseteq Fingerprints
  BY RequestTypes, RangeOfSeq
<1>3. QueuedPoints \subseteq Points
  BY <1>1, <1>2 DEF QueuedPoints
<1>4. QueuedMeta \subseteq Fingerprints
  BY <1>1, <1>2 DEF QueuedMeta
<1>5. /\ Range(pendingPoints) \subseteq Points
      /\ Range(todo) \subseteq Fingerprints /\ Range(pendingMeta) \subseteq Fingerprints
  BY RangeOfSeq
<1>6. InFlightPoints \subseteq Points
  BY <1>3, <1>5 DEF InFlightPoints
<1>7. InFlightMeta \subseteq Fingerprints
  BY <1>4, <1>5 DEF InFlightMeta
<1> QED
  BY <1>6, <1>7

\* Every variable has its type, and the channel and the cache keep within the limits
\* of the configuration (NewIngester and every method of Ingester).
THEOREM TypeCorrect == Spec => []TypeOK
<1> USE DEF channel, batch, callers, history, results, records, tables
<1>1. Init => TypeOK
  <2> SUFFICES ASSUME Init PROVE TypeOK
    OBVIOUS
  <2>1. /\ queue \in Seq(Calls) /\ Len(queue) <= cfg.QueueCapacity
        /\ todo \in Seq(Fingerprints) /\ pendingPoints \in Seq(Points)
        /\ pendingMeta \in Seq(Fingerprints) /\ ackOrder \in Seq(Calls)
        /\ seen \in [items : SUBSET Fingerprints, order : Seq(Fingerprints)]
        /\ Len(seen.order) <= cfg.DedupCacheSize
    BY FreshTypes DEF Init, NewIngester
  <2> QED
    BY <2>1 DEF Init, NewIngester, TypeOK
<1>2. TypeOK /\ [Next]_vars => TypeOK'
  <2> SUFFICES ASSUME TypeOK, [Next]_vars
               PROVE  TypeOK'
    OBVIOUS
  <2> USE DEF TypeOK
  <2>0. cfg' = cfg
    BY DEF cfg
  <2>1. ASSUME NEW c \in Calls, Export(c)
        PROVE  TypeOK'
    <3>1. ackOrder' \in Seq(Calls)
      BY <2>1, AppendProperties DEF Export
    <3> QED
      BY <2>0, <2>1, <3>1 DEF Export
  <2>2. ASSUME NEW c \in Calls, Enqueue(c)
        PROVE  TypeOK'
    <3>1. ackOrder' \in Seq(Calls) /\ queue' \in Seq(Calls) /\ Len(queue') <= cfg.QueueCapacity
      BY <2>2, AppendProperties, LimitsArePositive DEF Enqueue, Send, Queued
    <3> QED
      BY <2>0, <2>2, <3>1 DEF Enqueue, Send
  <2>3. ASSUME NEW c \in Calls, EnqueueCancelled(c)
        PROVE  TypeOK'
    BY <2>0, <2>3 DEF EnqueueCancelled
  <2>4. ASSUME NEW f \in Flushers, Flush(f) \/ FlushCancelled(f) \/ FlushRequest(f)
        PROVE  TypeOK'
    <3>1. Len(ackOrder) \in Nat
      BY LenProperties
    <3> QED
      BY <2>0, <2>4, <3>1 DEF Flush, FlushCancelled, FlushRequest, Taken
  <2>5. ASSUME NEW k \in Closers, Close(k) \/ CloseReturns(k) \/ CloseCancelled(k)
        PROVE  TypeOK'
    BY <2>0, <2>5 DEF Close, CallClose, CloseReturns, CloseCancelled
  <2>6. CASE Receive
    <3>1. /\ Head(queue) \in Calls /\ queue' \in Seq(Calls)
          /\ Len(queue') <= cfg.QueueCapacity
      BY <2>6, HeadTailProperties, LenProperties, LimitsArePositive DEF Receive
    <3>2. pendingPoints' \in Seq(Points) /\ todo' \in Seq(Fingerprints)
      BY <2>6, <3>1, RequestTypes, ConcatProperties DEF Receive, Accumulated
    <3> QED
      BY <2>0, <2>6, <3>1, <3>2 DEF Receive
  <2>7. CASE AccumulateSeries
    <3>1. Head(todo) \in Fingerprints /\ todo' \in Seq(Fingerprints)
      BY <2>7, HeadTailProperties DEF AccumulateSeries
    <3>2. pendingMeta' \in Seq(Fingerprints)
      BY <2>7, <3>1, AppendProperties DEF AccumulateSeries
    <3>3. seen' \in Caches(Fingerprints, cfg.DedupCacheSize)
      <4>1. seen \in Caches(Fingerprints, cfg.DedupCacheSize)
        BY DEF Caches
      <4> QED
        BY <4>1, <2>7, <3>1, AddType, LimitsArePositive DEF AccumulateSeries
    <3> QED
      BY <2>0, <2>7, <3>1, <3>2, <3>3 DEF AccumulateSeries, Caches
  <2>8. CASE AccumulateDone
    BY <2>0, <2>8 DEF AccumulateDone
  <2>9. CASE Tick \/ ReceiveClosed
    BY <2>0, <2>9 DEF Tick, ReceiveClosed, StopReceiving
  <2>10. CASE FlushNothing
    BY <2>0, <2>10 DEF FlushNothing, FlushReturns, AnswerFlush
  <2>11. CASE InsertPoints
    <3>1. CASE InsertPointsSucceeds
      <4>1. pointRows' \in [Points -> Nat]
        BY <3>1, WrittenType DEF InsertPointsSucceeds
      <4>2. flushedPoints' \in Nat
        BY <3>1, LenProperties DEF InsertPointsSucceeds
      <4> QED
        BY <2>0, <2>11, <3>1, <4>1, <4>2 DEF InsertPoints, InsertPointsSucceeds
    <3>2. CASE InsertPointsFails
      <4>1. pointsInDoubt' \in [Points -> Nat]
        BY <3>2, WrittenType DEF InsertPointsFails
      <4>2. flushErrors' \in Nat /\ failedPoints' \subseteq Points
        BY <3>2, RangeOfSeq DEF InsertPointsFails, ErrorCounted
      <4> QED
        BY <2>0, <2>11, <3>2, <4>1, <4>2 DEF InsertPoints, InsertPointsFails
    <3> QED
      BY <2>11, <3>1, <3>2 DEF InsertPoints
  <2>12. CASE InsertMetadata
    <3>1. flushCall' \in [Flushers -> {"idle", "requesting", "waiting", "done", "cancelled"}]
      BY <2>12 DEF InsertMetadata, FlushReturns, AnswerFlush
    <3>2. /\ pc' \in {"select", "exited"}
          /\ pendingPoints' \in Seq(Points) /\ pendingMeta' \in Seq(Fingerprints)
      BY <2>12, FreshTypes DEF InsertMetadata, EmptyBuffers, FlushReturns
    <3>3. CASE InsertMetadataSucceeds
      <4>1. metaRows' \in [Fingerprints -> Nat]
        BY <3>3, WrittenType DEF InsertMetadataSucceeds
      <4>2. flushedMeta' \in Nat
        BY <3>3, LenProperties DEF InsertMetadataSucceeds
      <4> QED
        BY <2>0, <2>12, <3>1, <3>2, <3>3, <4>1, <4>2 DEF InsertMetadata, InsertMetadataSucceeds
    <3>4. CASE InsertMetadataFails
      <4>1. metaInDoubt' \in [Fingerprints -> Nat]
        BY <3>4, WrittenType DEF InsertMetadataFails
      <4>2. flushErrors' \in Nat /\ failedMeta' \subseteq Fingerprints
        BY <3>4, RangeOfSeq DEF InsertMetadataFails, ErrorCounted
      <4> QED
        BY <2>0, <2>12, <3>1, <3>2, <3>4, <4>1, <4>2 DEF InsertMetadata, InsertMetadataFails
    <3> QED
      BY <2>12, <3>3, <3>4 DEF InsertMetadata
  <2>13. ASSUME Die,
                call' \in [Calls -> {"idle", "enqueue", "acked", "cancelled", "failed", "panicked"}]
         PROVE  TypeOK'
    <3>1. /\ pointRows' \in [Points -> Nat] /\ metaRows' \in [Fingerprints -> Nat]
          /\ pointsInDoubt' \in [Points -> Nat] /\ metaInDoubt' \in [Fingerprints -> Nat]
      BY <2>13, WrittenType DEF Die
    <3>2. InFlightPoints \subseteq Points /\ InFlightMeta \subseteq Fingerprints
      BY InFlightTypes
    <3>3. lostPoints' \subseteq Points /\ lostMeta' \subseteq Fingerprints
      BY <2>13, <3>2 DEF Die
    <3> QED
      <4>1. /\ queue' \in Seq(Calls) /\ Len(queue') <= cfg.QueueCapacity
            /\ todo' \in Seq(Fingerprints) /\ pendingPoints' \in Seq(Points)
            /\ pendingMeta' \in Seq(Fingerprints)
            /\ seen' \in [items : SUBSET Fingerprints, order : Seq(Fingerprints)]
            /\ Len(seen'.order) <= cfg.DedupCacheSize
        BY <2>13, FreshTypes DEF Die
      <4>2. /\ flushCall' \in [Flushers -> {"idle", "requesting", "waiting", "done", "cancelled"}]
            /\ closeCall' \in [Closers -> {"idle", "waiting", "done", "cancelled"}]
        BY <2>13 DEF Die
      <4>3. closed' = FALSE /\ stopping' = FALSE /\ pc' = "down"
        BY <2>13 DEF Die
      <4>4. /\ flushedPoints' = 0 /\ flushedMeta' = 0 /\ flushErrors' = 0
            /\ failedPoints' = {} /\ failedMeta' = {} /\ crashes' = crashes + 1
        BY <2>13 DEF Die
      <4>5. ackOrder' = ackOrder /\ flushMark' = flushMark
        BY <2>13 DEF Die
      <4> QED
        <5>1. /\ closed' \in BOOLEAN /\ stopping' \in BOOLEAN
              /\ pc' \in {"select", "accumulate", "flush", "insertMeta", "exited", "down"}
          BY <4>3
        <5>2. /\ flushedPoints' \in Nat /\ flushedMeta' \in Nat /\ flushErrors' \in Nat
              /\ crashes' \in Nat /\ failedPoints' \subseteq Points
              /\ failedMeta' \subseteq Fingerprints
          BY <4>4
        <5>3. ackOrder' \in Seq(Calls) /\ flushMark' \in [Flushers -> Nat]
          BY <4>5
        <5> QED
          BY <2>0, <2>13, <3>1, <3>3, <4>1, <4>2, <5>1, <5>2, <5>3
  <2>14. CASE Crash
    BY <2>13, <2>14 DEF Crash
  <2>15. ASSUME NEW c \in Calls, EnqueueOnClosed(c)
         PROVE  TypeOK'
    BY <2>13, <2>15 DEF EnqueueOnClosed
  <2>16. CASE Restart
    BY <2>0, <2>16 DEF Restart
  <2>17. ASSUME NEW p \in Points, PointLands(p)
         PROVE  TypeOK'
    <3>1. pointsInDoubt[p] - 1 \in Nat /\ pointRows[p] + 1 \in Nat
      BY <2>17 DEF PointLands
    <3>2. pointsInDoubt' \in [Points -> Nat] /\ pointRows' \in [Points -> Nat]
      BY <2>17, <3>1 DEF PointLands
    <3> QED
      BY <2>0, <2>17, <3>2 DEF PointLands
  <2>18. ASSUME NEW f \in Fingerprints, MetaLands(f) \/ Merge(f)
         PROVE  TypeOK'
    <3>1. metaRows' \in [Fingerprints -> Nat] /\ metaInDoubt' \in [Fingerprints -> Nat]
      <4>1. CASE MetaLands(f)
        <5>1. metaInDoubt[f] - 1 \in Nat /\ metaRows[f] + 1 \in Nat
          BY <4>1 DEF MetaLands
        <5> QED
          BY <4>1, <5>1 DEF MetaLands
      <4>2. CASE Merge(f)
        <5>1. \A n \in MergedTo(metaRows[f]) : n \in Nat
          BY DEF MergedTo, ReplacedBy
        <5> QED
          BY <4>2, <5>1 DEF Merge
      <4> QED
        BY <2>18, <4>1, <4>2
    <3> QED
      BY <2>0, <2>18, <3>1 DEF MetaLands, Merge
  <2>19. CASE UNCHANGED vars
    BY <2>0, <2>19 DEF vars
  <2> QED
    BY <2>1, <2>2, <2>3, <2>4, <2>5, <2>6, <2>7, <2>8, <2>9, <2>10, <2>11, <2>12,
       <2>14, <2>15, <2>16, <2>17, <2>18, <2>19 DEF Next, Caller, Flusher, ClickHouse
<1> QED
  BY <1>1, <1>2, PTL DEF Spec

-----------------------------------------------------------------------------
(***************************************************************************)
(* The steps of Next, by what they may change: CallerStep leaves the       *)
(* flusher, the tables and the losses alone; BeginFlush only moves the     *)
(* flusher from its select to a flush.                                     *)
(***************************************************************************)
CallerStep == UNCHANGED << pc, stopping, batch, results >>
BeginFlush == pc = "select" /\ pc' = "flush" /\ UNCHANGED << channel, batch, results >>

LEMMA StepCases ==
    ASSUME [Next]_vars
    PROVE  \/ CallerStep
           \/ Receive \/ AccumulateSeries \/ AccumulateDone
           \/ BeginFlush
           \/ FlushNothing \/ InsertPoints \/ InsertMetadata
           \/ ClickHouse
           \/ Die
           \/ Restart
<1> USE DEF CallerStep, BeginFlush, channel, batch, callers, history, results, records, tables
<1>1. ASSUME NEW c \in Calls, Export(c) \/ Enqueue(c) \/ EnqueueCancelled(c)
      PROVE  CallerStep
  BY <1>1 DEF Export, Enqueue, Send, EnqueueCancelled
<1>2. ASSUME NEW f \in Flushers, Flush(f) \/ FlushCancelled(f)
      PROVE  CallerStep
  BY <1>2 DEF Flush, FlushCancelled
<1>3. ASSUME NEW k \in Closers, Close(k) \/ CloseReturns(k) \/ CloseCancelled(k)
      PROVE  CallerStep
  BY <1>3 DEF Close, CallClose, CloseReturns, CloseCancelled
<1>4. ASSUME Tick \/ ReceiveClosed \/ \E f \in Flushers : FlushRequest(f)
      PROVE  BeginFlush
  BY <1>4 DEF Tick, ReceiveClosed, StopReceiving, FlushRequest
<1>5. ASSUME Crash \/ \E c \in Calls : EnqueueOnClosed(c)
      PROVE  Die
  BY <1>5 DEF Crash, EnqueueOnClosed
<1>6. ASSUME UNCHANGED vars
      PROVE  CallerStep
  BY <1>6 DEF vars
<1> QED
  BY <1>1, <1>2, <1>3, <1>4, <1>5, <1>6 DEF Next, Caller, Flusher

-----------------------------------------------------------------------------
(***************************************************************************)
(* Where the flusher is decides what its buffers may hold.                 *)
(***************************************************************************)
ControlInv ==
    /\ pc # "accumulate" => todo = << >>
    /\ pc \in {"exited", "down"} => pendingPoints = << >> /\ pendingMeta = << >>
    /\ stopping => closed /\ queue = << >> /\ pc \in {"flush", "insertMeta", "exited"}
    /\ pc = "exited" => stopping
    /\ \A k \in Closers : closeCall[k] = "done" => pc = "exited"
    /\ BatchIsBounded

LEMMA ControlInvariant == Spec => []ControlInv
<1> USE DEF channel, batch, callers, history, results, records, tables
<1>1. Init => ControlInv
  <2> SUFFICES ASSUME Init PROVE ControlInv
    OBVIOUS
  <2>1. Len(pendingPoints) = 0 /\ Len(pendingMeta) = 0 /\ Len(todo) = 0
    BY EmptySeq DEF Init, NewIngester
  <2> QED
    BY <2>1, LimitsArePositive DEF Init, NewIngester, ControlInv, BatchIsBounded
<1>2. TypeOK /\ ControlInv /\ [Next]_vars => ControlInv'
  <2> SUFFICES ASSUME TypeOK, ControlInv, [Next]_vars
               PROVE  ControlInv'
    OBVIOUS
  <2>0. /\ cfg' = cfg /\ Len(<< >>) = 0
        /\ cfg.MaxBatchPoints \in Nat \ {0}
    BY LimitsArePositive, EmptySeq DEF cfg
  <2>1. /\ Len(todo) \in Nat /\ Len(pendingMeta) \in Nat /\ Len(pendingPoints) \in Nat
        /\ todo \in Seq(Fingerprints) /\ pendingMeta \in Seq(Fingerprints)
        /\ pendingPoints \in Seq(Points) /\ queue \in Seq(Calls)
    BY LenProperties DEF TypeOK
  <2>2. ASSUME NEW c \in Calls, Export(c) \/ Enqueue(c) \/ EnqueueCancelled(c)
        PROVE  ControlInv'
    BY <2>0, <2>2 DEF Export, Enqueue, Send, EnqueueCancelled, ControlInv, BatchIsBounded
  <2>3. ASSUME NEW f \in Flushers, Flush(f) \/ FlushCancelled(f) \/ FlushRequest(f)
        PROVE  ControlInv'
    BY <2>0, <2>3 DEF Flush, FlushCancelled, FlushRequest, ControlInv, BatchIsBounded
  <2>4. ASSUME NEW k \in Closers, Close(k) \/ CloseReturns(k) \/ CloseCancelled(k)
        PROVE  ControlInv'
    <3>1. closeCall \in [Closers -> {"idle", "waiting", "done", "cancelled"}]
      BY DEF TypeOK
    <3>2. CASE Close(k)
      <4>1. closed'
        BY <3>2 DEF Close, CallClose
      <4>2. \A j \in Closers : closeCall'[j] = "done" => closeCall[j] = "done"
        BY <3>1, <3>2 DEF Close, CallClose
      <4>3. UNCHANGED << queue, pc, stopping, todo, pendingPoints, pendingMeta >>
        BY <3>2 DEF Close, CallClose
      <4> QED
        BY <2>0, <4>1, <4>2, <4>3 DEF ControlInv, BatchIsBounded
    <3>3. CASE CloseReturns(k) \/ CloseCancelled(k)
      <4>1. \A j \in Closers : closeCall'[j] = "done" => pc = "exited"
        BY <3>1, <3>3 DEF CloseReturns, CloseCancelled, ControlInv
      <4>2. UNCHANGED << queue, closed, pc, stopping, todo, pendingPoints, pendingMeta >>
        BY <3>3 DEF CloseReturns, CloseCancelled
      <4> QED
        BY <2>0, <4>1, <4>2 DEF ControlInv, BatchIsBounded
    <3> QED
      BY <2>4, <3>2, <3>3
  <2>5. CASE Receive
    <3> DEFINE c == Head(queue)
    <3>1. c \in Calls
      BY <2>1, <2>5, HeadTailProperties DEF Receive
    <3>2. /\ Len(pendingPoints') = Len(pendingPoints) + Len(PointsOf[c])
          /\ Len(PointsOf[c]) \in Nat /\ Len(MetadataOf[c]) \in Nat
      BY <2>1, <2>5, <3>1, RequestTypes, ConcatProperties, LenProperties
      DEF Receive, Accumulated
    <3>3. Len(MetadataOf[c]) <= Len(PointsOf[c])
      BY <3>1, RequestAssumption
    <3> QED
      BY <2>0, <2>1, <2>5, <3>2, <3>3 DEF Receive, ControlInv, BatchIsBounded
  <2>6. CASE AccumulateSeries
    <3>1. Head(todo) \in Fingerprints /\ Len(todo') = Len(todo) - 1
      BY <2>1, <2>6, HeadTailProperties DEF AccumulateSeries
    <3>2. Len(pendingMeta') \in Nat /\ Len(pendingMeta') <= Len(pendingMeta) + 1
      BY <2>1, <2>6, <3>1, AppendProperties DEF AccumulateSeries
    <3> QED
      BY <2>0, <2>1, <2>6, <3>1, <3>2 DEF AccumulateSeries, ControlInv, BatchIsBounded
  <2>7. CASE AccumulateDone
    BY <2>0, <2>1, <2>7 DEF AccumulateDone, BatchIsFull, ControlInv, BatchIsBounded
  <2>8. CASE Tick \/ ReceiveClosed
    BY <2>0, <2>8 DEF Tick, ReceiveClosed, StopReceiving, ControlInv, BatchIsBounded
  <2>9. CASE FlushNothing
    BY <2>0, <2>9 DEF FlushNothing, NothingPending, FlushReturns, AnswerFlush, ControlInv,
                      BatchIsBounded
  <2>10. CASE InsertPoints
    BY <2>0, <2>10 DEF InsertPoints, ControlInv, BatchIsBounded
  <2>11. CASE InsertMetadata
    BY <2>0, <2>11 DEF InsertMetadata, EmptyBuffers, FlushReturns, AnswerFlush, ControlInv,
                       BatchIsBounded
  <2>12. CASE Die
    BY <2>0, <2>12 DEF Die, ControlInv, BatchIsBounded
  <2>13. CASE Restart
    BY <2>0, <2>1, <2>13 DEF Restart, ControlInv, BatchIsBounded
  <2>14. CASE ClickHouse
    BY <2>0, <2>14 DEF ClickHouse, PointLands, MetaLands, Merge, ControlInv, BatchIsBounded
  <2>15. CASE UNCHANGED vars
    BY <2>0, <2>15 DEF vars, ControlInv, BatchIsBounded
  <2> QED
    BY <2>2, <2>3, <2>4, <2>5, <2>6, <2>7, <2>8, <2>9, <2>10, <2>11, <2>12, <2>13, <2>14, <2>15
    DEF Next, Caller, Flusher, Crash, EnqueueOnClosed
<1> QED
  BY <1>1, <1>2, TypeCorrect, PTL DEF Spec

\* The batch is below its limit whenever the flusher waits, and the metadata buffer
\* never outgrows it, for every configuration and every request (run, 154-157).
THEOREM BatchBounded == Spec => []BatchIsBounded
<1>1. ControlInv => BatchIsBounded
  BY DEF ControlInv
<1> QED
  BY <1>1, ControlInvariant, PTL

\* A Close call that returned nil left nothing in memory (Close and run's last flush).
THEOREM CloseIsFinal == Spec => []CloseDrains
<1>1. ControlInv => CloseDrains
  <2> SUFFICES ASSUME ControlInv, NEW k \in Closers, closeCall[k] = "done"
               PROVE  InFlightPoints = {} /\ InFlightMeta = {}
    BY DEF CloseDrains
  <2>1. /\ queue = << >> /\ todo = << >> /\ pendingPoints = << >> /\ pendingMeta = << >>
    BY DEF ControlInv
  <2> QED
    BY <2>1, RangeOfEmpty DEF InFlightPoints, InFlightMeta, QueuedPoints, QueuedMeta
<1> QED
  BY <1>1, ControlInvariant, PTL

-----------------------------------------------------------------------------
(***************************************************************************)
(* A series is covered when its row is in the table, about to be written,  *)
(* or in a batch this process logged as failed.  SuppressedIsCovered is    *)
(* not inductive: that a suppressed series stays covered while points of   *)
(* it are buffered, in doubt, stored and cut off by a crash needs those    *)
(* points too.                                                             *)
(***************************************************************************)
Sent(p)    == pointRows[p] > 0 \/ pointsInDoubt[p] > 0
Covered(f) == metaRows[f] > 0 \/ f \in Range(pendingMeta) \cup failedMeta

CoverInv ==
    /\ \A f \in seen.items : Covered(f)
    /\ \A p \in Range(pendingPoints) : Covered(SeriesOf[p]) \/ SeriesOf[p] \in Range(todo)
    /\ \A p \in Points : Sent(p) => Covered(SeriesOf[p]) \/ SeriesOf[p] \in lostMeta

LEMMA CoverInvariant == Spec => []CoverInv
<1> USE DEF channel, batch, callers, history, results, records, tables
<1>1. Init => CoverInv
  BY RangeOfEmpty DEF Init, Sent, NewIngester, NewFingerprintCache, CoverInv
<1>2. TypeOK /\ TypeOK' /\ ControlInv /\ CoverInv /\ [Next]_vars => CoverInv'
  <2> SUFFICES ASSUME TypeOK, TypeOK', ControlInv, CoverInv, [Next]_vars
               PROVE  CoverInv'
    OBVIOUS
  <2>1. /\ metaRows \in [Fingerprints -> Nat] /\ pointRows \in [Points -> Nat]
        /\ pointsInDoubt \in [Points -> Nat]
        /\ pendingMeta \in Seq(Fingerprints) /\ pendingPoints \in Seq(Points)
        /\ todo \in Seq(Fingerprints) /\ queue \in Seq(Calls)
        /\ seen.items \subseteq Fingerprints
    BY DEF TypeOK
  <2>2. \A p \in Points : SeriesOf[p] \in Fingerprints
    BY RequestAssumption
  <2>3. Range(pendingPoints) \subseteq Points /\ Range(pendingMeta) \subseteq Fingerprints
    BY <2>1, RangeOfSeq
  <2>0. \A p \in Points :
            p \notin Range(pendingPoints)
                => /\ Written(pointRows, pendingPoints)[p] = pointRows[p]
                   /\ Written(pointsInDoubt, pendingPoints)[p] = pointsInDoubt[p]
    <3> SUFFICES ASSUME NEW p \in Points, p \notin Range(pendingPoints)
                 PROVE  /\ Written(pointRows, pendingPoints)[p] = pointRows[p]
                        /\ Written(pointsInDoubt, pendingPoints)[p] = pointsInDoubt[p]
      OBVIOUS
    <3>1. \A rows \in [Points -> Nat] : Written(rows, pendingPoints)[p] = rows[p]
      <4>1. pendingPoints \in Seq(Points)
        BY <2>1
      <4>2. \A rows \in [Points -> Nat] :
                p \notin Range(pendingPoints) => Written(rows, pendingPoints)[p] = rows[p]
        BY <4>1, WrittenGrows
      <4> QED
        BY <4>2
    <3>2. pointRows \in [Points -> Nat] /\ pointsInDoubt \in [Points -> Nat]
      BY <2>1
    <3> QED
      BY <3>1, <3>2
  <2>4. CASE CallerStep \/ BeginFlush \/ AccumulateDone \/ FlushNothing \/ Restart
    <3>1. UNCHANGED << todo, pendingPoints, pendingMeta, seen, metaRows, pointRows,
                       pointsInDoubt, failedMeta, lostMeta >>
      BY <2>4 DEF CallerStep, BeginFlush, AccumulateDone, FlushNothing, Restart
    <3> QED
      BY <3>1 DEF CoverInv, Covered, Sent
  <2>5. CASE Receive
    <3> DEFINE c == Head(queue)
    <3>1. c \in Calls
      BY <2>1, <2>5, HeadTailProperties DEF Receive
    <3>2. Range(pendingPoints') = Range(pendingPoints) \cup Range(PointsOf[c])
      BY <2>1, <2>5, <3>1, RequestTypes, RangeConcatenation DEF Receive, Accumulated
    <3>3. \A p \in Range(PointsOf[c]) : SeriesOf[p] \in Range(todo')
      BY <2>5, <3>1, RequestAssumption DEF Receive
    <3>4. \A p \in Range(pendingPoints) : Covered(SeriesOf[p])
      BY <2>5, RangeOfEmpty DEF Receive, ControlInv, CoverInv
    <3>5. UNCHANGED << pendingMeta, seen, metaRows, pointRows, pointsInDoubt, failedMeta,
                       lostMeta >>
      BY <2>5 DEF Receive
    <3> QED
      BY <3>2, <3>3, <3>4, <3>5 DEF CoverInv, Covered, Sent
  <2>6. CASE AccumulateSeries
    <3>0. PICK h \in Fingerprints : h = Head(todo)
      BY <2>1, <2>6, HeadTailProperties DEF AccumulateSeries
    <3>1. h \in Fingerprints /\ h = Head(todo) /\ Range(todo) = {h} \cup Range(todo')
      BY <2>1, <2>6, <3>0, RangeOfTail DEF AccumulateSeries
    <3>2. /\ Range(pendingMeta) \subseteq Range(pendingMeta')
          /\ IsNew(seen, h) => h \in Range(pendingMeta')
      <4>1. CASE IsNew(seen, h)
        <5>1. pendingMeta' = Append(pendingMeta, h)
          BY <2>6, <3>1, <4>1 DEF AccumulateSeries
        <5>2. Range(Append(pendingMeta, h)) = Range(pendingMeta) \cup {h}
          BY <2>1, <3>1, RangeOfAppend
        <5> QED
          BY <5>1, <5>2
      <4>2. CASE ~ IsNew(seen, h)
        <5>1. pendingMeta' = pendingMeta
          BY <2>6, <3>1, <4>2 DEF AccumulateSeries
        <5> QED
          BY <4>2, <5>1
      <4> QED
        BY <4>1, <4>2
    <3>3. seen'.items \subseteq seen.items \cup {h}
      <4>1. seen \in Caches(Fingerprints, cfg.DedupCacheSize)
        BY DEF Caches, TypeOK
      <4> QED
        BY <4>1, <2>6, <3>1, AddType, LimitsArePositive DEF AccumulateSeries
    <3>4. UNCHANGED << pendingPoints, metaRows, pointRows, pointsInDoubt, failedMeta,
                       lostMeta >>
      BY <2>6 DEF AccumulateSeries
    <3>5. \A f \in Fingerprints : Covered(f) => Covered(f)'
      BY <3>2, <3>4 DEF Covered
    <3>6. Covered(h)'
      <4>1. CASE IsNew(seen, h)
        BY <3>2, <4>1 DEF Covered
      <4>2. CASE ~ IsNew(seen, h)
        BY <3>1, <3>5, <4>2 DEF CoverInv, IsNew
      <4> QED
        BY <4>1, <4>2
    <3>7. \A f \in seen'.items : Covered(f)'
      BY <2>1, <3>3, <3>5, <3>6 DEF CoverInv
    <3>8. \A p \in Range(pendingPoints) : Covered(SeriesOf[p])' \/ SeriesOf[p] \in Range(todo')
      BY <2>2, <2>3, <3>1, <3>5, <3>6 DEF CoverInv
    <3>9. \A p \in Points : Sent(p) => Covered(SeriesOf[p])' \/ SeriesOf[p] \in lostMeta
      BY <2>2, <3>5 DEF CoverInv
    <3> QED
      BY <3>4, <3>7, <3>8, <3>9 DEF CoverInv, Sent
  <2>7. CASE InsertPoints
    <3>0. \A p \in Points :
              /\ Written(pointRows, pendingPoints)[p] > 0
                    => pointRows[p] > 0 \/ p \in Range(pendingPoints)
              /\ Written(pointsInDoubt, pendingPoints)[p] > 0
                    => pointsInDoubt[p] > 0 \/ p \in Range(pendingPoints)
      BY <2>0
    <3>1. \A p \in Points : Sent(p)' => Sent(p) \/ p \in Range(pendingPoints)
      <4>1. CASE InsertPointsSucceeds
        <5>1. pointRows' = Written(pointRows, pendingPoints) /\ UNCHANGED pointsInDoubt
          BY <4>1 DEF InsertPointsSucceeds
        <5> QED
          BY <5>1, <3>0 DEF Sent
      <4>2. CASE InsertPointsFails
        <5>1. pointsInDoubt' = Written(pointsInDoubt, pendingPoints) /\ UNCHANGED pointRows
          BY <4>2 DEF InsertPointsFails
        <5> QED
          BY <5>1, <3>0 DEF Sent
      <4> QED
        BY <2>7, <4>1, <4>2 DEF InsertPoints
    <3>2. UNCHANGED << todo, pendingPoints, pendingMeta, seen, metaRows, failedMeta, lostMeta >>
      BY <2>7 DEF InsertPoints
    <3>3. todo = << >>
      BY <2>7 DEF InsertPoints, ControlInv
    <3> QED
      BY <3>1, <3>2, <3>3, RangeOfEmpty DEF CoverInv, Covered
  <2>8. CASE InsertMetadata
    <3>1. \A f \in Fingerprints : metaRows[f] > 0 => metaRows'[f] > 0
      <4>1. CASE InsertMetadataSucceeds
        <5>1. metaRows' = Written(metaRows, pendingMeta)
          BY <4>1 DEF InsertMetadataSucceeds
        <5>2. \A f \in Fingerprints : metaRows[f] \in Nat
          BY <2>1
        <5> QED
          BY <2>1, <5>1, <5>2, WrittenGrows
      <4>2. CASE InsertMetadataFails
        BY <4>2 DEF InsertMetadataFails
      <4> QED
        BY <2>8, <4>1, <4>2 DEF InsertMetadata
    <3>2. \A f \in Range(pendingMeta) : metaRows'[f] > 0 \/ f \in failedMeta'
      <4>1. CASE InsertMetadataSucceeds
        BY <2>1, <2>3, <4>1, WrittenGrows DEF InsertMetadataSucceeds
      <4>2. CASE InsertMetadataFails
        BY <4>2 DEF InsertMetadataFails
      <4> QED
        BY <2>8, <4>1, <4>2 DEF InsertMetadata
    <3>3. failedMeta \subseteq failedMeta'
      BY <2>8 DEF InsertMetadata, InsertMetadataSucceeds, InsertMetadataFails
    <3>4. \A f \in Fingerprints : Covered(f) => Covered(f)'
      BY <3>1, <3>2, <3>3 DEF Covered
    <3>5. pendingPoints' = << >>
      BY <2>8 DEF InsertMetadata, EmptyBuffers
    <3>6. UNCHANGED << seen, pointRows, pointsInDoubt, lostMeta >>
      BY <2>8 DEF InsertMetadata
    <3> QED
      BY <2>1, <2>2, <3>4, <3>5, <3>6, RangeOfEmpty DEF CoverInv, Sent
  <2>9. CASE Die
    <3>0. \A p \in Points :
              /\ Written(pointRows, pendingPoints)[p] > 0
                    => pointRows[p] > 0 \/ p \in Range(pendingPoints)
              /\ Written(pointsInDoubt, pendingPoints)[p] > 0
                    => pointsInDoubt[p] > 0 \/ p \in Range(pendingPoints)
      BY <2>0
    <3>1. metaRows' = metaRows /\ pointRows' = pointRows
      BY <2>9 DEF Die
    <3>2. \A p \in Points : Sent(p)' => Sent(p) \/ p \in Range(pendingPoints)
      <4>1. CASE pc = "flush"
        <5>1. pointsInDoubt' = Written(pointsInDoubt, pendingPoints) /\ UNCHANGED pointRows
          BY <2>9, <4>1 DEF Die
        <5> QED
          BY <5>1, <3>0 DEF Sent
      <4>2. CASE pc # "flush"
        BY <2>9, <3>1, <4>2 DEF Die, Sent
      <4> QED
        BY <4>1, <4>2
    <3>3. lostMeta' = lostMeta \cup failedMeta \cup InFlightMeta
      BY <2>9 DEF Die
    <3>4. \A f \in Fingerprints : Covered(f) \/ f \in Range(todo) =>
              metaRows'[f] > 0 \/ f \in lostMeta'
      BY <3>1, <3>3 DEF Covered, InFlightMeta
    <3>5. \A p \in Points : Sent(p)' => metaRows'[SeriesOf[p]] > 0 \/ SeriesOf[p] \in lostMeta'
      BY <2>2, <3>2, <3>3, <3>4 DEF CoverInv
    <3>6. seen'.items = {} /\ pendingPoints' = << >>
      BY <2>9 DEF Die, NewFingerprintCache
    <3> QED
      BY <3>5, <3>6, RangeOfEmpty DEF CoverInv, Covered
  <2>10. CASE ClickHouse
    <3>1. \A f \in Fingerprints : metaRows[f] > 0 => metaRows'[f] > 0
      <4>1. ASSUME NEW p \in Points, PointLands(p)
            PROVE  metaRows' = metaRows
        BY <4>1 DEF PointLands
      <4>2. ASSUME NEW g \in Fingerprints, MetaLands(g)
            PROVE  \A f \in Fingerprints : metaRows[f] > 0 => metaRows'[f] > 0
        BY <2>1, <4>2 DEF MetaLands
      <4>3. ASSUME NEW g \in Fingerprints, Merge(g)
            PROVE  \A f \in Fingerprints : metaRows[f] > 0 => metaRows'[f] > 0
        BY <2>1, <4>3 DEF Merge, MergedTo, ReplacedBy
      <4> QED
        BY <2>10, <4>1, <4>2, <4>3 DEF ClickHouse
    <3>2. \A p \in Points : Sent(p)' => Sent(p)
      <4>1. ASSUME NEW q \in Points, PointLands(q)
            PROVE  \A p \in Points : Sent(p)' => Sent(p)
        BY <2>1, <4>1 DEF PointLands, Sent
      <4>2. ASSUME NEW g \in Fingerprints, MetaLands(g) \/ Merge(g)
            PROVE  \A p \in Points : Sent(p)' => Sent(p)
        BY <4>2 DEF MetaLands, Merge, Sent
      <4> QED
        BY <2>10, <4>1, <4>2 DEF ClickHouse
    <3>3. UNCHANGED << todo, pendingPoints, pendingMeta, seen, failedMeta, lostMeta >>
      BY <2>10 DEF ClickHouse, PointLands, MetaLands, Merge
    <3>4. \A f \in Fingerprints : Covered(f) => Covered(f)'
      BY <3>1, <3>3 DEF Covered
    <3> QED
      BY <2>1, <2>2, <2>3, <3>2, <3>3, <3>4 DEF CoverInv
  <2> QED
    BY <2>4, <2>5, <2>6, <2>7, <2>8, <2>9, <2>10, StepCases
<1> QED
  BY <1>1, <1>2, TypeCorrect, ControlInvariant, PTL DEF Spec

\* A suppressed series has its row, or the row is pending, or its batch was logged as
\* failed: accumulate's cache never runs further ahead of the table.
THEOREM SuppressionIsCovered == Spec => []SuppressedIsCovered
<1>1. CoverInv => SuppressedIsCovered
  BY DEF CoverInv, Covered, SuppressedIsCovered
<1> QED
  BY <1>1, CoverInvariant, PTL

\* Deduplication, eviction and the order points-before-metadata orphan no stored point:
\* only a failed metadata batch or a dead process does (flush's comment, 179-182).
THEOREM StoredPointsAreJoinable == Spec => []StoredIsJoinable
<1>1. CoverInv => StoredIsJoinable
  BY DEF CoverInv, Covered, Sent, StoredIsJoinable
<1> QED
  BY <1>1, CoverInvariant, PTL
=============================================================================
